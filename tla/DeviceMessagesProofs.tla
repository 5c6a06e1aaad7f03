------------------------ MODULE DeviceMessagesProofs ------------------------
(***************************************************************************)
(* Properties of DeviceMessages, for all its constants: a message is       *)
(* answered well only when everything is stored, its device is one that    *)
(* the registry held while it was looked up, MQTT creates none, and the    *)
(* Context Broker gets the telemetry in order; what a message carries fits *)
(* its numbers, and no message is forgotten.                               *)
(***************************************************************************)
EXTENDS DeviceMessages, FiniteSetTheorems, TLAPS

-----------------------------------------------------------------------------
(* The invariant.  For OkMeansStored it says how far the updates of a      *)
(* message are; for LookupWasTrue, what of a lookup is known before it is  *)
(* answered.  What waits in the queue has not been touched yet, so that    *)
(* the worker takes up nothing that is already in progress.                *)

States == {"waiting", "lookup", "updating"} \cup Final

MessageTypes ==
    [via : AllVias, keys : Seq(AnyKey \cup {None}), at : Nat \ {0}, values : Nat, state : States,
     device : Keys \cup {None}, pending : SUBSET Nat, stored : SUBSET Nat]

\* How far the updates are.
Progress(msg) ==
    /\ msg.state \notin {"updating", "ok", "failed"} => msg.pending = {} /\ msg.stored = {}
    /\ msg.state = "updating" /\ InSeries(msg) =>
          \E v \in 1 .. msg.values : msg.pending = {v} /\ msg.stored = 1 .. v - 1
    /\ msg.state = "updating" /\ ~InSeries(msg) =>
          msg.pending \cup msg.stored = 1 .. msg.values
    /\ msg.state = "ok" => msg.pending = {} /\ msg.stored = 1 .. msg.values

\* What the lookup may rely on: messages without a key of their own have no other.
Keyed(msg) ==
    /\ msg.state \in {"waiting", "lookup"} => msg.device = None
    /\ msg.state = "waiting" => msg.at = 1
    /\ msg.via \in {"telemetry", "results", "amqp"} =>
          msg.at = 1 /\ Len(msg.keys) = 1 /\ msg.keys[1] = DefaultKey

Good(msg) == msg \in MessageTypes /\ Progress(msg) /\ Keyed(msg)

MessagesInv ==
    /\ messages \in Seq(MessageTypes)
    /\ \A m \in DOMAIN messages : Good(messages[m])

QueueInv ==
    /\ waiting \subseteq [key : {"attribute"}, item : Nat]
    /\ \A e \in waiting : e.item \in DOMAIN messages /\ messages[e.item].state = "waiting"

TriedBefore(msg, regs) == \A i \in 1 .. msg.at - 1 : NotThere(msg.keys[i], regs)

SeenInv ==
    /\ seen \in Seq(SUBSET SUBSET Keys) /\ Len(seen) = Len(messages)
    /\ \A m \in DOMAIN messages : LookedUp(m) => TriedBefore(messages[m], seen[m])

Inv == MessagesInv /\ QueueInv /\ SeenInv /\ records \subseteq Keys /\ changes \in Nat

\* Only the answer to its lookup changes a message that is looked up.
LookupsStay == \A m \in DOMAIN messages : LookedUp(m) => messages'[m] = messages[m]

-----------------------------------------------------------------------------
(* Messages as they come *)

LEMMA NewIsGood ==
    ASSUME NEW via \in AllVias, NEW keys \in Seq(AnyKey \cup {None}), NEW n \in Nat,
           NEW state \in {"waiting", "lookup", "rejected", "failed"},
           via \in {"telemetry", "results", "amqp"} => Len(keys) = 1 /\ keys[1] = DefaultKey
    PROVE  /\ Good(New(via, keys, n, state)) /\ New(via, keys, n, state).at = 1
           /\ New(via, keys, n, state).state = state
           /\ New(via, keys, n, state).via = via /\ New(via, keys, n, state).values = n
<1>. DEFINE msg == New(via, keys, n, state)
<1>1. msg \in MessageTypes
  BY DEF New, MessageTypes, States, Final
<1>2. Progress(msg)
  BY DEF New, Progress
<1>3. Keyed(msg) /\ msg.at = 1 /\ msg.state = state /\ msg.via = via /\ msg.values = n
  BY DEF New, Keyed
<1>. QED  BY <1>1, <1>2, <1>3 DEF Good

LEMMA KeylessIsGood ==
    ASSUME NEW via \in AllVias, NEW n \in Nat, NEW state \in {"waiting", "lookup", "rejected", "failed"}
    PROVE  LET msg == New(via, <<DefaultKey>>, n, state)
           IN  Good(msg) /\ msg.at = 1 /\ msg.state = state /\ msg.via = via /\ msg.values = n
<1>. DEFINE keys == <<DefaultKey>>
<1>1. keys \in Seq(AnyKey \cup {None}) /\ Len(keys) = 1 /\ keys[1] = DefaultKey
  BY DEF AnyKey
<1>. HIDE DEF keys
<1>2. LET msg == New(via, keys, n, state)
      IN  Good(msg) /\ msg.at = 1 /\ msg.state = state /\ msg.via = via /\ msg.values = n
  BY <1>1, NewIsGood
<1>. QED  BY <1>2 DEF keys

\* A message that comes and does not wait leaves everything else as it was.
LEMMA ArrivalKeeps ==
    ASSUME Inv, NEW msg, Arrives(msg), UNCHANGED queue,
           Good(msg), msg.at = 1, msg.state # "waiting"
    PROVE  Inv' /\ LookupsStay
<1>. USE DEF Arrives, registry, queue
<1>1. /\ messages' \in Seq(MessageTypes) /\ Len(messages') = Len(messages) + 1
      /\ \A m \in DOMAIN messages : messages'[m] = messages[m] /\ m \in DOMAIN messages'
      /\ \A m \in DOMAIN messages' : m \in DOMAIN messages \/ messages'[m] = msg
  BY DEF Inv, MessagesInv, Good
<1>2. MessagesInv'
  BY <1>1 DEF Inv, MessagesInv
<1>3. QueueInv'
  BY <1>1 DEF Inv, QueueInv
<1>4. /\ seen' \in Seq(SUBSET SUBSET Keys) /\ Len(seen') = Len(seen) + 1
      /\ \A m \in DOMAIN messages : seen'[m] = seen[m]
  BY DEF Inv, SeenInv, MessagesInv
<1>5. SeenInv'
  BY <1>1, <1>4 DEF Inv, SeenInv, LookedUp, TriedBefore
<1>. QED  BY <1>1, <1>2, <1>3, <1>5 DEF Inv, LookupsStay

-----------------------------------------------------------------------------
(* The queue *)

\* A function over the indices of a sequence is a sequence of that length.
LEMMA SameLength ==
    ASSUME NEW S, NEW T, NEW s \in Seq(S), NEW f \in [DOMAIN s -> T]
    PROVE  f \in Seq(T) /\ Len(f) = Len(s) /\ DOMAIN f = DOMAIN s
OBVIOUS

LEMMA DroppedIsGood ==
    ASSUME NEW msg, Good(msg)
    PROVE  /\ Good(Dropped(msg)) /\ Dropped(msg).state # "waiting"
           /\ Dropped(msg).state = "lookup" => Dropped(msg) = msg
<1>1. CASE msg.state # "waiting"
  BY <1>1 DEF Dropped
<1>2. CASE msg.state = "waiting"
  <2>. DEFINE dropped == [msg EXCEPT !.state = "dropped"]
  <2>1. dropped \in MessageTypes /\ dropped.state = "dropped"
    BY DEF Good, MessageTypes, States, Final
  <2>2. Progress(dropped) /\ Keyed(dropped)
    BY <1>2, <2>1 DEF Good, Progress, Keyed, MessageTypes
  <2>. QED  BY <1>2, <2>1, <2>2 DEF Dropped, Good
<1>. QED  BY <1>1, <1>2

\* Newer telemetry, or the shutdown timer, drops what waits.
LEMMA DropKeeps ==
    ASSUME Inv
    PROVE  LET dropped == [m \in DOMAIN messages |-> Dropped(messages[m])]
           IN  /\ dropped \in Seq(MessageTypes) /\ Len(dropped) = Len(messages)
               /\ \A m \in DOMAIN messages :
                     /\ Good(dropped[m]) /\ dropped[m].state # "waiting"
                     /\ dropped[m].state = "lookup" => dropped[m] = messages[m]
<1>. DEFINE dropped == [m \in DOMAIN messages |-> Dropped(messages[m])]
<1>1. \A m \in DOMAIN messages :
         /\ dropped[m] \in MessageTypes /\ Good(dropped[m]) /\ dropped[m].state # "waiting"
         /\ dropped[m].state = "lookup" => dropped[m] = messages[m]
  BY DroppedIsGood DEF Inv, MessagesInv, Good
<1>2. dropped \in [DOMAIN messages -> MessageTypes]
  BY <1>1
<1>. HIDE DEF dropped
<1>3. dropped \in Seq(MessageTypes) /\ Len(dropped) = Len(messages)
  BY <1>2, SameLength DEF Inv, MessagesInv
<1>. QED  BY <1>1, <1>3 DEF dropped

LEMMA TelemetryKeeps ==
    ASSUME Inv, NEW n \in Nat, Telemetry(n)
    PROVE  Inv' /\ LookupsStay
<1>. DEFINE msg == New("telemetry", <<DefaultKey>>, n, "waiting")
            dropped == [m \in DOMAIN messages |-> Dropped(messages[m])]
<1>1. Good(msg) /\ msg.state = "waiting"
  <2>1. "telemetry" \in AllVias
    BY DEF AllVias
  <2>. QED  BY <2>1, KeylessIsGood
<1>2. /\ dropped \in Seq(MessageTypes) /\ Len(dropped) = Len(messages)
      /\ \A m \in DOMAIN messages :
            /\ Good(dropped[m]) /\ dropped[m].state # "waiting"
            /\ dropped[m].state = "lookup" => dropped[m] = messages[m]
  BY DropKeeps
<1>3. /\ messages' = Append(dropped, msg) /\ seen' = Append(seen, {})
      /\ UNCHANGED <<records, changes>>
      /\ \A e \in waiting' : (e \in waiting /\ e.key # "attribute") \/ e = [key |-> "attribute", item |-> Next1]
  BY DEF Telemetry, registry, Buffer!Put
<1>. HIDE DEF dropped, msg
<1>4. /\ messages' \in Seq(MessageTypes) /\ Len(messages') = Len(messages) + 1
      /\ \A m \in DOMAIN messages : messages'[m] = dropped[m]
      /\ messages'[Next1] = msg /\ DOMAIN messages' = DOMAIN messages \cup {Next1}
  BY <1>1, <1>2, <1>3 DEF Inv, MessagesInv, Good, Next1
<1>5. MessagesInv'
  BY <1>1, <1>2, <1>4 DEF MessagesInv
<1>6. QueueInv'
  BY <1>1, <1>3, <1>4 DEF Inv, QueueInv
<1>7. /\ seen' \in Seq(SUBSET SUBSET Keys) /\ Len(seen') = Len(seen) + 1
      /\ \A m \in DOMAIN messages : seen'[m] = seen[m]
  BY <1>3 DEF Inv, SeenInv, MessagesInv
<1>8. SeenInv'
  BY <1>1, <1>2, <1>4, <1>7 DEF Inv, SeenInv, LookedUp, TriedBefore
<1>9. LookupsStay
  <2>1. \A m \in DOMAIN messages : LookedUp(m) => dropped[m] = messages[m]
    BY DEF dropped, LookedUp, Dropped
  <2>. QED  BY <1>4, <2>1 DEF LookupsStay
<1>. QED  BY <1>3, <1>5, <1>6, <1>8, <1>9 DEF Inv

LEMMA ShutdownTimeoutKeeps ==
    ASSUME Inv, ShutdownTimeout
    PROVE  Inv' /\ LookupsStay
<1>1. /\ waiting' = {} /\ UNCHANGED <<records, changes, seen>>
      /\ messages' = [m \in DOMAIN messages |-> Dropped(messages[m])]
  BY DEF ShutdownTimeout, registry, Buffer!Discard
<1>2. /\ messages' \in Seq(MessageTypes) /\ Len(messages') = Len(messages)
      /\ \A m \in DOMAIN messages :
            Good(messages'[m]) /\ (messages'[m].state = "lookup" => messages'[m] = messages[m])
  BY <1>1, DropKeeps
<1>3. MessagesInv' /\ DOMAIN messages' = DOMAIN messages
  BY <1>2 DEF MessagesInv, Inv
<1>4. SeenInv'
  BY <1>1, <1>2, <1>3 DEF Inv, SeenInv, LookedUp, TriedBefore
<1>5. LookupsStay
  BY <1>1 DEF LookupsStay, LookedUp, Dropped
<1>. QED  BY <1>1, <1>3, <1>4, <1>5 DEF Inv, QueueInv

\* The worker takes up a message that nobody has touched.
LEMMA ServeKeeps ==
    ASSUME Inv, Serve
    PROVE  Inv' /\ LookupsStay
<1>1. PICK e \in waiting : Buffer!Serve(e) /\ messages' = [messages EXCEPT ![e.item].state = "lookup"]
                           /\ seen' = [seen EXCEPT ![e.item] = {records}] /\ UNCHANGED <<registry, latest>>
  BY DEF Serve
<1>. DEFINE msg == [messages[e.item] EXCEPT !.state = "lookup"]
<1>2. e.item \in DOMAIN messages /\ Good(messages[e.item]) /\ messages[e.item].state = "waiting"
  BY DEF Inv, QueueInv, MessagesInv
<1>3. msg \in MessageTypes /\ msg.state = "lookup" /\ msg.at = 1
  BY <1>2 DEF Good, MessageTypes, States, Keyed
<1>4. Good(msg)
  BY <1>2, <1>3 DEF Good, MessageTypes, Progress, Keyed
<1>5. /\ messages' \in Seq(MessageTypes) /\ Len(messages') = Len(messages)
      /\ DOMAIN messages' = DOMAIN messages
      /\ \A m \in DOMAIN messages : messages'[m] = IF m = e.item THEN msg ELSE messages[m]
  BY <1>1, <1>2, <1>3 DEF Inv, MessagesInv
<1>. HIDE DEF msg
<1>6. MessagesInv'
  BY <1>4, <1>5 DEF Inv, MessagesInv
<1>7. QueueInv'
  <2>1. \A f \in waiting' : f \in waiting /\ f # e
    BY <1>1 DEF Buffer!Serve
  <2>2. \A f \in waiting' : f.item # e.item
    BY <2>1 DEF Inv, QueueInv
  <2>. QED  BY <1>2, <1>3, <1>5, <2>1, <2>2 DEF Inv, QueueInv
<1>8. /\ seen' \in Seq(SUBSET SUBSET Keys) /\ Len(seen') = Len(seen)
      /\ \A m \in DOMAIN messages : m # e.item => seen'[m] = seen[m]
  BY <1>1, <1>2 DEF Inv, SeenInv, MessagesInv
<1>9. SeenInv'
  BY <1>3, <1>5, <1>8 DEF Inv, SeenInv, LookedUp, TriedBefore
<1>10. LookupsStay
  BY <1>2, <1>5 DEF LookupsStay, LookedUp
<1>. QED  BY <1>1, <1>6, <1>7, <1>9, <1>10 DEF Inv, registry

-----------------------------------------------------------------------------
(* Lookups and updates *)

LEMMA Monotone ==
    ASSUME NEW key, NEW R, NEW S, R \subseteq S, NotThere(key, R)
    PROVE  NotThere(key, S)
BY DEF NotThere

\* Lookups and answers change one message that does not wait.
LEMMA OneChanges ==
    ASSUME Inv, NEW m \in DOMAIN messages, messages[m].state # "waiting",
           NEW msg, Good(msg), msg.state # "waiting",
           messages' = [messages EXCEPT ![m] = msg], WorkerTold
    PROVE  /\ MessagesInv' /\ QueueInv'
           /\ Len(messages') = Len(messages) /\ DOMAIN messages' = DOMAIN messages
           /\ \A k \in DOMAIN messages : messages'[k] = IF k = m THEN msg ELSE messages[k]
<1>1. waiting' = waiting
  BY DEF WorkerTold, queue, Buffer!Finish
<1>2. /\ messages' \in Seq(MessageTypes) /\ Len(messages') = Len(messages)
      /\ DOMAIN messages' = DOMAIN messages
      /\ \A k \in DOMAIN messages : messages'[k] = IF k = m THEN msg ELSE messages[k]
  BY DEF Inv, MessagesInv, Good
<1>3. MessagesInv'
  BY <1>2 DEF Inv, MessagesInv
<1>4. QueueInv'
  BY <1>1, <1>2 DEF Inv, QueueInv
<1>. QED  BY <1>2, <1>3, <1>4

\* What the registry says is true of it.
LEMMA LookupFacts ==
    ASSUME Inv, NEW key, NEW result, Retrieve(key, result)
    PROVE  /\ records' \subseteq Keys
           /\ result \in Keys /\ key = DefaultKey => records' = {result}
           /\ result \in Keys /\ key # DefaultKey => result = key /\ key \in records'
           /\ result = "unknown" => NotThere(key, {records'})
<1>. USE MessagesAssumption DEF Inv
<1>1. CASE key = DefaultKey /\ GlobalLookup(result)
  <2>1. IsFiniteSet(records)
    BY FS_Subset
  <2>2. Cardinality(records) = 1 /\ result \in records => records = {result}
    BY <2>1, FS_Singleton
  <2>. QED  BY <1>1, <2>2 DEF GlobalLookup, NotThere
<1>2. CASE key # DefaultKey /\ GroupLookup(key, result)
  BY <1>2 DEF GroupLookup, NotThere
<1>3. CASE result = "error" /\ UNCHANGED records
  BY <1>3
<1>. QED  BY <1>1, <1>2, <1>3 DEF Retrieve

LEMMA ProceedIsGood ==
    ASSUME NEW msg, Good(msg), msg.state = "lookup",
           NEW result \in Keys \cup {"unknown", "ambiguous", "error"}
    PROVE  LET next == Proceed(msg, result)
           IN  /\ Good(next) /\ next.state # "waiting" /\ next.keys = msg.keys
               /\ next.state = "lookup" => result = "unknown" /\ next.at = msg.at + 1 /\ next.device = None
               /\ next.state # "lookup" => next.at = msg.at /\ next.device \in {None, result}
               /\ next.state = "ignored" => result = "unknown" /\ next.device = None /\ next.keys[next.at] = DefaultKey
               /\ next.via = msg.via /\ next.values = msg.values
               /\ next.state = "failed" => next.pending = {}
<1>. USE MessagesAssumption
<1>. DEFINE next == Proceed(msg, result)
<1>1. CASE result \in Keys
  <2>. DEFINE pending == IF InSeries(msg) /\ msg.values > 0 THEN {1} ELSE 1 .. msg.values
              state == IF msg.values = 0 THEN "ok" ELSE "updating"
  <2>1. next = [msg EXCEPT !.device = result, !.pending = pending, !.state = state]
    BY <1>1 DEF Proceed, Send, InSeries, Good, MessageTypes
  <2>2. pending \in SUBSET Nat /\ state \in States
    BY DEF Good, MessageTypes, States, Final
  <2>3. msg \in MessageTypes /\ msg.stored = {}
    BY DEF Good, Progress
  <2>. HIDE DEF next, pending, state
  <2>4. /\ next \in MessageTypes /\ next.pending = pending /\ next.state = state /\ next.device = result
        /\ next.via = msg.via /\ next.stored = {} /\ next.values = msg.values
        /\ next.at = msg.at /\ next.keys = msg.keys
    BY <1>1, <2>1, <2>2, <2>3 DEF MessageTypes
  <2>. USE DEF next, pending, state
  <2>5. Progress(next)
    BY <2>4 DEF Progress, InSeries, MessageTypes
  <2>6. Keyed(next)
    BY <2>4 DEF Good, Keyed
  <2>. QED  BY <2>4, <2>5, <2>6 DEF Good
<1>2. CASE result = "unknown" /\ msg.via \in {"telemetry", "results", "amqp"}
  <2>1. next = [msg EXCEPT !.state = "ignored"]
    BY <1>2 DEF Proceed
  <2>2. next \in MessageTypes /\ Progress(next) /\ Keyed(next)
    BY <2>1 DEF Good, MessageTypes, States, Final, Progress, Keyed
  <2>. QED  BY <1>2, <2>1, <2>2 DEF Good, MessageTypes, Keyed
<1>3. CASE result = "unknown" /\ msg.via = "argo" /\ msg.at < Len(msg.keys)
  <2>1. next = [msg EXCEPT !.at = msg.at + 1]
    BY <1>3 DEF Proceed
  <2>2. next \in MessageTypes /\ Progress(next) /\ Keyed(next)
    BY <1>3, <2>1 DEF Good, MessageTypes, Progress, Keyed, InSeries
  <2>. QED  BY <1>3, <2>1, <2>2 DEF Good, MessageTypes, Keyed
<1>4. CASE next = [msg EXCEPT !.state = "failed"]
  <2>1. next \in MessageTypes /\ Progress(next) /\ Keyed(next)
    BY <1>4 DEF Good, MessageTypes, States, Final, Progress, Keyed
  <2>. QED  BY <1>4, <2>1 DEF Good, MessageTypes, Keyed, Progress
<1>. QED  BY <1>1, <1>2, <1>3, <1>4 DEF Proceed

LEMMA AnsweredIsGood ==
    ASSUME NEW msg, Good(msg), NEW v \in msg.pending,
           NEW stored \in BOOLEAN, NEW error \in BOOLEAN, stored \/ error
    PROVE  LET now == IF stored THEN Stored(msg, v) ELSE msg
               next == Answered(now, v, error)
           IN  /\ Good(next) /\ next.state \notin {"waiting", "lookup"}
               /\ next.via = msg.via /\ next.values = msg.values
               /\ ~InSeries(msg) => next.pending = msg.pending \ {v}
<1>. DEFINE now == IF stored THEN Stored(msg, v) ELSE msg
            rest == IF InSeries(msg) /\ ~error /\ v < msg.values THEN {v + 1} ELSE msg.pending \ {v}
            state == CASE msg.state = "updating" /\ error -> "failed"
                      [] msg.state = "updating" /\ ~error /\ rest = {} -> "ok"
                      [] OTHER -> msg.state
            next == Answered(now, v, error)
<1>1. msg.state \in {"updating", "failed"} /\ v \in Nat
  BY DEF Good, Progress, MessageTypes, States, Final
<1>2. now \in MessageTypes /\ now.pending = msg.pending /\ now.state = msg.state /\ now.values = msg.values
      /\ now.via = msg.via /\ now.at = msg.at /\ now.keys = msg.keys
      /\ now.stored = IF stored THEN msg.stored \cup {v} ELSE msg.stored
  BY <1>1 DEF Good, MessageTypes, Stored
<1>. HIDE DEF now
<1>3. next = [now EXCEPT !.pending = rest, !.state = state]
  BY <1>1, <1>2 DEF Answered, InSeries, MessageTypes
<1>4. rest \in SUBSET Nat /\ state \in {"updating", "failed", "ok"}
  BY <1>1 DEF Good, MessageTypes
<1>. HIDE DEF next
<1>5. next \in MessageTypes /\ next.pending = rest /\ next.state = state /\ next.values = msg.values
      /\ next.via = msg.via /\ next.at = msg.at /\ next.keys = msg.keys /\ next.stored = now.stored
  <2>. HIDE DEF rest, state
  <2>. QED  BY <1>2, <1>3, <1>4 DEF MessageTypes, States, Final
<1>6. Keyed(next)
  BY <1>4, <1>5 DEF Good, Keyed
<1>7. Progress(next)
  <2>1. CASE msg.state = "failed" \/ error
    <3>1. state = "failed"
      BY <1>1, <2>1
    <3>. QED  BY <1>5, <3>1 DEF Progress
  <2>2. CASE msg.state = "updating" /\ ~error /\ InSeries(msg)
    <3>1. PICK w \in 1 .. msg.values : msg.pending = {w} /\ msg.stored = 1 .. w - 1
      BY <2>2 DEF Good, Progress
    <3>2. v = w /\ stored /\ msg.values \in Nat
      BY <2>2, <3>1 DEF Good, MessageTypes
    <3>3. (1 .. w - 1) \cup {w} = 1 .. w
      BY <3>2
    <3>4. next.stored = 1 .. v
      BY <1>2, <1>5, <3>1, <3>2, <3>3
    <3>5. CASE v < msg.values
      <4>1. next.state = "updating" /\ next.pending = {v + 1} /\ v + 1 \in 1 .. msg.values
        BY <1>5, <2>2, <3>2, <3>5
      <4>2. next.stored = 1 .. (v + 1) - 1
        BY <1>1, <3>4
      <4>3. \E u \in 1 .. next.values : next.pending = {u} /\ next.stored = 1 .. u - 1
        BY <1>5, <4>1, <4>2
      <4>4. InSeries(next)
        BY <1>5, <2>2 DEF InSeries
      <4>. HIDE DEF rest, state
      <4>. QED  BY <4>1, <4>3, <4>4 DEF Progress
    <3>6. CASE v = msg.values
      <4>1. next.state = "ok" /\ next.pending = {}
        BY <1>5, <2>2, <3>1, <3>2, <3>6
      <4>2. next.stored = 1 .. next.values
        BY <1>5, <3>4, <3>6
      <4>. QED  BY <4>1, <4>2 DEF Progress
    <3>. QED  BY <3>1, <3>2, <3>5, <3>6
  <2>3. CASE msg.state = "updating" /\ ~error /\ ~InSeries(msg)
    <3>1. msg.pending \cup msg.stored = 1 .. msg.values
      BY <2>3 DEF Good, Progress
    <3>. QED  BY <1>2, <1>5, <2>3, <3>1 DEF Progress, InSeries
  <2>. QED  BY <1>1, <2>1, <2>2, <2>3
<1>8. ~InSeries(msg) => next.pending = msg.pending \ {v}
  BY <1>5
<1>. QED  BY <1>4, <1>5, <1>6, <1>7, <1>8 DEF Good, next, now

LEMMA LookupKeeps ==
    ASSUME Inv, NEW m \in DOMAIN messages, LookupAnswered(m)
    PROVE  /\ Inv'
           /\ WasTrue(messages'[m], seen[m] \cup {records'})
           /\ \A k \in DOMAIN messages : k # m => messages'[k] = messages[k]
<1>. DEFINE key == messages[m].keys[messages[m].at]
            regs == seen[m] \cup {records'}
<1>1. PICK result \in Keys \cup {"unknown", "ambiguous", "error"} :
         /\ messages[m].state = "lookup" /\ Retrieve(key, result)
         /\ messages' = [messages EXCEPT ![m] = Proceed(messages[m], result)] /\ WorkerTold
         /\ seen' = Witnessed(records', IF messages'[m].state = "lookup" THEN {} ELSE {m})
         /\ UNCHANGED <<changes, latest>>
  BY DEF LookupAnswered
<1>. DEFINE next == Proceed(messages[m], result)
<1>2. /\ Good(next) /\ next.state # "waiting" /\ next.keys = messages[m].keys
      /\ next.state = "lookup" => result = "unknown" /\ next.at = messages[m].at + 1 /\ next.device = None
      /\ next.state # "lookup" => next.at = messages[m].at /\ next.device \in {None, result}
      /\ next.state = "ignored" => result = "unknown" /\ next.device = None /\ next.keys[next.at] = DefaultKey
  BY <1>1, ProceedIsGood DEF Inv, MessagesInv
<1>3. /\ records' \subseteq Keys
      /\ result \in Keys /\ key = DefaultKey => records' = {result}
      /\ result \in Keys /\ key # DefaultKey => result = key /\ key \in records'
      /\ result = "unknown" => NotThere(key, {records'})
  BY <1>1, LookupFacts
<1>. HIDE DEF next
<1>4. /\ MessagesInv' /\ QueueInv'
      /\ Len(messages') = Len(messages) /\ DOMAIN messages' = DOMAIN messages
      /\ \A k \in DOMAIN messages : messages'[k] = IF k = m THEN next ELSE messages[k]
  BY <1>1, <1>2, OneChanges DEF next
<1>5. messages[m] \in MessageTypes /\ next \in MessageTypes /\ seen[m] \in SUBSET SUBSET Keys
  BY <1>2 DEF Inv, MessagesInv, SeenInv, Good
<1>6. \A i \in 1 .. messages[m].at - 1 : NotThere(messages[m].keys[i], regs)
  BY <1>1, Monotone DEF Inv, SeenInv, LookedUp, TriedBefore
<1>7. TriedBefore(next, regs)
  <2>1. CASE next.state # "lookup"
    BY <1>2, <1>6, <2>1 DEF TriedBefore
  <2>2. CASE next.state = "lookup"
    <3>1. NotThere(key, regs)
      BY <1>2, <1>3, <2>2, Monotone
    <3>2. \A i \in 1 .. next.at - 1 : i \in 1 .. messages[m].at - 1 \/ i = messages[m].at
      BY <1>2, <1>5, <2>2 DEF MessageTypes
    <3>. QED  BY <1>2, <1>6, <3>1, <3>2 DEF TriedBefore
  <2>. QED  BY <2>1, <2>2
<1>8. SeenInv'
  <2>. DEFINE over == IF messages'[m].state = "lookup" THEN {} ELSE {m}
              was == [k \in DOMAIN messages |-> IF LookedUp(k) /\ k \notin over THEN seen[k] \cup {records'} ELSE {}]
  <2>1. seen' = was
    BY <1>1 DEF Witnessed
  <2>2. was \in [DOMAIN messages -> SUBSET SUBSET Keys]
    BY <1>3 DEF Inv, SeenInv
  <2>3. seen' \in Seq(SUBSET SUBSET Keys) /\ Len(seen') = Len(messages')
    <3>. HIDE DEF was
    <3>. QED  BY <1>4, <2>1, <2>2, SameLength DEF Inv, MessagesInv
  <2>4. LookedUp(m)' => TriedBefore(next, seen'[m])
    BY <1>1, <1>4, <1>7, <2>1 DEF LookedUp
  <2>5. ASSUME NEW k \in DOMAIN messages, k # m, LookedUp(k)
        PROVE  TriedBefore(messages[k], seen'[k])
    <3>1. seen'[k] = seen[k] \cup {records'}
      BY <2>1, <2>5
    <3>. QED  BY <2>5, <3>1, Monotone DEF Inv, SeenInv, TriedBefore
  <2>. QED  BY <1>4, <2>3, <2>4, <2>5 DEF SeenInv, LookedUp
<1>9. WasTrue(next, regs)
  <2>1. next.device # None => IF key = DefaultKey THEN {next.device} \in regs
                              ELSE next.device = key /\ \E r \in regs : key \in r
    BY <1>2, <1>3, <1>5, MessagesAssumption DEF MessageTypes
  <2>2. next.device # None => next.keys[next.at] = key
    BY <1>2
  <2>3. next.state = "ignored" => {} \in regs
    BY <1>2, <1>3 DEF NotThere
  <2>. QED  BY <1>7, <2>1, <2>2, <2>3 DEF WasTrue, TriedBefore
<1>. QED  BY <1>1, <1>3, <1>4, <1>8, <1>9 DEF Inv

LEMMA UpdateKeeps ==
    ASSUME Inv, NEW m \in DOMAIN messages, NEW v \in messages[m].pending, UpdateAnswered(m, v)
    PROVE  Inv' /\ LookupsStay
<1>1. PICK stored \in BOOLEAN, error \in BOOLEAN :
         /\ stored \/ error
         /\ messages' = [messages EXCEPT
                ![m] = Answered(IF stored THEN Stored(messages[m], v) ELSE messages[m], v, error)]
         /\ WorkerTold /\ UNCHANGED <<registry, seen>>
  BY DEF UpdateAnswered
<1>. DEFINE now == IF stored THEN Stored(messages[m], v) ELSE messages[m]
            next == Answered(now, v, error)
<1>2. messages' = [messages EXCEPT ![m] = next]
  BY <1>1
<1>3. Good(messages[m]) /\ messages[m].state \notin {"waiting", "lookup"}
  BY DEF Inv, MessagesInv, Good, Progress
<1>4. Good(next) /\ next.state \notin {"waiting", "lookup"}
  BY <1>1, <1>3, AnsweredIsGood
<1>. HIDE DEF next
<1>5. /\ MessagesInv' /\ QueueInv'
      /\ Len(messages') = Len(messages) /\ DOMAIN messages' = DOMAIN messages
      /\ \A k \in DOMAIN messages : messages'[k] = IF k = m THEN next ELSE messages[k]
  BY <1>1, <1>2, <1>3, <1>4, OneChanges
<1>6. SeenInv' /\ LookupsStay
  BY <1>1, <1>3, <1>4, <1>5 DEF Inv, SeenInv, LookedUp, TriedBefore, LookupsStay
<1>. QED  BY <1>1, <1>5, <1>6 DEF Inv, registry

-----------------------------------------------------------------------------
(* The theorems *)

LEMMA Initially == Init => Inv
<1>. SUFFICES ASSUME Init PROVE Inv
  OBVIOUS
<1>1. waiting = {} /\ messages = <<>> /\ seen = <<>>
  BY DEF Init, Buffer!Init
<1>. QED  BY <1>1 DEF Init, Inv, MessagesInv, QueueInv, SeenInv

\* Whatever comes, and how, but for telemetry that the queue takes.
Comes(msg) ==
    /\ Arrives(msg) /\ UNCHANGED queue
    /\ Good(msg) /\ msg.at = 1 /\ msg.state # "waiting"
    /\ msg.via = "telemetry" => msg.state = "rejected" /\ msg.values \in {0, 1}

Arrival ==
    \/ \E n \in Sizes : TelemetryAfterClose(AsOne(n)) \/ Results(n)
    \/ Request \/ ArgoMeasure \/ AmqpMessage

LEMMA ArrivalComes ==
    ASSUME Arrival
    PROVE  \E msg : Comes(msg)
<1>. USE MessagesAssumption DEF Comes
<1>2. <<DefaultKey>> \in Seq(AnyKey \cup {None}) /\ <<None>> \in Seq(AnyKey \cup {None})
  BY DEF AnyKey
<1>3. CASE \E n \in Sizes : TelemetryAfterClose(AsOne(n))
  <2>1. PICK n \in {0, 1} : TelemetryAfterClose(n)
    BY <1>3 DEF AsOne
  <2>. DEFINE msg == New("telemetry", <<DefaultKey>>, n, "rejected")
  <2>2. "telemetry" \in AllVias /\ n \in Nat
    BY DEF AllVias
  <2>3. Good(msg) /\ msg.at = 1 /\ msg.state = "rejected" /\ msg.values = n
    BY <2>2, KeylessIsGood
  <2>4. Arrives(msg) /\ UNCHANGED queue
    BY <2>1 DEF TelemetryAfterClose
  <2>. HIDE DEF msg
  <2>. QED  BY <2>3, <2>4
<1>4. CASE \E n \in Sizes : Results(n)
  <2>1. PICK n \in Nat : Arrives(New("results", <<DefaultKey>>, n, "lookup")) /\ UNCHANGED queue
    BY <1>4 DEF Results
  <2>. DEFINE msg == New("results", <<DefaultKey>>, n, "lookup")
  <2>2. "results" \in AllVias
    BY DEF AllVias
  <2>3. Good(msg) /\ msg.at = 1 /\ msg.state = "lookup" /\ msg.via = "results"
    BY <2>2, KeylessIsGood
  <2>. HIDE DEF msg
  <2>. QED  BY <2>1, <2>3 DEF msg
<1>5. CASE Request
  <2>1. PICK msg \in HttpMessages : Arrives(msg) /\ UNCHANGED queue
    BY <1>5 DEF Request
  <2>2. PICK via \in Vias \cap {"measure", "commands"}, k \in Sizes,
             req \in [key : AnyKey \cup {None}, id : BOOLEAN, post : BOOLEAN, type : BOOLEAN, getCmd : BOOLEAN,
                      payload : {"none", "json", "malformed"}] : msg = HttpMessage(via, req, k)
    BY <2>1 DEF HttpMessages
  <2>3. via \in {"measure", "commands"} /\ via \in AllVias
    BY DEF AllVias
  <2>4. \E keys \in Seq(AnyKey \cup {None}), size \in Nat, state \in {"lookup", "failed"} :
            msg = New(via, keys, size, state)
    <3>1. <<req.key>> \in Seq(AnyKey \cup {None})
      OBVIOUS
    <3>. QED  BY <1>2, <2>2, <3>1 DEF HttpMessage, HttpValues
  <2>. QED  BY <2>1, <2>3, <2>4, NewIsGood
<1>6. CASE ArgoMeasure
  <2>1. PICK msg \in ArgoMessages : Arrives(msg) /\ UNCHANGED queue
    BY <1>6 DEF ArgoMeasure
  <2>2. PICK argo \in [key : AnyKey, hashed : Keys, hash : BOOLEAN, field : BOOLEAN], k \in Sizes :
             msg = ArgoMessage(argo, k)
    BY <2>1 DEF ArgoMessages
  <2>3. KeyList(argo) \in Seq(AnyKey \cup {None})
    <3>1. argo.key \in AnyKey /\ argo.hashed \in AnyKey
      BY DEF AnyKey
    <3>2. <<argo.key>> \in Seq(AnyKey) /\ <<argo.hashed, argo.key>> \in Seq(AnyKey) /\ <<>> \in Seq(AnyKey)
      BY <3>1
    <3>3. KeyList(argo) \in Seq(AnyKey)
      BY <3>2 DEF KeyList
    <3>. QED  BY <3>3
  <2>4. msg = New("argo", <<None>>, 0, "failed") \/ msg = New("argo", KeyList(argo), AsOne(k), "lookup")
    BY <2>2 DEF ArgoMessage
  <2>5. Good(msg) /\ msg.at = 1 /\ msg.state # "waiting" /\ msg.via = "argo"
    <3>1. "argo" \in AllVias
      BY DEF AllVias
    <3>2. CASE msg = New("argo", <<None>>, 0, "failed")
      <4>. DEFINE keys == <<None>>
      <4>. HIDE DEF keys
      <4>1. keys \in Seq(AnyKey \cup {None}) /\ msg = New("argo", keys, 0, "failed")
        BY <1>2, <3>2 DEF keys
      <4>. QED  BY <3>1, <4>1, NewIsGood
    <3>3. CASE msg = New("argo", KeyList(argo), AsOne(k), "lookup")
      <4>. DEFINE keys == KeyList(argo)
      <4>. HIDE DEF keys
      <4>1. keys \in Seq(AnyKey \cup {None}) /\ msg = New("argo", keys, AsOne(k), "lookup")
        BY <2>3, <3>3 DEF keys
      <4>2. AsOne(k) \in Nat
        BY DEF AsOne
      <4>. QED  BY <3>1, <4>1, <4>2, NewIsGood
    <3>. QED  BY <2>4, <3>2, <3>3
  <2>. QED  BY <2>1, <2>5
<1>7. CASE AmqpMessage
  <2>1. PICK state \in {"lookup", "rejected"} :
            Arrives(New("amqp", <<DefaultKey>>, 1, state)) /\ UNCHANGED queue
    BY <1>7 DEF AmqpMessage
  <2>. DEFINE msg == New("amqp", <<DefaultKey>>, 1, state)
  <2>2. "amqp" \in AllVias
    BY DEF AllVias
  <2>3. Good(msg) /\ msg.at = 1 /\ msg.state # "waiting" /\ msg.via = "amqp"
    BY <2>2, KeylessIsGood
  <2>. HIDE DEF msg
  <2>. QED  BY <2>1, <2>3 DEF msg
<1>. QED  BY <1>3, <1>4, <1>5, <1>6, <1>7 DEF Arrival

LEMMA OperatorKeeps ==
    ASSUME Inv, NEW k \in Keys, Operator(k)
    PROVE  Inv' /\ LookupsStay
<1>1. /\ UNCHANGED <<messages, waiting>> /\ changes' = changes + 1 /\ records' \subseteq Keys
      /\ seen' = Witnessed(records', {})
  BY DEF Operator, queue, Inv
<1>2. seen' = [m \in DOMAIN messages |-> IF LookedUp(m) THEN seen[m] \cup {records'} ELSE {}]
  BY <1>1 DEF Witnessed
<1>3. seen' \in [DOMAIN messages -> SUBSET SUBSET Keys]
  BY <1>1, <1>2 DEF Inv, SeenInv
<1>4. seen' \in Seq(SUBSET SUBSET Keys) /\ Len(seen') = Len(messages')
  BY <1>1, <1>3, SameLength DEF Inv, MessagesInv
<1>5. \A m \in DOMAIN messages : LookedUp(m) => TriedBefore(messages[m], seen'[m])
  BY <1>2, Monotone DEF Inv, SeenInv, TriedBefore
<1>. QED  BY <1>1, <1>4, <1>5 DEF Inv, MessagesInv, QueueInv, SeenInv, LookedUp, LookupsStay

LEMMA Step ==
    ASSUME Inv, [Next]_vars
    PROVE  Inv' /\ (LookupsStay \/ \E m \in DOMAIN messages : LookupAnswered(m))
<1>1. CASE \E n \in Sizes : Telemetry(AsOne(n))
  <2>1. PICK n \in Nat : Telemetry(n)
    BY <1>1 DEF AsOne
  <2>. QED  BY <2>1, TelemetryKeeps
<1>2. CASE Arrival
  BY <1>2, ArrivalComes, ArrivalKeeps DEF Comes
<1>3. CASE Serve
  BY <1>3, ServeKeeps
<1>4. CASE ShutdownTimeout
  BY <1>4, ShutdownTimeoutKeeps
<1>5. CASE Close \/ (\E m \in late : StoredLate(m)) \/ UNCHANGED vars
  <2>1. UNCHANGED <<records, changes, messages, waiting, seen>>
    BY <1>5 DEF Close, StoredLate, vars, registry, queue, Buffer!Shut
  <2>. QED  BY <2>1 DEF Inv, MessagesInv, QueueInv, SeenInv, LookedUp, LookupsStay
<1>6. CASE \E k \in Keys : Operator(k)
  BY <1>6, OperatorKeeps
<1>7. CASE \E m \in DOMAIN messages : LookupAnswered(m)
  BY <1>7, LookupKeeps
<1>8. CASE \E m \in DOMAIN messages : \E v \in messages[m].pending : UpdateAnswered(m, v)
  BY <1>8, UpdateKeeps
<1>. QED  BY <1>1, <1>2, <1>3, <1>4, <1>5, <1>6, <1>7, <1>8 DEF Next, Arrival

LEMMA Invariance == Spec => []Inv
<1>1. Inv /\ [Next]_vars => Inv'
  BY Step
<1>. QED  BY Initially, <1>1, PTL DEF Spec

\* Whatever is lost, refused or answered late: a message that is answered without
\* an error has all its values stored.
THEOREM AnswersHonest == Spec => []OkMeansStored
<1>1. Inv => OkMeansStored
  BY DEF Inv, MessagesInv, Good, Progress, OkMeansStored
<1>. QED  BY Invariance, <1>1, PTL

\* A device that a message is sent for, or the lack of one that it is ignored for,
\* is what the registry held at one moment of its lookup.
THEOREM LookupCorrect == Spec => LookupWasTrue
<1>. DEFINE True(m) == LookedUp(m) => WasTrue(messages'[m], seen[m] \cup {records'})
<1>1. ASSUME Inv, [Next]_vars
      PROVE  [\A m \in DOMAIN messages : True(m)]_vars
  <2>1. ASSUME NEW m \in DOMAIN messages, LookedUp(m), messages'[m] = messages[m]
        PROVE  WasTrue(messages'[m], seen[m] \cup {records'})
    <3>1. messages[m].device = None /\ messages[m].state = "lookup"
      BY <1>1, <2>1 DEF Inv, MessagesInv, Good, Keyed, LookedUp
    <3>. QED  BY <1>1, <2>1, <3>1, Monotone DEF WasTrue, Inv, SeenInv, TriedBefore
  <2>2. CASE LookupsStay
    BY <2>1, <2>2 DEF LookupsStay
  <2>3. ASSUME NEW k \in DOMAIN messages, LookupAnswered(k), NEW m \in DOMAIN messages
        PROVE  True(m)
    BY <1>1, <2>1, <2>3, LookupKeeps
  <2>. QED  BY <1>1, <2>2, <2>3, Step
<1>. QED  BY Invariance, <1>1, PTL DEF Spec, LookupWasTrue

\* Telemetry, results and AMQP messages never provision a device: a record appears
\* by the operator's doing, or by a request that names the key of its group.
THEOREM NobodyElseProvisions == Spec => OnlyKeysProvision
<1>. DEFINE Caused(k) == changes' > changes \/ \E m \in DOMAIN messages : LookedUp(m) /\ k \in {messages[m].keys[messages[m].at]}
<1>1. ASSUME Inv, [Next]_vars
      PROVE  [\A k \in records' \ records : Caused(k)]_vars
  <2>1. CASE \E k \in Keys : Operator(k)
    BY <1>1, <2>1 DEF Operator, Inv
  <2>2. CASE \E m \in DOMAIN messages : LookupAnswered(m)
    BY <2>2 DEF LookupAnswered, Retrieve, GlobalLookup, GroupLookup, LookedUp
  <2>3. CASE UNCHANGED records
    BY <2>3
  <2>4. (\E k \in Keys : Operator(k)) \/ (\E m \in DOMAIN messages : LookupAnswered(m)) \/ UNCHANGED records
    BY <1>1 DEF Next, vars, registry, Telemetry, TelemetryAfterClose, Results, Request, ArgoMeasure, AmqpMessage,
                Arrives, Serve, Close, ShutdownTimeout, UpdateAnswered, StoredLate
  <2>. QED  BY <2>1, <2>2, <2>3, <2>4
<1>. QED  BY Invariance, <1>1, PTL DEF Spec, OnlyKeysProvision

-----------------------------------------------------------------------------
(* The order of the telemetry.  One message at a time is in the worker's   *)
(* hands; it is newer than what is stored, or may be stored late, and older *)
(* than what waits.                                                        *)

OneInHand ==
    /\ \A e, f \in waiting : e = f
    /\ \A e, f \in serving : e = f
    /\ \A f \in serving : f.key = "attribute" /\ f.item \in DOMAIN messages

InOrder ==
    /\ 0 \notin late
    /\ \A e \in waiting : \A f \in serving : f.item < e.item
    /\ \A m \in {latest} \cup late :
          /\ m \in Nat /\ m <= Len(messages)
          /\ \A e \in waiting : m < e.item
          /\ \A f \in serving : m <= f.item

\* Of one telemetry message.
Held(m) ==
    LET msg == messages[m]
    IN  msg.via = "telemetry" =>
            /\ msg.values \in {0, 1}
            /\ msg.state \in {"lookup", "updating"} => \E f \in serving : f.item = m
            /\ msg.state = "failed" => msg.pending = {}

OrderInv == Inv /\ OneInHand /\ InOrder /\ \A m \in DOMAIN messages : Held(m)

LEMMA ArrivalOrdered ==
    ASSUME OrderInv, Inv', NEW msg, Good(msg), Arrives(msg), UNCHANGED queue,
           msg.via = "telemetry" => msg.state = "rejected" /\ msg.values \in {0, 1}
    PROVE  OrderInv'
<1>1. /\ Len(messages') = Len(messages) + 1 /\ DOMAIN messages' = DOMAIN messages \cup {Next1}
      /\ \A m \in DOMAIN messages : messages'[m] = messages[m]
      /\ messages'[Next1] = msg /\ UNCHANGED <<waiting, serving, latest, late>>
  BY DEF Arrives, OrderInv, Inv, MessagesInv, Next1, queue
<1>2. OneInHand' /\ InOrder'
  BY <1>1 DEF OrderInv, OneInHand, InOrder, Inv, MessagesInv
<1>3. \A m \in DOMAIN messages' : Held(m)'
  BY <1>1 DEF OrderInv, Held
<1>. QED  BY <1>2, <1>3 DEF OrderInv

LEMMA TelemetryOrdered ==
    ASSUME OrderInv, Inv', NEW n \in {0, 1}, Telemetry(n)
    PROVE  OrderInv'
<1>. DEFINE msg == New("telemetry", <<DefaultKey>>, n, "waiting")
            dropped == [m \in DOMAIN messages |-> Dropped(messages[m])]
<1>1. /\ dropped \in Seq(MessageTypes) /\ Len(dropped) = Len(messages)
      /\ \A m \in DOMAIN messages :
            dropped[m] \in {messages[m], [messages[m] EXCEPT !.state = "dropped"]}
  BY DropKeeps DEF OrderInv, Dropped
<1>2. /\ messages' = Append(dropped, msg) /\ UNCHANGED <<serving, latest, late>>
      /\ \A e \in waiting' : e = [key |-> "attribute", item |-> Next1]
  BY DEF Telemetry, OrderInv, Inv, QueueInv, Buffer!Put
<1>3. msg \in MessageTypes
  <2>1. "telemetry" \in AllVias /\ n \in Nat
    BY DEF AllVias
  <2>2. Good(msg)
    BY <2>1, KeylessIsGood
  <2>. QED  BY <2>2 DEF Good
<1>. HIDE DEF dropped
<1>4. /\ Len(messages') = Len(messages) + 1 /\ DOMAIN messages' = DOMAIN messages \cup {Next1}
      /\ \A m \in DOMAIN messages : messages'[m] = dropped[m]
      /\ messages'[Next1] = msg
  <2>. HIDE DEF msg
  <2>. QED  BY <1>1, <1>2, <1>3 DEF OrderInv, Inv, MessagesInv, Next1
<1>5. OneInHand'
  BY <1>2, <1>4 DEF OrderInv, OneInHand
<1>6. InOrder'
  <2>1. /\ Len(messages) \in Nat /\ Next1 = Len(messages) + 1
        /\ \A f \in serving : f.item \in Nat /\ f.item <= Len(messages)
    BY DEF OrderInv, OneInHand, Inv, MessagesInv, Next1
  <2>2. /\ 0 \notin late
        /\ \A m \in {latest} \cup late : m \in Nat /\ m <= Len(messages) /\ \A f \in serving : m <= f.item
    BY DEF OrderInv, InOrder
  <2>3. \A e \in waiting' : e.item = Len(messages) + 1
    BY <1>2, <2>1
  <2>. QED  BY <1>2, <1>4, <2>1, <2>2, <2>3 DEF InOrder
<1>7. ASSUME NEW m \in DOMAIN messages', messages'[m] = msg PROVE Held(m)'
  BY <1>7 DEF Held, New
<1>8. ASSUME NEW m \in DOMAIN messages PROVE Held(m)'
  <2>1. messages[m] \in MessageTypes /\ Held(m)
    BY DEF OrderInv, Inv, MessagesInv, Good
  <2>2. CASE messages'[m] = messages[m]
    BY <1>2, <2>1, <2>2 DEF Held
  <2>3. CASE messages'[m] = [messages[m] EXCEPT !.state = "dropped"]
    <3>1. messages'[m].via = messages[m].via /\ messages'[m].values = messages[m].values /\ messages'[m].state = "dropped"
      BY <2>1, <2>3 DEF MessageTypes
    <3>. QED  BY <2>1, <3>1 DEF Held
  <2>. QED  BY <1>1, <1>4, <2>2, <2>3
<1>. HIDE DEF msg
<1>9. \A m \in DOMAIN messages' : m \in DOMAIN messages \/ messages'[m] = msg
  BY <1>4
<1>. QED  BY <1>5, <1>6, <1>7, <1>8, <1>9 DEF OrderInv

LEMMA ShutdownOrdered ==
    ASSUME OrderInv, Inv', ShutdownTimeout
    PROVE  OrderInv'
<1>1. /\ waiting' = {} /\ UNCHANGED <<serving, latest, late>>
      /\ messages' = [m \in DOMAIN messages |-> Dropped(messages[m])]
  BY DEF ShutdownTimeout, Buffer!Discard
<1>2. Len(messages') = Len(messages) /\ DOMAIN messages' = DOMAIN messages
  BY <1>1, DropKeeps DEF OrderInv
<1>3. ASSUME NEW m \in DOMAIN messages PROVE Held(m)'
  <2>1. messages[m] \in MessageTypes /\ Held(m) /\ messages'[m] = Dropped(messages[m])
    BY <1>1 DEF OrderInv, Inv, MessagesInv, Good
  <2>. QED  BY <1>1, <2>1 DEF Held, MessageTypes, Dropped
<1>. QED  BY <1>1, <1>2, <1>3 DEF OrderInv, OneInHand, InOrder

LEMMA ServeOrdered ==
    ASSUME OrderInv, Inv', Serve
    PROVE  OrderInv'
<1>1. PICK e \in waiting : Buffer!Serve(e) /\ messages' = [messages EXCEPT ![e.item].state = "lookup"]
                           /\ UNCHANGED <<latest, late>>
  BY DEF Serve
<1>2. serving = {}
  <2>1. ASSUME NEW f \in serving PROVE FALSE
    <3>1. f.key = "attribute" /\ e.key = "attribute"
      BY DEF OrderInv, OneInHand, Inv, QueueInv
    <3>2. Buffer!MayServe(e)
      BY <1>1 DEF Buffer!Serve
    <3>. QED  BY <3>1, <3>2 DEF Buffer!MayServe
  <2>. QED  BY <2>1
<1>3. serving' = {e} /\ waiting' = {}
  BY <1>1, <1>2 DEF Buffer!Serve, OrderInv, OneInHand
<1>4. /\ e.item \in DOMAIN messages /\ messages[e.item] \in MessageTypes
      /\ Len(messages') = Len(messages) /\ DOMAIN messages' = DOMAIN messages
      /\ \A m \in DOMAIN messages :
            messages'[m] = IF m = e.item THEN [messages[m] EXCEPT !.state = "lookup"] ELSE messages[m]
  BY <1>1 DEF OrderInv, Inv, MessagesInv, QueueInv, Good
<1>5. OneInHand'
  BY <1>3, <1>4 DEF OneInHand, OrderInv, Inv, QueueInv
<1>6. InOrder'
  <2>1. e.item \in Nat /\ \A m \in {latest} \cup late : m < e.item /\ m \in Nat /\ m <= Len(messages)
    BY DEF OrderInv, InOrder, Inv, QueueInv
  <2>. QED  BY <1>1, <1>3, <1>4, <2>1 DEF OrderInv, InOrder
<1>7. ASSUME NEW m \in DOMAIN messages PROVE Held(m)'
  <2>1. CASE m = e.item
    BY <1>3, <1>4, <2>1 DEF OrderInv, Held, MessageTypes
  <2>2. CASE m # e.item
    BY <1>2, <1>4, <2>2 DEF OrderInv, Held
  <2>. QED  BY <2>1, <2>2
<1>. QED  BY <1>4, <1>5, <1>6, <1>7 DEF OrderInv

\* The worker lets go of a message when it is over, and not before.
LEMMA AnswerOrdered ==
    ASSUME OrderInv, Inv', NEW m \in DOMAIN messages, NEW msg, Good(msg), msg.state # "waiting",
           messages[m].state # "waiting", messages' = [messages EXCEPT ![m] = msg], WorkerTold,
           msg.via = messages[m].via, msg.values = messages[m].values,
           msg.via = "telemetry" => (msg.state = "failed" => msg.pending = {}),
           msg.via = "telemetry" /\ msg.state \in {"lookup", "updating"} => \E f \in serving : f.item = m,
           \A k \in late' : k \in late \/ (k = m /\ \E f \in serving : f.item = m),
           latest' = latest \/ (latest' = m /\ \E f \in serving : f.item = m)
    PROVE  OrderInv' /\ latest' >= latest
<1>1. /\ Len(messages') = Len(messages) /\ DOMAIN messages' = DOMAIN messages
      /\ \A k \in DOMAIN messages : messages'[k] = IF k = m THEN msg ELSE messages[k]
  BY OneChanges DEF OrderInv
<1>2. /\ waiting' = waiting /\ serving' \subseteq serving
      /\ \A f \in serving : f \in serving' \/ messages'[f.item].state \in Final
  <2>1. CASE \E e \in serving : messages'[e.item].state \in Final
    <3>1. PICK e \in serving : Buffer!Finish(e)
      BY <2>1 DEF WorkerTold
    <3>. QED  BY <2>1, <3>1 DEF Buffer!Finish, OrderInv, OneInHand
  <2>2. CASE ~\E e \in serving : messages'[e.item].state \in Final
    BY <2>2 DEF WorkerTold, queue
  <2>. QED  BY <2>1, <2>2
<1>3. OneInHand'
  BY <1>1, <1>2 DEF OrderInv, OneInHand
<1>4. InOrder' /\ latest' >= latest
  <2>1. messages \in Seq(MessageTypes) /\ m \in Nat /\ m <= Len(messages)
    BY DEF OrderInv, Inv, MessagesInv
  <2>2. ASSUME \E f \in serving : f.item = m
        PROVE  /\ \A f \in serving : f.item = m
               /\ \A e \in waiting : m < e.item
               /\ latest <= m
    BY <2>2 DEF OrderInv, OneInHand, InOrder
  <2>3. latest \in Nat
    BY DEF OrderInv, InOrder
  <2>4. latest' >= latest
    BY <2>1, <2>2, <2>3
  <2>5. ASSUME NEW k \in {latest'} \cup late'
        PROVE  /\ k \in Nat /\ k <= Len(messages)
               /\ \A e \in waiting : k < e.item
               /\ \A f \in serving : k <= f.item
    <3>1. CASE k \in {latest} \cup late
      BY <3>1 DEF OrderInv, InOrder
    <3>2. CASE k = m /\ \E f \in serving : f.item = m
      BY <2>1, <2>2, <3>2
    <3>. QED  BY <3>1, <3>2
  <2>6. 0 \notin late'
    <3>1. m # 0 /\ 0 \notin late
      BY <2>1 DEF OrderInv, InOrder, Inv, MessagesInv
    <3>. QED  BY <3>1
  <2>. QED  BY <1>1, <1>2, <2>4, <2>5, <2>6 DEF OrderInv, InOrder
<1>5. ASSUME NEW k \in DOMAIN messages PROVE Held(k)'
  <2>1. Held(k)
    BY DEF OrderInv
  <2>2. messages'[k].via = "telemetry" /\ messages'[k].state \in {"lookup", "updating"} => \E f \in serving : f.item = k
    BY <1>1, <2>1 DEF Held
  <2>3. messages'[k].via = "telemetry" /\ messages'[k].state \in {"lookup", "updating"} => \E f \in serving' : f.item = k
    BY <1>2, <2>2 DEF Final
  <2>. QED  BY <1>1, <2>1, <2>3 DEF Held
<1>. QED  BY <1>1, <1>3, <1>4, <1>5 DEF OrderInv

LEMMA LookupOrdered ==
    ASSUME OrderInv, Inv', NEW m \in DOMAIN messages, LookupAnswered(m)
    PROVE  OrderInv' /\ latest' >= latest
<1>1. PICK result \in Keys \cup {"unknown", "ambiguous", "error"} :
         /\ messages[m].state = "lookup" /\ WorkerTold /\ UNCHANGED <<latest, late>>
         /\ messages' = [messages EXCEPT ![m] = Proceed(messages[m], result)]
  BY DEF LookupAnswered
<1>. DEFINE next == Proceed(messages[m], result)
<1>2. /\ Good(next) /\ next.state # "waiting"
      /\ next.via = messages[m].via /\ next.values = messages[m].values
      /\ next.state = "failed" => next.pending = {}
  BY <1>1, ProceedIsGood DEF OrderInv, Inv, MessagesInv
<1>3. next.via = "telemetry" => \E f \in serving : f.item = m
  BY <1>1, <1>2 DEF OrderInv, Held
<1>. HIDE DEF next
<1>4. messages' = [messages EXCEPT ![m] = next]
  BY <1>1 DEF next
<1>5. /\ next.via = "telemetry" => (next.state = "failed" => next.pending = {})
      /\ next.via = "telemetry" /\ next.state \in {"lookup", "updating"} => \E f \in serving : f.item = m
      /\ messages[m].state # "waiting"
  BY <1>1, <1>2, <1>3
<1>. QED  BY <1>1, <1>2, <1>4, <1>5, AnswerOrdered

LEMMA UpdateOrdered ==
    ASSUME OrderInv, Inv', NEW m \in DOMAIN messages, NEW v \in messages[m].pending, UpdateAnswered(m, v)
    PROVE  OrderInv' /\ latest' >= latest
<1>1. PICK stored \in BOOLEAN, error \in BOOLEAN :
         /\ stored \/ error
         /\ messages' = [messages EXCEPT
                ![m] = Answered(IF stored THEN Stored(messages[m], v) ELSE messages[m], v, error)]
         /\ latest' = IF stored /\ messages[m].via = "telemetry" THEN m ELSE latest
         /\ late' = IF ~stored /\ messages[m].via = "telemetry" THEN late \cup {m} ELSE late
         /\ WorkerTold
  BY DEF UpdateAnswered
<1>. DEFINE now == IF stored THEN Stored(messages[m], v) ELSE messages[m]
            next == Answered(now, v, error)
<1>2. Good(messages[m]) /\ Held(m)
  BY DEF OrderInv, Inv, MessagesInv
<1>3. messages[m].state \in {"updating", "failed"}
  BY <1>2 DEF Good, Progress, MessageTypes, States, Final
<1>4. /\ Good(next) /\ next.state \notin {"waiting", "lookup"}
      /\ next.via = messages[m].via /\ next.values = messages[m].values
      /\ ~InSeries(messages[m]) => next.pending = messages[m].pending \ {v}
  BY <1>1, <1>2, AnsweredIsGood
<1>. HIDE DEF next
<1>5. messages' = [messages EXCEPT ![m] = next]
  BY <1>1 DEF next
<1>6. ASSUME messages[m].via = "telemetry"
      PROVE  /\ \E f \in serving : f.item = m
             /\ next.pending = {}
  <2>1. messages[m].state = "updating" /\ ~InSeries(messages[m])
    BY <1>2, <1>3, <1>6 DEF Held, InSeries
  <2>2. messages[m].pending \subseteq {1}
    <3>1. messages[m].pending \subseteq 1 .. messages[m].values /\ messages[m].values \in {0, 1}
      BY <1>2, <1>6, <2>1 DEF Good, Progress, Held
    <3>. QED  BY <3>1
  <2>. QED  BY <1>2, <1>4, <1>6, <2>1, <2>2 DEF Held
<1>7. messages[m].state # "waiting" /\ next.state # "waiting"
  BY <1>3, <1>4
<1>8. /\ latest' = latest \/ (latest' = m /\ \E f \in serving : f.item = m)
      /\ \A k \in late' : k \in late \/ (k = m /\ \E f \in serving : f.item = m)
  <2>1. CASE messages[m].via = "telemetry"
    BY <1>1, <1>6, <2>1
  <2>2. CASE messages[m].via # "telemetry"
    BY <1>1, <2>2
  <2>. QED  BY <2>1, <2>2
<1>9. /\ next.via = "telemetry" => (next.state = "failed" => next.pending = {})
      /\ next.via = "telemetry" /\ next.state \in {"lookup", "updating"} => \E f \in serving : f.item = m
  BY <1>4, <1>6
<1>. QED  BY <1>1, <1>4, <1>5, <1>7, <1>8, <1>9, AnswerOrdered

LEMMA OrderKept ==
    ASSUME OrderInv, [Next]_vars
    PROVE  OrderInv' /\ (latest' >= latest \/ latest' \in late)
<1>1. Inv'
  BY Step DEF OrderInv
<1>2. latest \in Nat
  BY DEF OrderInv, InOrder
<1>3. CASE \E n \in Sizes : Telemetry(AsOne(n))
  <2>1. PICK n \in {0, 1} : Telemetry(n)
    BY <1>3 DEF AsOne
  <2>. QED  BY <1>1, <1>2, <2>1, TelemetryOrdered DEF Telemetry
<1>4. CASE Arrival
  <2>1. PICK msg : Comes(msg)
    BY <1>4, ArrivalComes
  <2>2. Good(msg) /\ Arrives(msg) /\ UNCHANGED queue /\ latest' = latest
        /\ (msg.via = "telemetry" => msg.state = "rejected" /\ msg.values \in {0, 1})
    BY <2>1 DEF Comes, Arrives
  <2>3. OrderInv'
    BY <1>1, <2>2, ArrivalOrdered
  <2>. QED  BY <1>2, <2>2, <2>3
<1>5. CASE Serve
  <2>1. latest' = latest
    BY <1>5 DEF Serve
  <2>. QED  BY <1>1, <1>2, <1>5, <2>1, ServeOrdered
<1>6. CASE ShutdownTimeout
  BY <1>1, <1>2, <1>6, ShutdownOrdered DEF ShutdownTimeout
<1>7. CASE Close \/ (\E k \in Keys : Operator(k)) \/ UNCHANGED vars
  <2>1. UNCHANGED <<messages, waiting, serving, latest, late>>
    BY <1>7 DEF Close, Operator, vars, queue, Buffer!Shut
  <2>. QED  BY <1>1, <1>2, <2>1 DEF OrderInv, OneInHand, InOrder, Held
<1>8. CASE \E m \in DOMAIN messages : LookupAnswered(m)
  BY <1>1, <1>8, LookupOrdered
<1>9. CASE \E m \in DOMAIN messages : \E v \in messages[m].pending : UpdateAnswered(m, v)
  BY <1>1, <1>9, UpdateOrdered
<1>10. ASSUME NEW m \in late, StoredLate(m) PROVE OrderInv' /\ latest' \in late
  <2>1. /\ UNCHANGED <<messages, waiting, serving>> /\ latest' = m
        /\ \A k \in {latest'} \cup late' : k \in late
    BY <1>10 DEF StoredLate, queue
  <2>. QED  BY <1>1, <2>1 DEF OrderInv, OneInHand, InOrder, Held
<1>. QED  BY <1>3, <1>4, <1>5, <1>6, <1>7, <1>8, <1>9, <1>10 DEF Next, Arrival

\* lib/README.md: "updates for one machine are processed in order": the Context
\* Broker never gets an older telemetry value after a newer one, whatever fails,
\* but for a value whose update was answered with an error before it was stored.
THEOREM StoredInOrder == Spec => TelemetryInOrder
<1>1. Init => OrderInv
  <2>1. ASSUME Init
        PROVE  waiting = {} /\ serving = {} /\ latest = 0 /\ late = {} /\ messages = <<>>
    BY <2>1 DEF Init, Buffer!Init
  <2>. QED  BY <2>1, Initially DEF OrderInv, OneInHand, InOrder
<1>2. OrderInv /\ [Next]_vars => OrderInv'
  BY OrderKept
<1>3. OrderInv /\ [Next]_vars => [latest' >= latest \/ latest' \in late]_vars
  BY OrderKept
<1>. QED  BY <1>1, <1>2, <1>3, PTL DEF Spec, TelemetryInOrder

-----------------------------------------------------------------------------
(* The types and the bounds: what a message carries fits its numbers.      *)

Fits(msg) ==
    /\ msg.via \in Vias /\ msg.at \in DOMAIN msg.keys
    /\ msg.values \in Sizes \cup {0, 1}
    /\ msg.pending \subseteq 1 .. msg.values /\ msg.stored \subseteq 1 .. msg.values

AllFit == Len(messages) <= MaxMessages /\ \A m \in DOMAIN messages : Fits(messages[m])

InHand == [key : {"attribute"}, item : Nat]

TypeInv ==
    /\ OrderInv /\ AllFit
    /\ serving \subseteq InHand /\ open \in BOOLEAN
    /\ changes <= MaxChanges

LEMMA NewFits ==
    ASSUME NEW via \in Vias, NEW keys \in Seq(AnyKey \cup {None}), Len(keys) > 0,
           NEW n \in Sizes \cup {0, 1}, NEW state
    PROVE  Fits(New(via, keys, n, state))
<1>1. 1 \in DOMAIN keys
  OBVIOUS
<1>. QED  BY <1>1 DEF New, Fits

\* All that comes is new, and within the bounds.
ComesNew ==
    \E via \in Vias, keys \in Seq(AnyKey \cup {None}), n \in Sizes \cup {0, 1},
       state \in {"lookup", "rejected", "failed"} :
        Len(keys) > 0 /\ Arrives(New(via, keys, n, state)) /\ UNCHANGED queue

LEMMA ArrivalIsNew ==
    ASSUME Arrival
    PROVE  ComesNew
<1>. USE MessagesAssumption
<1>1. \A k \in AnyKey \cup {None} : <<k>> \in Seq(AnyKey \cup {None}) /\ Len(<<k>>) > 0
  OBVIOUS
<1>2. DefaultKey \in AnyKey \cup {None}
  BY DEF AnyKey
<1>3. \A n \in Sizes : AsOne(n) \in Sizes \cup {0, 1}
  BY DEF AsOne
<1>. DEFINE keyless == <<DefaultKey>>
<1>4. keyless \in Seq(AnyKey \cup {None}) /\ Len(keyless) > 0
  BY <1>1, <1>2
<1>. HIDE DEF keyless
<1>5. CASE \E n \in Sizes : TelemetryAfterClose(AsOne(n))
  <2>1. PICK n \in Sizes \cup {0, 1} : TelemetryAfterClose(n)
    BY <1>3, <1>5
  <2>2. "telemetry" \in Vias /\ Arrives(New("telemetry", keyless, n, "rejected")) /\ UNCHANGED queue
    BY <2>1 DEF TelemetryAfterClose, keyless
  <2>. QED  BY <1>2, <1>4, <2>2 DEF ComesNew
<1>6. CASE \E n \in Sizes : Results(n)
  <2>1. PICK n \in Sizes : "results" \in Vias /\ Arrives(New("results", keyless, n, "lookup")) /\ UNCHANGED queue
    BY <1>6 DEF Results, keyless
  <2>. QED  BY <1>2, <1>4, <2>1 DEF ComesNew
<1>7. CASE Request
  <2>1. PICK via \in Vias \cap {"measure", "commands"}, k \in Sizes,
             req \in [key : AnyKey \cup {None}, id : BOOLEAN, post : BOOLEAN, type : BOOLEAN, getCmd : BOOLEAN,
                      payload : {"none", "json", "malformed"}] :
             Arrives(HttpMessage(via, req, k)) /\ UNCHANGED queue
    BY <1>7 DEF Request, HttpMessages
  <2>2. req.key \in AnyKey \cup {None}
    OBVIOUS
  <2>3. CASE ~Complete(req)
    <3>. DEFINE keys == <<None>>
    <3>1. keys \in Seq(AnyKey \cup {None}) /\ Len(keys) > 0
      OBVIOUS
    <3>2. Arrives(New(via, keys, 0, "failed"))
      BY <2>1, <2>3 DEF HttpMessage
    <3>. HIDE DEF keys
    <3>. QED  BY <1>2, <2>1, <3>1, <3>2 DEF ComesNew
  <2>4. CASE Complete(req)
    <3>. DEFINE keys == <<req.key>>
                n == HttpValues(via, req, k)
    <3>1. keys \in Seq(AnyKey \cup {None}) /\ Len(keys) > 0
      BY <2>2
    <3>2. Arrives(New(via, keys, n, "lookup"))
      BY <2>1, <2>4 DEF HttpMessage
    <3>3. n \in Sizes \cup {0, 1}
      BY DEF HttpValues
    <3>. HIDE DEF keys, n
    <3>. QED  BY <1>2, <2>1, <3>1, <3>2, <3>3 DEF ComesNew
  <2>. QED  BY <2>3, <2>4
<1>8. CASE ArgoMeasure
  <2>1. PICK argo \in [key : AnyKey, hashed : Keys, hash : BOOLEAN, field : BOOLEAN], k \in Sizes :
             "argo" \in Vias /\ Arrives(ArgoMessage(argo, k)) /\ UNCHANGED queue
    BY <1>8 DEF ArgoMeasure, ArgoMessages
  <2>2. CASE KeyList(argo) = <<>>
    <3>. DEFINE keys == <<None>>
    <3>1. keys \in Seq(AnyKey \cup {None}) /\ Len(keys) > 0
      OBVIOUS
    <3>2. Arrives(New("argo", keys, 0, "failed"))
      BY <2>1, <2>2 DEF ArgoMessage
    <3>. HIDE DEF keys
    <3>. QED  BY <1>2, <2>1, <3>1, <3>2 DEF ComesNew
  <2>3. CASE KeyList(argo) # <<>>
    <3>1. argo.key \in AnyKey /\ argo.hashed \in AnyKey
      BY DEF AnyKey
    <3>2. KeyList(argo) \in {<<argo.key>>, <<argo.hashed, argo.key>>}
      BY <2>3 DEF KeyList
    <3>3. KeyList(argo) \in Seq(AnyKey \cup {None}) /\ Len(KeyList(argo)) > 0
      <4>1. <<argo.key>> \in Seq(AnyKey \cup {None}) /\ Len(<<argo.key>>) > 0
        BY <1>1, <3>1
      <4>2. \A a, b \in AnyKey \cup {None} : <<a, b>> \in Seq(AnyKey \cup {None}) /\ Len(<<a, b>>) > 0
        OBVIOUS
      <4>3. LET both == <<argo.hashed, argo.key>>
            IN  both \in Seq(AnyKey \cup {None}) /\ Len(both) > 0
        BY <3>1, <4>2, Zenon
      <4>4. KeyList(argo) = <<argo.key>> \/ KeyList(argo) = <<argo.hashed, argo.key>>
        BY <3>2, Zenon
      <4>. QED  BY <4>1, <4>3, <4>4, Zenon
    <3>4. Arrives(New("argo", KeyList(argo), AsOne(k), "lookup"))
      BY <2>1, <2>3 DEF ArgoMessage
    <3>. QED  BY <1>2, <1>3, <2>1, <3>3, <3>4 DEF ComesNew
  <2>. QED  BY <2>2, <2>3
<1>9. CASE AmqpMessage
  <2>1. PICK state \in {"lookup", "rejected"} :
             "amqp" \in Vias /\ Arrives(New("amqp", keyless, 1, state)) /\ UNCHANGED queue
    BY <1>9 DEF AmqpMessage, keyless
  <2>. QED  BY <1>2, <1>4, <2>1 DEF ComesNew
<1>. QED  BY <1>5, <1>6, <1>7, <1>8, <1>9 DEF Arrival

\* Another state, another key.
LEMMA StateFits ==
    ASSUME NEW msg, msg \in MessageTypes, Fits(msg), NEW state
    PROVE  Fits([msg EXCEPT !.state = state])
BY DEF Fits, MessageTypes

LEMMA ProceedFits ==
    ASSUME NEW msg, Good(msg), msg.state = "lookup", Fits(msg),
           NEW result \in Keys \cup {"unknown", "ambiguous", "error"}
    PROVE  Fits(Proceed(msg, result))
<1>. DEFINE next == Proceed(msg, result)
<1>1. msg \in MessageTypes
  BY DEF Good
<1>2. CASE result \in Keys
  <2>. DEFINE pending == IF InSeries(msg) /\ msg.values > 0 THEN {1} ELSE 1 .. msg.values
              state == IF msg.values = 0 THEN "ok" ELSE "updating"
  <2>1. next = [msg EXCEPT !.device = result, !.pending = pending, !.state = state]
    BY <1>1, <1>2, MessagesAssumption DEF Proceed, Send, InSeries, MessageTypes
  <2>2. pending \subseteq 1 .. msg.values
    BY <1>1 DEF MessageTypes
  <2>. HIDE DEF next, pending, state
  <2>. QED  BY <1>1, <2>1, <2>2 DEF Fits, MessageTypes, next
<1>3. CASE result = "unknown" /\ msg.via = "argo" /\ msg.at < Len(msg.keys)
  <2>1. next = [msg EXCEPT !.at = msg.at + 1]
    BY <1>3, MessagesAssumption DEF Proceed
  <2>2. msg.at + 1 \in DOMAIN msg.keys
    BY <1>1, <1>3 DEF MessageTypes
  <2>. HIDE DEF next
  <2>. QED  BY <1>1, <2>1, <2>2 DEF Fits, MessageTypes, next
<1>4. CASE next = [msg EXCEPT !.state = "ignored"] \/ next = [msg EXCEPT !.state = "failed"]
  BY <1>1, <1>4, StateFits
<1>. QED  BY <1>2, <1>3, <1>4 DEF Proceed

LEMMA AnsweredFits ==
    ASSUME NEW msg, msg \in MessageTypes, Fits(msg), NEW v \in msg.pending,
           NEW stored \in BOOLEAN, NEW error \in BOOLEAN
    PROVE  Fits(Answered(IF stored THEN Stored(msg, v) ELSE msg, v, error))
<1>. DEFINE now == IF stored THEN Stored(msg, v) ELSE msg
            rest == IF InSeries(now) /\ ~error /\ v < now.values THEN {v + 1} ELSE now.pending \ {v}
            state == CASE now.state = "updating" /\ error -> "failed"
                      [] now.state = "updating" /\ ~error /\ rest = {} -> "ok"
                      [] OTHER -> now.state
<1>1. v \in 1 .. msg.values /\ msg.values \in Nat
  BY DEF Fits, MessageTypes
<1>2. now \in MessageTypes /\ Fits(now) /\ now.values = msg.values
  BY <1>1 DEF Fits, MessageTypes, Stored
<1>. HIDE DEF now
<1>3. rest \subseteq 1 .. now.values
  BY <1>1, <1>2 DEF Fits
<1>4. Answered(now, v, error) = [now EXCEPT !.pending = rest, !.state = state]
  BY <1>2 DEF Answered, InSeries, MessageTypes
<1>. HIDE DEF rest, state
<1>5. Fits(Answered(now, v, error))
  BY <1>2, <1>3, <1>4 DEF Fits, MessageTypes
<1>. QED  BY <1>5 DEF now

\* One message changes.
LEMMA OneFits ==
    ASSUME Inv, AllFit, NEW m \in DOMAIN messages, NEW msg, Fits(msg),
           messages' = [messages EXCEPT ![m] = msg]
    PROVE  AllFit'
BY DEF Inv, MessagesInv, AllFit

LEMMA FitsKept ==
    ASSUME OrderInv, AllFit, [Next]_vars
    PROVE  AllFit'
<1>. USE DEF OrderInv, Inv, MessagesInv
<1>0. MaxMessages \in Nat /\ \A n \in Sizes : AsOne(n) \in Sizes \cup {0, 1}
  BY MessagesAssumption DEF AsOne
<1>1. \A m \in DOMAIN messages : Dropped(messages[m]) \in MessageTypes /\ Fits(Dropped(messages[m]))
  <2>1. ASSUME NEW m \in DOMAIN messages
        PROVE  Dropped(messages[m]) \in MessageTypes /\ Fits(Dropped(messages[m]))
    <3>1. Good(messages[m]) /\ Fits(messages[m])
      BY DEF AllFit
    <3>2. Dropped(messages[m]) \in MessageTypes
      BY <3>1, DroppedIsGood DEF Good
    <3>. QED  BY <3>1, <3>2, StateFits DEF Good, Dropped
  <2>. QED  BY <2>1
<1>2. LET dropped == [m \in DOMAIN messages |-> Dropped(messages[m])]
      IN  dropped \in Seq(MessageTypes) /\ Len(dropped) = Len(messages)
          /\ \A m \in DOMAIN messages : Fits(dropped[m])
  BY <1>1, DropKeeps
<1>3. CASE \E n \in Sizes : Telemetry(AsOne(n))
  <2>1. PICK n \in Sizes \cup {0, 1} : Telemetry(n)
    BY <1>0, <1>3
  <2>. DEFINE dropped == [m \in DOMAIN messages |-> Dropped(messages[m])]
              keys == <<DefaultKey>>
              msg == New("telemetry", keys, n, "waiting")
  <2>2. Len(messages) < MaxMessages /\ messages' = Append(dropped, msg) /\ "telemetry" \in Vias
    BY <2>1 DEF Telemetry
  <2>3. keys \in Seq(AnyKey \cup {None}) /\ Len(keys) > 0
    BY DEF AnyKey
  <2>4. Fits(msg)
    <3>. HIDE DEF keys
    <3>. QED  BY <2>2, <2>3, NewFits
  <2>5. dropped \in Seq(MessageTypes) /\ Len(dropped) = Len(messages) /\ \A m \in DOMAIN messages : Fits(dropped[m])
    BY <1>2
  <2>. HIDE DEF dropped, msg
  <2>6. /\ Len(messages') = Len(messages) + 1
        /\ \A m \in DOMAIN messages' : (m \in DOMAIN messages /\ messages'[m] = dropped[m]) \/ messages'[m] = msg
    BY <2>2, <2>5
  <2>. QED  BY <1>0, <2>2, <2>4, <2>5, <2>6 DEF AllFit
<1>4. CASE Arrival
  <2>1. PICK msg : Fits(msg) /\ Arrives(msg)
    BY <1>4, ArrivalIsNew, NewFits DEF ComesNew
  <2>2. /\ Len(messages) < MaxMessages /\ Len(messages') = Len(messages) + 1
        /\ \A m \in DOMAIN messages' : (m \in DOMAIN messages /\ messages'[m] = messages[m]) \/ messages'[m] = msg
    BY <2>1 DEF Arrives
  <2>. QED  BY <1>0, <2>1, <2>2 DEF AllFit
<1>5. CASE Serve
  <2>1. PICK e \in waiting : messages' = [messages EXCEPT ![e.item].state = "lookup"]
    BY <1>5 DEF Serve
  <2>2. e.item \in DOMAIN messages
    BY DEF QueueInv
  <2>3. Fits([messages[e.item] EXCEPT !.state = "lookup"])
    BY <2>2, StateFits DEF AllFit, Good
  <2>. QED  BY <2>1, <2>2, <2>3, OneFits
<1>6. CASE ShutdownTimeout
  <2>1. messages' = [m \in DOMAIN messages |-> Dropped(messages[m])]
    BY <1>6 DEF ShutdownTimeout
  <2>. QED  BY <1>2, <2>1 DEF AllFit
<1>7. CASE \E m \in DOMAIN messages : LookupAnswered(m)
  <2>1. PICK m \in DOMAIN messages, result \in Keys \cup {"unknown", "ambiguous", "error"} :
           messages[m].state = "lookup" /\ messages' = [messages EXCEPT ![m] = Proceed(messages[m], result)]
    BY <1>7 DEF LookupAnswered
  <2>2. Fits(Proceed(messages[m], result))
    BY <2>1, ProceedFits DEF AllFit
  <2>. QED  BY <2>1, <2>2, OneFits
<1>8. CASE \E m \in DOMAIN messages : \E v \in messages[m].pending : UpdateAnswered(m, v)
  <2>0. PICK m \in DOMAIN messages : \E v \in messages[m].pending : UpdateAnswered(m, v)
    BY <1>8
  <2>1. PICK v \in messages[m].pending, stored \in BOOLEAN, error \in BOOLEAN :
           messages' = [messages EXCEPT
               ![m] = Answered(IF stored THEN Stored(messages[m], v) ELSE messages[m], v, error)]
    BY <2>0 DEF UpdateAnswered
  <2>2. Fits(Answered(IF stored THEN Stored(messages[m], v) ELSE messages[m], v, error))
    BY AnsweredFits DEF AllFit
  <2>. QED  BY <2>1, <2>2, OneFits
<1>9. CASE Close \/ (\E k \in Keys : Operator(k)) \/ (\E m \in late : StoredLate(m)) \/ UNCHANGED vars
  <2>1. UNCHANGED messages
    BY <1>9 DEF Close, Operator, StoredLate, vars
  <2>. QED  BY <2>1 DEF AllFit
<1>. QED  BY <1>3, <1>4, <1>5, <1>6, <1>7, <1>8, <1>9 DEF Next, Arrival

\* The worker has in hand what it took from the queue.
LEMMA HandKept ==
    ASSUME OrderInv, serving \subseteq InHand, open \in BOOLEAN, changes <= MaxChanges, [Next]_vars
    PROVE  serving' \subseteq InHand /\ open' \in BOOLEAN /\ changes' <= MaxChanges
<1>1. CASE Serve
  BY <1>1 DEF Serve, Buffer!Serve, registry, OrderInv, Inv, QueueInv, InHand
<1>2. CASE \E k \in Keys : Operator(k)
  BY <1>2, MessagesAssumption DEF Operator, queue, OrderInv, Inv
<1>3. CASE Close
  BY <1>3 DEF Close, Buffer!Shut, registry
<1>4. CASE \/ \E m \in DOMAIN messages : LookupAnswered(m)
           \/ \E m \in DOMAIN messages : \E v \in messages[m].pending : UpdateAnswered(m, v)
  <2>1. WorkerTold /\ UNCHANGED changes
    BY <1>4 DEF LookupAnswered, UpdateAnswered, registry
  <2>. QED  BY <2>1 DEF WorkerTold, queue, Buffer!Finish
<1>5. CASE Arrival
  BY <1>5 DEF Arrival, TelemetryAfterClose, Results, Request, ArgoMeasure, AmqpMessage, Arrives, queue, registry
<1>6. CASE (\E n \in Sizes : Telemetry(AsOne(n))) \/ ShutdownTimeout \/ (\E m \in late : StoredLate(m)) \/ UNCHANGED vars
  BY <1>6 DEF Telemetry, StoredLate, Buffer!Put, ShutdownTimeout, Buffer!Discard, registry, vars, queue
<1>. QED  BY <1>1, <1>2, <1>3, <1>4, <1>5, <1>6 DEF Next, Arrival

\* Type correctness: whatever comes, an update concerns one of the message's
\* values, a lookup one of its keys, and the queue and its worker hold messages
\* that came.
THEOREM TypesHold == Spec => []TypeOK
<1>1. Init => TypeInv
  <2>1. ASSUME Init
        PROVE  waiting = {} /\ serving = {} /\ open = TRUE /\ latest = 0 /\ late = {} /\ messages = <<>> /\ changes = 0
    BY <2>1 DEF Init, Buffer!Init
  <2>2. Init => OrderInv
    BY <2>1, Initially DEF OrderInv, OneInHand, InOrder
  <2>. QED  BY <2>1, <2>2, MessagesAssumption DEF TypeInv, AllFit
<1>2. TypeInv /\ [Next]_vars => TypeInv'
  BY OrderKept, FitsKept, HandKept DEF TypeInv
<1>3. TypeInv => TypeOK
  <2>. SUFFICES ASSUME TypeInv PROVE TypeOK
    OBVIOUS
  <2>. USE DEF TypeInv, OrderInv, Inv
  <2>1. Len(messages) \in Nat /\ DOMAIN messages = 1 .. Len(messages) /\ MaxMessages \in Nat
        /\ Len(messages) <= MaxMessages
    BY MessagesAssumption DEF MessagesInv, AllFit
  <2>2. DOMAIN messages \subseteq Ids
    BY <2>1 DEF Ids
  <2>3. ASSUME NEW m \in DOMAIN messages
        PROVE  LET msg == messages[m] IN
                 /\ msg.via \in Vias /\ msg.keys \in Seq(AnyKey \cup {None}) /\ msg.at \in DOMAIN msg.keys
                 /\ msg.values \in Sizes \cup {0, 1}
                 /\ msg.state \in {"waiting", "lookup", "updating"} \cup Final
                 /\ msg.device \in Keys \cup {None}
                 /\ msg.pending \cup msg.stored \subseteq 1 .. msg.values
    <3>1. messages[m] \in MessageTypes /\ Fits(messages[m])
      BY DEF MessagesInv, Good, AllFit
    <3>. QED  BY <3>1 DEF MessageTypes, Fits, States
  <2>4. waiting \cup serving \subseteq [key : {"attribute"}, item : Ids]
    BY <2>2 DEF QueueInv, OneInHand, InHand
  <2>5. latest \in 0 .. MaxMessages /\ late \subseteq Ids
    <3>1. 0 \notin late /\ \A m \in {latest} \cup late : m \in Nat /\ m <= Len(messages)
      BY DEF InOrder
    <3>2. ASSUME NEW m \in late PROVE m \in 1 .. MaxMessages
      BY <2>1, <3>1
    <3>3. latest \in 0 .. MaxMessages
      BY <2>1, <3>1
    <3>. QED  BY <3>2, <3>3 DEF Ids
  <2>6. seen \in [DOMAIN messages -> SUBSET SUBSET Keys]
    BY DEF SeenInv, MessagesInv
  <2>7. changes \in 0 .. MaxChanges
    BY MessagesAssumption
  <2>. QED  BY <2>1, <2>3, <2>4, <2>5, <2>6, <2>7 DEF TypeOK
<1>. QED  BY <1>1, <1>2, <1>3, PTL DEF Spec

-----------------------------------------------------------------------------
(* What EveryMessageAnswered needs at every moment: a message that is not  *)
(* over has something that will take it further, and the worker has no     *)
(* message in hand that is over.                                           *)

Tended(m) ==
    /\ messages[m].state = "waiting" => \E e \in waiting : e.item = m
    /\ messages[m].state = "updating" => messages[m].pending # {}

WorkerBusy == \A f \in serving : messages[f.item].state \in {"lookup", "updating"}

NobodyForgotten == (\A m \in DOMAIN messages : Tended(m)) /\ WorkerBusy

\* What comes takes nothing from the others.
LEMMA ArrivalTended ==
    ASSUME OrderInv, NobodyForgotten, Arrival
    PROVE  NobodyForgotten'
<1>1. PICK msg : msg.state \notin {"waiting", "updating"} /\ Arrives(msg) /\ UNCHANGED queue
  BY ArrivalIsNew DEF ComesNew, New
<1>2. /\ \A m \in DOMAIN messages' : (m \in DOMAIN messages /\ messages'[m] = messages[m]) \/ messages'[m] = msg
      /\ \A m \in DOMAIN messages : messages'[m] = messages[m]
      /\ UNCHANGED <<waiting, serving>>
  BY <1>1 DEF Arrives, queue, OrderInv, Inv, MessagesInv
<1>3. WorkerBusy'
  BY <1>2 DEF NobodyForgotten, WorkerBusy, OrderInv, OneInHand
<1>. QED  BY <1>1, <1>2, <1>3 DEF NobodyForgotten, Tended

\* Dropping leaves nobody waiting.
LEMMA DropTended ==
    ASSUME OrderInv, NobodyForgotten, NEW m \in DOMAIN messages
    PROVE  LET msg == Dropped(messages[m])
           IN  /\ msg.state # "waiting"
               /\ msg.state = "updating" => msg.pending # {}
               /\ messages[m].state \in {"lookup", "updating"} => msg = messages[m]
BY DroppedIsGood DEF NobodyForgotten, Tended, Dropped, OrderInv, Inv, MessagesInv

LEMMA TelemetryTended ==
    ASSUME OrderInv, NobodyForgotten, NEW n \in Nat, Telemetry(n)
    PROVE  NobodyForgotten'
<1>. DEFINE msg == New("telemetry", <<DefaultKey>>, n, "waiting")
            dropped == [m \in DOMAIN messages |-> Dropped(messages[m])]
<1>1. /\ messages' = Append(dropped, msg) /\ UNCHANGED serving
      /\ [key |-> "attribute", item |-> Next1] \in waiting'
  BY DEF Telemetry, Buffer!Put
<1>2. dropped \in Seq(MessageTypes) /\ Len(dropped) = Len(messages)
  BY DropKeeps DEF OrderInv
<1>3. msg.state = "waiting"
  BY DEF New
<1>4. \A m \in DOMAIN messages : dropped[m] = Dropped(messages[m])
  OBVIOUS
<1>. HIDE DEF dropped, msg
<1>5. /\ \A m \in DOMAIN messages : messages'[m] = dropped[m]
      /\ messages'[Next1] = msg /\ DOMAIN messages' = DOMAIN messages \cup {Next1}
  BY <1>1, <1>2 DEF OrderInv, Inv, MessagesInv, Next1
<1>6. \A m \in DOMAIN messages' : Tended(m)'
  BY <1>1, <1>3, <1>4, <1>5, DropTended DEF Tended
<1>7. WorkerBusy'
  BY <1>1, <1>4, <1>5, DropTended DEF WorkerBusy, NobodyForgotten, OrderInv, OneInHand
<1>. QED  BY <1>6, <1>7 DEF NobodyForgotten

LEMMA ShutdownTended ==
    ASSUME OrderInv, NobodyForgotten, ShutdownTimeout
    PROVE  NobodyForgotten'
<1>1. messages' = [m \in DOMAIN messages |-> Dropped(messages[m])] /\ UNCHANGED serving
  BY DEF ShutdownTimeout, Buffer!Discard
<1>2. \A m \in DOMAIN messages' : Tended(m)'
  BY <1>1, DropTended DEF Tended
<1>3. WorkerBusy'
  BY <1>1, DropTended DEF WorkerBusy, NobodyForgotten, OrderInv, OneInHand
<1>. QED  BY <1>2, <1>3 DEF NobodyForgotten

LEMMA ServeTended ==
    ASSUME OrderInv, NobodyForgotten, Serve
    PROVE  NobodyForgotten'
<1>1. PICK e \in waiting : Buffer!Serve(e) /\ messages' = [messages EXCEPT ![e.item].state = "lookup"]
  BY DEF Serve
<1>2. waiting' = waiting \ {e} /\ serving' = serving \cup {e}
  BY <1>1 DEF Buffer!Serve
<1>3. /\ e.item \in DOMAIN messages /\ messages[e.item] \in MessageTypes
      /\ DOMAIN messages' = DOMAIN messages
      /\ \A m \in DOMAIN messages : m # e.item => messages'[m] = messages[m]
      /\ messages'[e.item] = [messages[e.item] EXCEPT !.state = "lookup"]
  BY <1>1 DEF OrderInv, Inv, MessagesInv, QueueInv, Good
<1>4. messages'[e.item].state = "lookup"
  BY <1>3 DEF MessageTypes
<1>5. ASSUME NEW m \in DOMAIN messages PROVE Tended(m)'
  BY <1>2, <1>3, <1>4 DEF Tended, NobodyForgotten
<1>6. WorkerBusy'
  BY <1>2, <1>3, <1>4 DEF WorkerBusy, NobodyForgotten, OrderInv, OneInHand
<1>. QED  BY <1>3, <1>5, <1>6 DEF NobodyForgotten

\* The worker lets go of a message as soon as it is over.
LEMMA OneTended ==
    ASSUME OrderInv, NobodyForgotten, NEW m \in DOMAIN messages,
           NEW msg, Good(msg), msg.state # "waiting", msg.state = "updating" => msg.pending # {},
           messages[m].state # "waiting", messages' = [messages EXCEPT ![m] = msg], WorkerTold
    PROVE  NobodyForgotten'
<1>1. /\ DOMAIN messages' = DOMAIN messages
      /\ \A k \in DOMAIN messages : messages'[k] = IF k = m THEN msg ELSE messages[k]
  BY OneChanges DEF OrderInv
<1>2. /\ waiting' = waiting /\ serving' \subseteq serving
      /\ \A f \in serving' : messages'[f.item].state \notin Final
  <2>1. CASE \E e \in serving : messages'[e.item].state \in Final
    <3>1. PICK e \in serving : Buffer!Finish(e)
      BY <2>1 DEF WorkerTold
    <3>. QED  BY <3>1 DEF Buffer!Finish, OrderInv, OneInHand
  <2>2. CASE ~\E e \in serving : messages'[e.item].state \in Final
    BY <2>2 DEF WorkerTold, queue
  <2>. QED  BY <2>1, <2>2
<1>3. \A k \in DOMAIN messages' : Tended(k)'
  BY <1>1, <1>2 DEF Tended, NobodyForgotten
<1>4. ASSUME NEW f \in serving' PROVE messages'[f.item].state \in {"lookup", "updating"}
  <2>1. f \in serving /\ f.item \in DOMAIN messages /\ messages'[f.item].state \notin Final
    BY <1>2 DEF OrderInv, OneInHand
  <2>2. CASE f.item = m
    BY <1>1, <2>1, <2>2 DEF Good, MessageTypes, States
  <2>3. CASE f.item # m
    BY <1>1, <2>1, <2>3 DEF NobodyForgotten, WorkerBusy
  <2>. QED  BY <2>2, <2>3
<1>. QED  BY <1>3, <1>4 DEF NobodyForgotten, WorkerBusy

\* What is sent is sent: there is an answer to wait for.
LEMMA ProceedSends ==
    ASSUME NEW msg, Good(msg), msg.state = "lookup",
           NEW result \in Keys \cup {"unknown", "ambiguous", "error"}
    PROVE  LET next == Proceed(msg, result)
           IN  next.state = "updating" => next.pending # {}
<1>. USE MessagesAssumption
<1>. DEFINE next == Proceed(msg, result)
<1>1. msg \in MessageTypes
  BY DEF Good
<1>2. CASE result \in Keys
  <2>. DEFINE pending == IF InSeries(msg) /\ msg.values > 0 THEN {1} ELSE 1 .. msg.values
              state == IF msg.values = 0 THEN "ok" ELSE "updating"
  <2>1. next = [msg EXCEPT !.device = result, !.pending = pending, !.state = state]
    BY <1>1, <1>2 DEF Proceed, Send, InSeries, MessageTypes
  <2>2. state = "updating" => 1 \in pending
    BY <1>1 DEF MessageTypes
  <2>. HIDE DEF next, pending, state
  <2>3. next.state = state /\ next.pending = pending
    BY <1>1, <2>1 DEF MessageTypes
  <2>. QED  BY <2>2, <2>3 DEF next
<1>3. CASE next \in {[msg EXCEPT !.state = "ignored"], [msg EXCEPT !.state = "failed"], [msg EXCEPT !.at = msg.at + 1]}
  BY <1>1, <1>3 DEF MessageTypes
<1>. QED  BY <1>2, <1>3 DEF Proceed

LEMMA AnsweredGoesOn ==
    ASSUME NEW msg, Good(msg), NEW v \in msg.pending, NEW stored \in BOOLEAN, NEW error \in BOOLEAN
    PROVE  LET next == Answered(IF stored THEN Stored(msg, v) ELSE msg, v, error)
           IN  next.state = "updating" => next.pending # {}
<1>. DEFINE now == IF stored THEN Stored(msg, v) ELSE msg
            rest == IF InSeries(now) /\ ~error /\ v < now.values THEN {v + 1} ELSE now.pending \ {v}
            state == CASE now.state = "updating" /\ error -> "failed"
                      [] now.state = "updating" /\ ~error /\ rest = {} -> "ok"
                      [] OTHER -> now.state
            next == Answered(now, v, error)
<1>1. now \in MessageTypes
  BY DEF Good, MessageTypes, Stored
<1>. HIDE DEF now
<1>2. next = [now EXCEPT !.pending = rest, !.state = state]
  BY <1>1 DEF Answered, InSeries, MessageTypes
<1>3. state = "updating" => rest # {}
  OBVIOUS
<1>. HIDE DEF rest, state, next
<1>4. next.state = state /\ next.pending = rest
  BY <1>1, <1>2 DEF MessageTypes
<1>. QED  BY <1>3, <1>4 DEF next, now

LEMMA LookupTended ==
    ASSUME OrderInv, NobodyForgotten, NEW m \in DOMAIN messages, LookupAnswered(m)
    PROVE  NobodyForgotten'
<1>1. PICK result \in Keys \cup {"unknown", "ambiguous", "error"} :
         /\ messages[m].state = "lookup" /\ WorkerTold
         /\ messages' = [messages EXCEPT ![m] = Proceed(messages[m], result)]
  BY DEF LookupAnswered
<1>. DEFINE next == Proceed(messages[m], result)
<1>2. Good(messages[m])
  BY DEF OrderInv, Inv, MessagesInv
<1>3. Good(next) /\ next.state # "waiting"
  BY <1>1, <1>2, ProceedIsGood
<1>4. next.state = "updating" => next.pending # {}
  BY <1>1, <1>2, ProceedSends
<1>. HIDE DEF next
<1>5. messages' = [messages EXCEPT ![m] = next] /\ messages[m].state # "waiting"
  BY <1>1 DEF next
<1>. QED  BY <1>1, <1>3, <1>4, <1>5, OneTended

LEMMA UpdateTended ==
    ASSUME OrderInv, NobodyForgotten, NEW m \in DOMAIN messages, NEW v \in messages[m].pending, UpdateAnswered(m, v)
    PROVE  NobodyForgotten'
<1>1. PICK stored \in BOOLEAN, error \in BOOLEAN :
         /\ stored \/ error
         /\ messages' = [messages EXCEPT
                ![m] = Answered(IF stored THEN Stored(messages[m], v) ELSE messages[m], v, error)]
         /\ WorkerTold
  BY DEF UpdateAnswered
<1>. DEFINE now == IF stored THEN Stored(messages[m], v) ELSE messages[m]
            next == Answered(now, v, error)
<1>2. Good(messages[m])
  BY DEF OrderInv, Inv, MessagesInv
<1>3. messages[m].state # "waiting"
  BY <1>2 DEF Good, Progress
<1>4. Good(next) /\ next.state # "waiting"
  BY <1>1, <1>2, AnsweredIsGood
<1>5. next.state = "updating" => next.pending # {}
  BY <1>2, AnsweredGoesOn
<1>. HIDE DEF next
<1>6. messages' = [messages EXCEPT ![m] = next]
  BY <1>1 DEF next
<1>. QED  BY <1>1, <1>3, <1>4, <1>5, <1>6, OneTended

LEMMA TendedKept ==
    ASSUME OrderInv, NobodyForgotten, [Next]_vars
    PROVE  NobodyForgotten'
<1>1. CASE \E n \in Sizes : Telemetry(AsOne(n))
  <2>1. PICK n \in Nat : Telemetry(n)
    BY <1>1 DEF AsOne
  <2>. QED  BY <2>1, TelemetryTended
<1>2. CASE Close \/ (\E k \in Keys : Operator(k)) \/ (\E m \in late : StoredLate(m)) \/ UNCHANGED vars
  <2>1. UNCHANGED <<messages, waiting, serving>>
    BY <1>2 DEF Close, Operator, StoredLate, vars, queue, Buffer!Shut
  <2>. QED  BY <2>1 DEF NobodyForgotten, Tended, WorkerBusy
<1>3. CASE \E m \in DOMAIN messages : LookupAnswered(m)
  BY <1>3, LookupTended
<1>4. CASE \E m \in DOMAIN messages : \E v \in messages[m].pending : UpdateAnswered(m, v)
  BY <1>4, UpdateTended
<1>. QED  BY <1>1, <1>2, <1>3, <1>4, ArrivalTended, ServeTended, ShutdownTended DEF Next, Arrival

\* The safety half of EveryMessageAnswered, for any number of messages: no message
\* is forgotten.  What waits is in the queue, what is being updated waits for an
\* answer, and the machine's worker is free or busy with a message that is not over.
THEOREM NobodyIsForgotten == Spec => []NobodyForgotten
<1>1. Init => OrderInv /\ NobodyForgotten
  <2>1. ASSUME Init
        PROVE  waiting = {} /\ serving = {} /\ latest = 0 /\ late = {} /\ messages = <<>>
    BY <2>1 DEF Init, Buffer!Init
  <2>. QED  BY <2>1, Initially DEF OrderInv, OneInHand, InOrder, NobodyForgotten, WorkerBusy
<1>2. OrderInv /\ NobodyForgotten /\ [Next]_vars => OrderInv' /\ NobodyForgotten'
  BY OrderKept, TendedKept
<1>. QED  BY <1>1, <1>2, PTL DEF Spec

=============================================================================
