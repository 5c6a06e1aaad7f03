--------------------------- MODULE CommandsProofs ---------------------------
(***************************************************************************)
(* Proofs about Commands, for any transports and names, any number of      *)
(* requests and of polls: what becomes OK has a cause; the commands of a   *)
(* batch are sent in order, none of them after one that has failed; and a  *)
(* command that a poll has delivered leaves the queue.                     *)
(***************************************************************************)
EXTENDS Commands, SequenceTheorems, FiniteSetTheorems, TLAPS

\* The steps of Next, one disjunct for each action that the proofs go through.
LEMMA NextActions ==
    ASSUME [Next]_vars
    PROVE  \/ \E n \in Names : Issue(<<n>>)
           \/ \E m, n \in Names : m # n /\ Issue(<<m, n>>)
           \/ \E s \in series : Post(s) \/ PostAnswered(s) \/ PostFailed(s) \/ Publish(s) \/ PublishAmqp(s)
           \/ LinkChanges
           \/ \E r \in sent : DeviceExecutes(r)
           \/ \E m \in inbox : ResultReceived(m)
           \/ \E u \in updates : UpdateAnswered(u)
           \/ \E p \in 1 .. Polls : PollList(p)
           \/ \E p \in 1 .. Polls : PollReply(p)
           \/ \E p \in 1 .. Polls : \E r \in Requests : CommandRemoved(p, r)
           \/ UNCHANGED vars
BY DEF Next, PollStep

-----------------------------------------------------------------------------
(* OkHasACause: a cause, once there, stays; and whatever may turn into the *)
(* status OK, a message or an update in progress, has one already.         *)

Cause == IF transport = "MQTT" THEN sent ELSE executed

Caused ==
    /\ executed \subseteq sent
    /\ \A m \in inbox : m.req \in Cause
    /\ \A u \in updates : u.status = "OK" => u.req \in Cause
    /\ status = [n \in Names |-> status[n]]
    /\ \A n \in Names : status[n].status = "OK" => status[n].req \in Cause

LEMMA CausedInit == Init => Caused
BY DEF Init, Caused, Cause

LEMMA CauseStays ==
    ASSUME Caused, transport' = transport, sent \subseteq sent', executed \subseteq executed'
    PROVE  Cause \subseteq Cause'
BY DEF Cause

\* An action that touches neither the status nor the messages and the updates
\* keeps Caused as long as nothing is forgotten.
LEMMA CausedUntouched ==
    ASSUME Caused, UNCHANGED <<transport, executed, inbox, updates, status>>, sent \subseteq sent'
    PROVE  Caused'
BY DEF Caused, Cause

\* A step of the command handler, of a binding or of the library.
LEMMA CausedIssue ==
    ASSUME Caused, NEW names, Issue(names)
    PROVE  Caused'
<1>1. UNCHANGED <<transport, sent, executed, inbox, updates>>
  BY DEF Issue, device
<1>2. /\ status' = [n \in Names |-> status'[n]]
      /\ \A n \in Names : status'[n] = status[n] \/ status'[n].status = "PENDING"
  <2>. DEFINE Asked(n) == {r \in Len(requests) + 1 .. Len(requests) + Len(names) :
                              names[r - Len(requests)] = n}
              last(n) == Max(Asked(n))
              none(n) == Asked(n) = {}
  <2>1. status' = [n \in Names |-> IF none(n) THEN status[n] ELSE [req |-> last(n), status |-> "PENDING"]]
    BY DEF Issue
  <2>. HIDE DEF last, none
  <2>. QED  BY <2>1
<1>. QED  BY <1>1, <1>2 DEF Caused, Cause

LEMMA CausedHandling ==
    ASSUME Caused, NEW s \in series,
           Post(s) \/ PostAnswered(s) \/ PostFailed(s) \/ Publish(s) \/ PublishAmqp(s)
    PROVE  Caused'
<1>1. CASE Post(s)
  BY <1>1, CausedUntouched DEF Post
<1>2. CASE PostAnswered(s)
  BY <1>2 DEF PostAnswered, Completed, Caused, Cause, device
<1>3. CASE PostFailed(s)
  BY <1>3, CausedUntouched DEF PostFailed, device
<1>4. CASE Publish(s)
  BY <1>4 DEF Publish, Caused, Cause
<1>5. CASE PublishAmqp(s)
  BY <1>5, CausedUntouched DEF PublishAmqp
<1>. QED  BY <1>1, <1>2, <1>3, <1>4, <1>5

LEMMA CausedResults ==
    ASSUME Caused,
           \/ \E r \in sent : DeviceExecutes(r)
           \/ \E m \in inbox : ResultReceived(m)
           \/ \E u \in updates : UpdateAnswered(u)
    PROVE  Caused'
<1>1. CASE \E r \in sent : DeviceExecutes(r)
  BY <1>1 DEF DeviceExecutes, Caused, Cause
<1>2. CASE \E m \in inbox : ResultReceived(m)
  BY <1>2 DEF ResultReceived, Completed, Caused, Cause
<1>3. ASSUME NEW u \in updates, UpdateAnswered(u) PROVE Caused'
  <2>1. UNCHANGED <<transport, sent, executed, inbox>> /\ updates' \subseteq updates
    BY <1>3 DEF UpdateAnswered, device
  <2>2. CASE Store(u.req, u.status)
    <3>1. status' = [n \in Names |-> IF n = requests[u.req] THEN [req |-> u.req, status |-> u.status]
                                     ELSE status[n]]
      BY <2>2 DEF Store, Caused
    <3>. QED  BY <2>1, <3>1 DEF Caused, Cause
  <2>3. CASE UNCHANGED status
    BY <2>1, <2>3 DEF Caused, Cause
  <2>. QED  BY <1>3, <2>2, <2>3 DEF UpdateAnswered
<1>. QED  BY <1>1, <1>2, <1>3

LEMMA CausedPolling ==
    ASSUME Caused, NEW p \in 1 .. Polls,
           PollList(p) \/ PollReply(p) \/ \E r \in Requests : CommandRemoved(p, r)
    PROVE  Caused'
<1>1. CASE PollList(p)
  BY <1>1, CausedUntouched DEF PollList, device
<1>2. CASE PollReply(p)
  BY <1>2 DEF PollReply, Delivered, Caused, Cause
<1>3. CASE \E r \in Requests : CommandRemoved(p, r)
  BY <1>3, CausedUntouched DEF CommandRemoved, device
<1>. QED  BY <1>1, <1>2, <1>3

\* Over HTTP and AMQP a command becomes OK only by the device's execution, and
\* over MQTT not without having been published (setCommandResult() callers).
THEOREM OkHasACauseHolds == Spec => []OkHasACause
<1>1. Caused /\ [Next]_vars => Caused'
  <2>. SUFFICES ASSUME Caused, [Next]_vars PROVE Caused'
    OBVIOUS
  <2>1. CASE LinkChanges
    BY <2>1, CausedUntouched DEF LinkChanges, device
  <2>2. CASE UNCHANGED vars
    BY <2>2, CausedUntouched DEF vars, device
  <2>. QED
    BY <2>1, <2>2, NextActions, CausedIssue, CausedHandling, CausedResults, CausedPolling
<1>2. Caused => OkHasACause
  BY DEF Caused, Cause, OkHasACause
<1>. QED  BY CausedInit, <1>1, <1>2, PTL DEF Spec

-----------------------------------------------------------------------------
(* SeriesInOrder: what precedes a command of a series in its batch has     *)
(* either called back without error or is before it in the same series.    *)

Numbers == 1 .. Len(requests)

\* A polling device has its commands delivered, any other in series.
Separate ==
    IF transport = "poll" THEN batches = {} /\ series = {}
    ELSE polls = [p \in 1 .. Polls |-> Idle] /\ sent \subseteq Numbers

Numbered ==
    /\ requests \in Seq(Names)
    /\ \A b \in batches : b \in Seq(Numbers)
    /\ \A s \in series : s.todo \in Seq(Numbers) /\ s.todo # <<>>

Earlier(s, t) == {s.todo[q] : q \in 1 .. t - 1}

Precedes ==
    \A s \in series, b \in batches : \A t \in DOMAIN s.todo, i, j \in DOMAIN b :
        i < j /\ b[j] = s.todo[t] => b[i] \in acked \cup Earlier(s, t)

Ordered == Separate /\ Numbered /\ Precedes /\ SeriesInOrder

LEMMA OrderedInit == Init => Ordered
BY DEF Init, Ordered, Separate, Numbered, Numbers, Precedes, SeriesInOrder

\* Nothing of it is disturbed by what leaves the commands and their series alone.
LEMMA OrderedUntouched ==
    ASSUME Ordered, UNCHANGED <<transport, requests, batches, acked, sent>>, series' \subseteq series,
           transport # "poll" => UNCHANGED polls
    PROVE  Ordered'
BY DEF Ordered, Separate, Numbered, Numbers, Precedes, SeriesInOrder, Earlier

\* The numbers of a new batch are new ones, and its series is the batch.
LEMMA OrderedIssue ==
    ASSUME Ordered, NEW names \in Seq(Names), names # <<>>, Issue(names)
    PROVE  Ordered'
<1>. DEFINE batch == [i \in DOMAIN names |-> Len(requests) + i]
            new == [todo |-> batch, called |-> FALSE]
<1>1. /\ requests' \in Seq(Names) /\ Len(requests) \in Nat
      /\ Len(requests') = Len(requests) + Len(names) /\ Len(names) \in Nat /\ Len(names) # 0
  BY DEF Issue, Ordered, Numbered
<1>2. Numbers \subseteq Numbers' /\ \A k \in Numbers : k \in Nat /\ k <= Len(requests)
  BY <1>1 DEF Numbers
<1>3. UNCHANGED <<transport, acked, sent, polls>>
  <2>1. UNCHANGED <<transport, acked, device, polls>>
    BY DEF Issue
  <2>. QED  BY <2>1 DEF device
<1>4. CASE transport = "poll"
  <2>1. UNCHANGED <<batches, series>>
    BY <1>4 DEF Issue
  <2>. QED  BY <1>1, <1>3, <1>4, <2>1 DEF Ordered, Separate, Numbered, Precedes, SeriesInOrder
<1>5. CASE transport # "poll"
  <2>1. batches' = batches \cup {batch} /\ series' = series \cup {new}
    BY <1>5 DEF Issue
  <2>2. batch \in Seq(Numbers') /\ batch # <<>> /\ DOMAIN batch = 1 .. Len(names)
    <3>1. \A i \in 1 .. Len(names) : Len(requests) + i \in Numbers'
      BY <1>1 DEF Numbers
    <3>2. batch \in [1 .. Len(names) -> Numbers'] /\ DOMAIN batch = 1 .. Len(names)
      BY <3>1
    <3>. QED  BY <1>1, <3>2
  <2>3. Separate' /\ Numbered'
    <3>1. \A x \in Seq(Numbers) : x \in Seq(Numbers')
      BY <1>2
    <3>2. Separate'
      BY <1>2, <1>3, <1>5 DEF Ordered, Separate
    <3>3. \A s \in series' : s \in series \/ s.todo = batch
      BY <2>1
    <3>. HIDE DEF batch, new
    <3>4. Numbered'
      BY <1>1, <2>1, <2>2, <3>1, <3>3 DEF Ordered, Numbered
    <3>. QED  BY <3>2, <3>4
  <2>4. \A i \in DOMAIN batch : batch[i] = Len(requests) + i /\ batch[i] \notin Numbers
    BY <1>1, <2>2 DEF Numbers
  <2>5. /\ \A b \in batches : \A i \in DOMAIN b : b[i] \in Numbers
        /\ \A s \in series : \A t \in DOMAIN s.todo : s.todo[t] \in Numbers
    BY DEF Ordered, Numbered
  <2>6. SeriesInOrder'
    BY <1>3, <1>5, <2>1, <2>4 DEF Ordered, Separate, SeriesInOrder
  <2>7. Precedes'
    <3>. SUFFICES ASSUME NEW s \in series', NEW b \in batches', NEW t \in DOMAIN s.todo,
                         NEW i \in DOMAIN b, NEW j \in DOMAIN b, i < j, b[j] = s.todo[t]
                  PROVE  b[i] \in acked \cup Earlier(s, t)
      BY <1>3 DEF Precedes, Earlier
    <3>1. CASE s = new /\ b = batch
      <4>1. t = j /\ i \in 1 .. t - 1 /\ s.todo[i] = b[i]
        BY <1>1, <2>2, <2>4, <3>1
      <4>. QED  BY <4>1 DEF Earlier
    <3>2. CASE s \in series /\ b \in batches
      BY <3>2 DEF Ordered, Precedes
    <3>3. CASE s = new /\ b \in batches
      BY <2>4, <2>5, <3>3
    <3>4. CASE s \in series /\ b = batch
      BY <2>4, <2>5, <3>4
    <3>. QED  BY <2>1, <3>1, <3>2, <3>3, <3>4
  <2>. QED  BY <2>3, <2>6, <2>7 DEF Ordered
<1>. QED  BY <1>4, <1>5

\* The head of a series has nothing before it but what has called back.
LEMMA HeadIsDue ==
    ASSUME Ordered, NEW s \in series
    PROVE  /\ Head(s.todo) \in Numbers
           /\ \A b \in batches : \A i, j \in DOMAIN b : i < j /\ b[j] = Head(s.todo) => b[i] \in acked
<1>1. 1 \in DOMAIN s.todo /\ Head(s.todo) = s.todo[1] /\ s.todo[1] \in Numbers
  BY DEF Ordered, Numbered
<1>2. Earlier(s, 1) = {}
  BY DEF Earlier
<1>. QED  BY <1>1, <1>2 DEF Ordered, Precedes

\* Sending the head, whether or not it calls back in the same step.
LEMMA OrderedSending ==
    ASSUME Ordered, NEW s \in series, UNCHANGED <<transport, requests, batches, polls>>,
           acked \subseteq acked', sent' \subseteq sent \cup {Head(s.todo)}
    PROVE  Separate' /\ SeriesInOrder'
BY HeadIsDue DEF Ordered, Separate, Numbers, SeriesInOrder

LEMMA OrderedAdvance ==
    ASSUME Ordered, NEW s \in series, Advance(s), UNCHANGED <<requests, batches>>
    PROVE  Numbered' /\ Precedes' /\ acked \subseteq acked'
<1>. DEFINE next == [todo |-> Tail(s.todo), called |-> FALSE]
<1>1. /\ acked' = acked \cup {Head(s.todo)}
      /\ series' \subseteq series \cup {next} /\ (Len(s.todo) = 1 => series' \subseteq series)
  BY DEF Advance
<1>2. s.todo \in Seq(Numbers) /\ s.todo # <<>> /\ Numbers' = Numbers
  BY DEF Ordered, Numbered, Numbers
<1>3. /\ Tail(s.todo) \in Seq(Numbers) /\ Len(s.todo) \in Nat /\ Len(Tail(s.todo)) = Len(s.todo) - 1
      /\ Head(s.todo) = s.todo[1]
      /\ \A t \in DOMAIN Tail(s.todo) : t + 1 \in DOMAIN s.todo /\ Tail(s.todo)[t] = s.todo[t + 1]
  BY <1>2
<1>4. Numbered'
  <2>. SUFFICES ASSUME NEW r \in series' PROVE r.todo \in Seq(Numbers) /\ r.todo # <<>>
    BY <1>2 DEF Ordered, Numbered
  <2>1. CASE r \in series
    BY <2>1 DEF Ordered, Numbered
  <2>2. CASE r = next /\ Len(s.todo) # 1
    <3>1. r.todo = Tail(s.todo)
      BY <2>2
    <3>2. Len(s.todo) # 0
      BY <1>2
    <3>3. Len(Tail(s.todo)) # 0
      BY <1>3, <2>2, <3>2
    <3>4. Tail(s.todo) # <<>>
      <4>1. Len(<<>>) = 0
        OBVIOUS
      <4>. QED  BY <3>3, <4>1, Zenon
    <3>. QED  BY <1>3, <3>1, <3>4
  <2>. QED  BY <1>1, <2>1, <2>2
<1>5. Precedes'
  <2>. SUFFICES ASSUME NEW r \in series', NEW b \in batches, NEW t \in DOMAIN r.todo,
                       NEW i \in DOMAIN b, NEW j \in DOMAIN b, i < j, b[j] = r.todo[t]
                PROVE  b[i] \in acked' \cup Earlier(r, t)
    BY DEF Precedes, Earlier
  <2>1. CASE r \in series
    BY <1>1, <2>1 DEF Ordered, Precedes
  <2>2. CASE r = next
    <3>1. t + 1 \in DOMAIN s.todo /\ b[j] = s.todo[t + 1] /\ t \in 1 .. Len(s.todo) - 1
      BY <1>3, <2>2
    <3>2. b[i] \in acked \cup Earlier(s, t + 1)
      BY <3>1 DEF Ordered, Precedes
    <3>3. ASSUME NEW q \in 1 .. t, b[i] = s.todo[q] PROVE b[i] \in acked' \cup Earlier(r, t)
      <4>1. CASE q = 1
        BY <1>1, <1>3, <3>3, <4>1
      <4>2. CASE q # 1
        <5>1. q - 1 \in 1 .. t - 1 /\ q - 1 \in DOMAIN Tail(s.todo)
          BY <1>3, <3>1, <4>2
        <5>2. r.todo[q - 1] = b[i]
          BY <1>3, <2>2, <3>3, <5>1
        <5>. QED  BY <5>1, <5>2 DEF Earlier
      <4>. QED  BY <4>1, <4>2
    <3>4. b[i] \in acked \/ \E q \in 1 .. t : b[i] = s.todo[q]
      BY <3>1, <3>2 DEF Earlier
    <3>. QED  BY <1>1, <3>3, <3>4
  <2>. QED  BY <1>1, <2>1, <2>2
<1>. QED  BY <1>1, <1>4, <1>5

LEMMA OrderedHandling ==
    ASSUME Ordered, NEW s \in series,
           Post(s) \/ PostAnswered(s) \/ PostFailed(s) \/ Publish(s) \/ PublishAmqp(s)
    PROVE  Ordered'
<1>1. CASE Post(s)
  <2>. DEFINE called == [s EXCEPT !.called = TRUE]
  <2>1. /\ series' \subseteq series \cup {called} /\ sent' = sent \cup {Head(s.todo)}
        /\ UNCHANGED <<transport, requests, batches, polls, acked>>
    BY <1>1 DEF Post, polling
  <2>2. \A r \in series' : \E o \in series : r.todo = o.todo
    <3>1. called.todo = s.todo
      OBVIOUS
    <3>. QED  BY <2>1, <3>1
  <2>. HIDE DEF called
  <2>3. Numbered'
    BY <2>1, <2>2 DEF Ordered, Numbered, Numbers
  <2>4. Precedes'
    <3>. SUFFICES ASSUME NEW r \in series', NEW b \in batches, NEW t \in DOMAIN r.todo,
                         NEW i \in DOMAIN b, NEW j \in DOMAIN b, i < j, b[j] = r.todo[t]
                  PROVE  b[i] \in acked \cup Earlier(r, t)
      BY <2>1 DEF Precedes, Earlier
    <3>1. PICK o \in series : r.todo = o.todo
      BY <2>2
    <3>2. Earlier(r, t) = Earlier(o, t)
      BY <3>1 DEF Earlier
    <3>. QED  BY <3>1, <3>2 DEF Ordered, Precedes
  <2>. QED  BY <2>1, <2>3, <2>4, OrderedSending DEF Ordered
<1>2. CASE PostAnswered(s)
  BY <1>2, OrderedAdvance, OrderedSending DEF PostAnswered, Ordered, device, polling
<1>3. CASE PostFailed(s)
  BY <1>3, OrderedUntouched DEF PostFailed, device, polling
<1>4. CASE Publish(s)
  BY <1>4, OrderedAdvance, OrderedSending DEF Publish, Ordered, polling
<1>5. CASE PublishAmqp(s)
  <2>1. CASE link = "up"
    BY <1>5, <2>1, OrderedAdvance, OrderedSending DEF PublishAmqp, Ordered, polling
  <2>2. CASE link # "up"
    BY <1>5, <2>2, OrderedUntouched DEF PublishAmqp, polling
  <2>. QED  BY <2>1, <2>2
<1>. QED  BY <1>1, <1>2, <1>3, <1>4, <1>5

LEMMA OrderedPolling ==
    ASSUME Ordered, NEW p \in 1 .. Polls,
           PollList(p) \/ PollReply(p) \/ \E r \in Requests : CommandRemoved(p, r)
    PROVE  Ordered'
<1>1. /\ UNCHANGED <<transport, requests, batches, series, acked>> /\ transport = "poll"
  <2>1. CASE PollList(p)
    BY <2>1 DEF PollList, handling
  <2>2. CASE polls[p].step # "idle" /\ UNCHANGED <<transport, requests, batches, handling>>
    <3>1. transport # "poll" => polls[p] = Idle
      BY DEF Ordered, Separate
    <3>. QED  BY <2>2, <3>1 DEF Idle, handling
  <2>. QED  BY <2>1, <2>2 DEF PollReply, CommandRemoved
<1>. QED  BY <1>1 DEF Ordered, Separate, Numbered, Numbers, Precedes, SeriesInOrder, Earlier

\* The commands of one update reach the device one after the other, and none
\* of them after one that has failed (async.series in commandHandler()).
THEOREM SeriesInOrderHolds == Spec => []SeriesInOrder
<1>1. Ordered /\ [Next]_vars => Ordered'
  <2>. SUFFICES ASSUME Ordered, [Next]_vars PROVE Ordered'
    OBVIOUS
  <2>1. CASE LinkChanges
    BY <2>1, OrderedUntouched DEF LinkChanges, device, polling
  <2>2. CASE \E r \in sent : DeviceExecutes(r)
    BY <2>2, OrderedUntouched DEF DeviceExecutes, handling, polling
  <2>3. CASE \E m \in inbox : ResultReceived(m)
    BY <2>3, OrderedUntouched DEF ResultReceived, handling, polling
  <2>4. CASE \E u \in updates : UpdateAnswered(u)
    BY <2>4, OrderedUntouched DEF UpdateAnswered, handling, device, polling
  <2>5. CASE UNCHANGED vars
    BY <2>5, OrderedUntouched DEF vars, handling, device, polling
  <2>6. ASSUME NEW m \in Names, NEW n \in Names, Issue(<<n>>) \/ Issue(<<m, n>>) PROVE Ordered'
    <3>1. <<n>> \in Seq(Names) /\ <<n>> # <<>> /\ <<m, n>> \in Seq(Names) /\ <<m, n>> # <<>>
      OBVIOUS
    <3>. QED  BY <2>6, <3>1, OrderedIssue
  <2>. QED
    BY <2>1, <2>2, <2>3, <2>4, <2>5, <2>6, NextActions, OrderedHandling, OrderedPolling
<1>2. Ordered => SeriesInOrder
  BY DEF Ordered
<1>. QED  BY OrderedInit, <1>1, <1>2, PTL DEF Spec

-----------------------------------------------------------------------------
(* ListedLeavesQueue.  removeCommand() goes by the name and may take an     *)
(* older command than the one it is called for, so it is numbers that       *)
(* count: a reply that still has to remove commands of a name has at least  *)
(* as many removals ahead as there are such commands in the queue, up to    *)
(* any one that has been delivered.                                         *)

Poll == [step : {"idle", "listing", "cleaning"}, list : SUBSET Numbers]

\* The commands of a set that have the name of r, and those queued up to r.
Like(S, r) == {q \in S : requests[q] = requests[r]}
Before(r) == {q \in Like(queue, r) : q <= r}

PollTypes ==
    /\ requests \in Seq(Names)
    /\ queue \subseteq Numbers /\ listed \subseteq Numbers
    /\ polls \in [1 .. Polls -> Poll]

\* What has been read is the queue as it was; what came later has a higher number.
Snapshots ==
    \A p \in 1 .. Polls : polls[p].step = "listing" =>
        \A r \in polls[p].list : Before(r) \subseteq Like(polls[p].list, r)

Covers(p, r) == polls[p].step = "cleaning" /\ Cardinality(Before(r)) <= Cardinality(Like(polls[p].list, r))

Covered ==
    \A r \in queue \cap listed : requests[r] \in unremoved \/ \E p \in 1 .. Polls : Covers(p, r)

Polled == PollTypes /\ Snapshots /\ Covered

LEMMA PolledInit == Init => Polled
<1>. SUFFICES ASSUME Init PROVE Polled
  OBVIOUS
<1>1. Idle \in Poll
  BY DEF Idle, Poll
<1>2. polls = [p \in 1 .. Polls |-> Idle] /\ requests = <<>> /\ queue = {} /\ listed = {}
  BY DEF Init
<1>3. requests \in Seq(Names) /\ polls \in [1 .. Polls -> Poll]
  BY <1>1, <1>2
<1>4. \A p \in 1 .. Polls : polls[p].step = "idle"
  BY <1>2 DEF Idle
<1>. QED  BY <1>2, <1>3, <1>4 DEF Polled, PollTypes, Snapshots, Covered

\* The least number of a set, by the well-ordering of the natural numbers.
LEMMA LeastNumber ==
    ASSUME NEW S \in SUBSET Nat, S # {}
    PROVE  Min(S) \in S /\ \A y \in S : Min(S) <= y
<1>. DEFINE R == {ss \in Nat \X Nat : ss[1] < ss[2]}
<1>1. IsWellFoundedOn(R, Nat)
  BY NatLessThanWellFounded DEF OpToRel
<1>2. \A x, y \in Nat : y < x => <<y, x>> \in R
  OBVIOUS
<1>. HIDE DEF R
<1>3. PICK x \in S : \A y \in S : ~(<<y, x>> \in R)
  BY <1>1, WFMin
<1>4. \A y \in S : x <= y
  <2>. SUFFICES ASSUME NEW y \in S, ~(x <= y) PROVE FALSE
    OBVIOUS
  <2>1. y < x /\ x \in Nat /\ y \in Nat
    OBVIOUS
  <2>. QED  BY <1>2, <1>3, <2>1
<1>. QED BY <1>4 DEF Min

LEMMA PollAt == ASSUME PollTypes, NEW p \in 1 .. Polls PROVE polls[p] \in Poll
BY DEF PollTypes

\* The sets that are counted are finite.
LEMMA Counted ==
    ASSUME PollTypes, NEW S \in SUBSET Numbers
    PROVE  IsFiniteSet(S) /\ Cardinality(S) \in Nat
<1>1. Len(requests) \in Int
  BY DEF PollTypes
<1>2. IsFiniteSet(Numbers)
  BY <1>1, FS_Interval DEF Numbers
<1>. QED  BY <1>2, FS_Subset, FS_CardinalityType

LEMMA PolledUntouched ==
    ASSUME Polled, UNCHANGED <<requests, polling>>
    PROVE  Polled'
<1>1. UNCHANGED <<requests, queue, polls, listed, unremoved>>
  BY DEF polling
<1>2. PollTypes'
  BY <1>1 DEF Polled, PollTypes, Numbers, Poll
<1>3. \A r : Before(r)' = Before(r)
  BY <1>1 DEF Before, Like
<1>4. \A p \in 1 .. Polls : \A r : Like(polls[p].list, r)' = Like(polls[p].list, r)
  BY <1>1 DEF Like
<1>. QED  BY <1>1, <1>2, <1>3, <1>4 DEF Polled, Snapshots, Covered, Covers

\* Requests are added behind those that there are.
LEMMA PolledIssue ==
    ASSUME Polled, NEW names \in Seq(Names), Issue(names)
    PROVE  Polled'
<1>1. /\ requests' = requests \o names /\ UNCHANGED <<polls, listed, unremoved>>
      /\ queue' \subseteq queue \cup {Len(requests) + i : i \in DOMAIN names}
  BY DEF Issue
<1>2. /\ requests' \in Seq(Names) /\ Len(requests) \in Nat /\ Len(names) \in Nat
      /\ Len(requests') = Len(requests) + Len(names) /\ DOMAIN names = 1 .. Len(names)
      /\ \A q \in Numbers : requests'[q] = requests[q]
  BY <1>1, ConcatProperties DEF Polled, PollTypes, Numbers
<1>3. \A q \in queue' \ queue : q \in Int /\ q > Len(requests) /\ q <= Len(requests')
  BY <1>1, <1>2
<1>4. Numbers \subseteq Numbers' /\ \A r \in Numbers : r \in Int /\ r <= Len(requests)
  BY <1>2 DEF Numbers
<1>5. PollTypes'
  <2>1. queue' \subseteq Numbers' /\ listed' \subseteq Numbers'
    <3>1. ASSUME NEW q \in queue' PROVE q \in Numbers'
      <4>1. CASE q \in queue
        BY <1>4, <4>1 DEF Polled, PollTypes
      <4>2. CASE q \notin queue
        <5>1. q \in Int /\ q > Len(requests) /\ q <= Len(requests')
          BY <1>3, <4>2
        <5>. QED  BY <1>2, <5>1 DEF Numbers
      <4>. QED  BY <4>1, <4>2
    <3>. QED  BY <1>1, <1>4, <3>1 DEF Polled, PollTypes
  <2>2. Poll \subseteq Poll'
    BY <1>4 DEF Poll
  <2>. QED  BY <1>1, <1>2, <2>1, <2>2 DEF Polled, PollTypes
<1>6. \A r \in Numbers : Before(r)' \subseteq Before(r)
  <2>. SUFFICES ASSUME NEW r \in Numbers, NEW q \in Before(r)' PROVE q \in Before(r)
    OBVIOUS
  <2>1. q \in queue' /\ requests'[q] = requests'[r] /\ q <= r
    BY DEF Before, Like
  <2>2. q \in queue /\ q \in Numbers
    BY <1>2, <1>3, <1>4, <2>1 DEF Polled, PollTypes
  <2>. QED  BY <1>2, <2>1, <2>2 DEF Before, Like
<1>7. \A p \in 1 .. Polls : polls[p].list \subseteq Numbers
  BY PollAt DEF Polled, Poll
<1>8. \A p \in 1 .. Polls : \A r \in Numbers : Like(polls[p].list, r)' = Like(polls[p].list, r)
  <2>. SUFFICES ASSUME NEW p \in 1 .. Polls, NEW r \in Numbers
                PROVE  Like(polls[p].list, r)' = Like(polls[p].list, r)
    OBVIOUS
  <2>1. \A q \in polls[p].list : requests'[q] = requests[q]
    BY <1>2, <1>7
  <2>. QED  BY <1>1, <1>2, <2>1 DEF Like
<1>9. Snapshots'
  <2>. SUFFICES ASSUME NEW p \in 1 .. Polls, polls[p].step = "listing", NEW r \in polls[p].list
                PROVE  Before(r)' \subseteq Like(polls[p].list, r)'
    BY <1>1 DEF Snapshots
  <2>1. Before(r) \subseteq Like(polls[p].list, r) /\ r \in Numbers
    BY <1>7 DEF Polled, Snapshots
  <2>. QED  BY <1>1, <1>6, <1>8, <2>1
<1>10. Covered'
  <2>. SUFFICES ASSUME NEW r \in queue' \cap listed', requests'[r] \notin unremoved'
                PROVE  \E p \in 1 .. Polls : Covers(p, r)'
    BY DEF Covered
  <2>1. r \in Numbers /\ r \in queue \cap listed
    BY <1>1, <1>3, <1>4 DEF Polled, PollTypes
  <2>2. PICK p \in 1 .. Polls : Covers(p, r)
    BY <1>1, <1>2, <2>1 DEF Polled, Covered
  <2>3. Before(r)' \in SUBSET Before(r) /\ Before(r) \in SUBSET Numbers
    BY <1>6, <2>1 DEF Before, Like, Polled, PollTypes
  <2>4. Cardinality(Before(r)') <= Cardinality(Before(r)) /\ Cardinality(Before(r)) \in Nat /\ Cardinality(Before(r)') \in Nat
    BY <2>3, Counted, FS_Subset DEF Polled
  <2>5. Like(polls[p].list, r) \in SUBSET Numbers
    BY <1>7 DEF Like
  <2>6. Cardinality(Like(polls[p].list, r)) \in Nat
    BY <2>5, Counted DEF Polled
  <2>7. Like(polls[p].list, r)' = Like(polls[p].list, r)
    BY <1>8, <2>1
  <2>. QED  BY <1>1, <2>2, <2>4, <2>6, <2>7 DEF Covers
<1>. QED  BY <1>5, <1>9, <1>10 DEF Polled

\* Two facts about the sets that are counted.
LEMMA Counts ==
    ASSUME Polled, NEW r \in queue
    PROVE  /\ Before(r) \in SUBSET Numbers /\ Cardinality(Before(r)) \in Nat /\ IsFiniteSet(Before(r))
           /\ \A p \in 1 .. Polls :
                 /\ polls[p].list \in SUBSET Numbers /\ Like(polls[p].list, r) \in SUBSET Numbers
                 /\ Cardinality(Like(polls[p].list, r)) \in Nat /\ IsFiniteSet(Like(polls[p].list, r))
<1>1. Before(r) \in SUBSET Numbers
  BY DEF Before, Like, Polled, PollTypes
<1>2. ASSUME NEW p \in 1 .. Polls
      PROVE  polls[p].list \in SUBSET Numbers /\ Like(polls[p].list, r) \in SUBSET Numbers
  BY PollAt DEF Like, Polled, Poll
<1>. QED  BY <1>1, <1>2, Counted DEF Polled

\* The list is the queue.
LEMMA PollListPolled ==
    ASSUME Polled, NEW p \in 1 .. Polls, PollList(p)
    PROVE  Polled'
<1>1. /\ polls[p].step = "idle" /\ polls' = [polls EXCEPT ![p] = [step |-> "listing", list |-> queue]]
      /\ UNCHANGED <<requests, queue, listed, unremoved>>
  BY DEF PollList
<1>2. /\ polls'[p] = [step |-> "listing", list |-> queue]
      /\ \A o \in 1 .. Polls : o # p => polls'[o] = polls[o]
      /\ polls' \in [1 .. Polls -> Poll]
  <2>1. [step |-> "listing", list |-> queue] \in Poll
    BY DEF Poll, Polled, PollTypes
  <2>. QED  BY <1>1, <2>1 DEF Polled, PollTypes
<1>3. PollTypes'
  BY <1>1, <1>2 DEF Polled, PollTypes, Poll, Numbers
<1>4. \A r, S : Before(r)' = Before(r) /\ {q \in S : requests'[q] = requests'[r]} = Like(S, r)
  BY <1>1 DEF Before, Like
<1>5. Snapshots'
  <2>. SUFFICES ASSUME NEW o \in 1 .. Polls, polls'[o].step = "listing", NEW r \in polls'[o].list
                PROVE  Before(r)' \subseteq Like(polls[o].list, r)'
    BY DEF Snapshots
  <2>1. CASE o = p
    BY <1>2, <1>4, <2>1 DEF Before, Like
  <2>2. CASE o # p
    <3>1. polls'[o] = polls[o]
      BY <1>2, <2>2
    <3>2. Like(polls[o].list, r)' = Like(polls[o].list, r)
      BY <1>1, <3>1 DEF Like
    <3>. QED  BY <1>4, <3>1, <3>2 DEF Polled, Snapshots
  <2>. QED  BY <2>1, <2>2
<1>6. Covered'
  <2>. SUFFICES ASSUME NEW r \in queue \cap listed, requests[r] \notin unremoved
                PROVE  \E o \in 1 .. Polls : Covers(o, r)'
    BY <1>1 DEF Covered
  <2>1. PICK o \in 1 .. Polls : Covers(o, r)
    BY DEF Polled, Covered
  <2>2. o # p
    BY <1>1, <2>1 DEF Covers
  <2>. QED  BY <1>2, <1>4, <2>1, <2>2 DEF Covers, Like
<1>. QED  BY <1>3, <1>5, <1>6 DEF Polled

\* The removals of all that is delivered are ahead.
LEMMA PollReplyPolled ==
    ASSUME Polled, NEW p \in 1 .. Polls, PollReply(p)
    PROVE  Polled'
<1>. DEFINE list == polls[p].list
            next == IF list = {} THEN Idle ELSE [step |-> "cleaning", list |-> list]
<1>1. /\ polls[p].step = "listing" /\ polls' = [polls EXCEPT ![p] = next]
      /\ UNCHANGED <<requests, queue, unremoved>> /\ listed' = listed \cup list
  <2>1. [polls[p] EXCEPT !.step = "cleaning"] = [step |-> "cleaning", list |-> list]
    BY PollAt DEF Polled, Poll
  <2>. QED  BY <2>1 DEF PollReply
<1>2. /\ polls'[p] = next /\ next.list = list /\ (list # {} => next.step = "cleaning") /\ next.step # "listing"
      /\ \A o \in 1 .. Polls : o # p => polls'[o] = polls[o]
      /\ polls' \in [1 .. Polls -> Poll] /\ list \subseteq Numbers
  <2>1. list \subseteq Numbers /\ next \in Poll
    BY PollAt DEF Poll, Polled, Idle
  <2>. QED  BY <1>1, <2>1 DEF Polled, PollTypes, Idle
<1>3. PollTypes'
  BY <1>1, <1>2 DEF Polled, PollTypes, Poll, Numbers
<1>4. \A r, S : Before(r)' = Before(r) /\ {q \in S : requests'[q] = requests'[r]} = Like(S, r)
  BY <1>1 DEF Before, Like
<1>. HIDE DEF next
<1>5. Snapshots'
  BY <1>2, <1>4 DEF Polled, Snapshots, Like
<1>6. Covered'
  <2>. SUFFICES ASSUME NEW r \in queue \cap listed', requests[r] \notin unremoved
                PROVE  \E o \in 1 .. Polls : Covers(o, r)'
    BY <1>1 DEF Covered
  <2>1. CASE r \in list
    <3>1. Before(r) \in SUBSET Like(list, r)
      BY <1>1, <2>1 DEF Polled, Snapshots
    <3>2. Cardinality(Before(r)) <= Cardinality(Like(list, r))
      BY <3>1, Counts, FS_Subset
    <3>3. polls'[p].step = "cleaning" /\ Like(polls[p].list, r)' = Like(list, r)
      BY <1>2, <1>4, <2>1 DEF Like
    <3>. QED  BY <1>4, <3>2, <3>3 DEF Covers
  <2>2. CASE r \notin list
    <3>1. PICK o \in 1 .. Polls : Covers(o, r)
      BY <1>1, <2>2 DEF Polled, Covered
    <3>2. o # p
      BY <1>1, <3>1 DEF Covers
    <3>3. polls'[o] = polls[o] /\ Like(polls[o].list, r)' = Like(polls[o].list, r)
      BY <1>2, <1>4, <3>2 DEF Like
    <3>. QED  BY <1>4, <3>1, <3>3 DEF Covers
  <2>. QED  BY <2>1, <2>2
<1>. QED  BY <1>3, <1>5, <1>6 DEF Polled

\* A removal takes at least one command of the name, none that is behind another
\* which it leaves, so what is left up to any one of them is less than before.
LEMMA RemovedTakes ==
    ASSUME Polled, NEW x \in Numbers, Removed(x)
    PROVE  /\ queue' \subseteq queue
           /\ \A r \in queue' : requests[r] = requests[x] => \E q \in Before(r) : q \notin queue'
<1>1. CASE NamedLike(x) = {}
  BY <1>1 DEF Removed, NamedLike
<1>2. CASE NamedLike(x) # {}
  <2>1. NamedLike(x) \in SUBSET Nat
    <3>1. Numbers \in SUBSET Nat
      BY DEF Numbers
    <3>. QED  BY <3>1 DEF NamedLike, Polled, PollTypes
  <2>2. Min(NamedLike(x)) \in NamedLike(x) /\ \A q \in NamedLike(x) : Min(NamedLike(x)) <= q
    BY <1>2, <2>1, LeastNumber
  <2>. DEFINE least == Min(NamedLike(x))
  <2>. HIDE DEF least
  <2>3. queue' \subseteq queue /\ least \notin queue'
    BY <1>2, <2>2 DEF Removed, least
  <2>4. \A r \in queue' : requests[r] = requests[x] => least \in Before(r)
    BY <2>2, <2>3 DEF NamedLike, Before, Like, least
  <2>. QED  BY <2>3, <2>4
<1>. QED  BY <1>1, <1>2

LEMMA CommandRemovedPolled ==
    ASSUME Polled, NEW p \in 1 .. Polls, NEW x \in Requests, CommandRemoved(p, x)
    PROVE  Polled'
<1>. DEFINE list == polls[p].list
            next == IF list = {x} THEN Idle ELSE [step |-> "cleaning", list |-> list \ {x}]
<1>1. /\ polls[p].step = "cleaning" /\ x \in list /\ polls' = [polls EXCEPT ![p] = next]
      /\ UNCHANGED <<requests, listed>>
      /\ \/ Removed(x) /\ UNCHANGED unremoved
         \/ unremoved' = unremoved \cup {requests[x]} /\ UNCHANGED queue
  <2>1. polls[p].step = "cleaning"
    BY DEF CommandRemoved
  <2>2. [polls[p] EXCEPT !.list = list \ {x}] = [step |-> "cleaning", list |-> list \ {x}]
    BY <2>1, PollAt DEF Polled, Poll
  <2>3. polls' = [polls EXCEPT ![p] = IF list = {x} THEN Idle ELSE [polls[p] EXCEPT !.list = list \ {x}]]
    BY DEF CommandRemoved
  <2>4. /\ x \in list /\ UNCHANGED <<requests, listed>>
        /\ \/ Removed(x) /\ UNCHANGED unremoved
           \/ unremoved' = unremoved \cup {requests[x]} /\ UNCHANGED queue
    BY DEF CommandRemoved
  <2>. QED  BY <2>1, <2>2, <2>3, <2>4, Zenon
<1>2. x \in Numbers /\ list \subseteq Numbers
  BY <1>1, PollAt DEF Polled, Poll
<1>3. /\ polls'[p] = next /\ next.list = list \ {x} /\ next.step # "listing"
      /\ list \ {x} # {} => next.step = "cleaning"
      /\ \A o \in 1 .. Polls : o # p => polls'[o] = polls[o]
      /\ polls' \in [1 .. Polls -> Poll]
  <2>1. next \in Poll
    BY <1>2 DEF Poll, Idle
  <2>. QED  BY <1>1, <2>1 DEF Polled, PollTypes, Idle
<1>4. queue' \subseteq queue
  BY <1>1, <1>2, RemovedTakes
<1>5. PollTypes'
  BY <1>1, <1>3, <1>4 DEF Polled, PollTypes, Poll, Numbers
<1>6. \A r, S : Before(r)' \in SUBSET Before(r) /\ {q \in S : requests'[q] = requests'[r]} = Like(S, r)
  BY <1>1, <1>4 DEF Before, Like
<1>. HIDE DEF next
<1>7. Snapshots'
  BY <1>3, <1>6 DEF Polled, Snapshots, Like
<1>8. Covered'
  <2>. SUFFICES ASSUME NEW r \in queue' \cap listed, requests[r] \notin unremoved'
                PROVE  \E o \in 1 .. Polls : Covers(o, r)'
    BY <1>1 DEF Covered
  <2>1. r \in queue /\ requests[r] \notin unremoved /\ Before(r)' \in SUBSET Before(r)
    BY <1>1, <1>4, <1>6
  <2>2. PICK o \in 1 .. Polls : Covers(o, r)
    BY <2>1 DEF Polled, Covered
  <2>3. Cardinality(Before(r)') <= Cardinality(Before(r)) /\ Cardinality(Before(r)') \in Nat
    BY <2>1, Counts, FS_Subset, FS_CardinalityType
  <2>4. CASE o # p
    <3>1. Like(polls[o].list, r)' = Like(polls[o].list, r)
      BY <1>3, <1>6, <2>4 DEF Like
    <3>2. Cardinality(Before(r)) \in Nat /\ Cardinality(Like(polls[o].list, r)) \in Nat
      BY <2>1, Counts
    <3>. QED  BY <1>3, <2>2, <2>3, <2>4, <3>1, <3>2 DEF Covers
  <2>5. CASE o = p /\ requests[x] # requests[r]
    <3>1. Like(polls[p].list, r)' = Like(list, r)
      BY <1>3, <1>6, <2>5 DEF Like
    <3>2. Cardinality(Before(r)) \in Nat /\ Cardinality(Like(list, r)) \in Nat
      BY <2>1, Counts
    <3>3. Cardinality(Before(r)') <= Cardinality(Like(polls[p].list, r)')
      BY <2>2, <2>3, <2>5, <3>1, <3>2 DEF Covers
    <3>4. list \ {x} # {}
      <4>1. Cardinality(Like(list, r)) > 0
        <5>1. r \in Before(r) /\ IsFiniteSet(Before(r))
          <6>1. r \in Int /\ r <= r
            BY <2>1 DEF Polled, PollTypes, Numbers
          <6>. QED  BY <2>1, <6>1, Counts DEF Before, Like
        <5>2. Cardinality(Before(r)) # 0
          BY <5>1, FS_EmptySet
        <5>. QED  BY <2>2, <2>5, <3>2, <5>2 DEF Covers
      <4>2. Like(list, r) # {}
        BY <4>1, FS_EmptySet
      <4>. QED  BY <2>5, <4>2 DEF Like
    <3>. QED  BY <1>3, <3>3, <3>4 DEF Covers
  <2>6. CASE o = p /\ requests[x] = requests[r]
    <3>1. Removed(x)
      BY <1>1, <2>1, <2>6
    <3>2. PICK q \in Before(r) : q \notin queue'
      BY <1>2, <2>6, <3>1, RemovedTakes
    <3>3. Before(r)' \in SUBSET (Before(r) \ {q})
      BY <2>1, <3>2 DEF Before, Like
    <3>4. /\ IsFiniteSet(Before(r) \ {q})
          /\ Cardinality(Before(r) \ {q}) = Cardinality(Before(r)) - 1
      BY <2>1, <3>2, Counts, FS_RemoveElement
    <3>5. Cardinality(Before(r)') <= Cardinality(Before(r)) - 1
      BY <3>3, <3>4, FS_Subset
    <3>6. Like(polls[p].list, r)' = Like(list, r) \ {x}
      BY <1>3, <1>6 DEF Like
    <3>7. Cardinality(Like(list, r) \ {x}) = Cardinality(Like(list, r)) - 1
      <4>1. x \in Like(list, r)
        BY <1>1, <2>6 DEF Like
      <4>2. IsFiniteSet(Like(list, r))
        BY <2>1, Counts
      <4>. QED  BY <4>1, <4>2, FS_RemoveElement
    <3>8. Cardinality(Before(r)) \in Nat /\ Cardinality(Like(list, r)) \in Nat
      BY <2>1, Counts
    <3>9. Cardinality(Before(r)') <= Cardinality(Like(polls[p].list, r)')
      BY <2>2, <2>6, <3>5, <3>6, <3>7, <3>8, <2>3 DEF Covers
    <3>10. list \ {x} # {}
      <4>1. r \in Before(r)' /\ IsFiniteSet(Before(r)')
        <5>1. r \in Before(r)'
          BY <1>4 DEF Before, Like, Polled, PollTypes, Numbers
        <5>. QED  BY <2>1, <5>1, Counts, FS_Subset
      <4>2. Cardinality(Before(r)') # 0
        BY <4>1, FS_EmptySet
      <4>3. Cardinality(Like(list, r) \ {x}) # 0
        BY <2>3, <3>6, <3>7, <3>8, <3>9, <4>2
      <4>4. Like(list, r) \ {x} # {}
        BY <4>3, FS_EmptySet
      <4>. QED  BY <4>4 DEF Like
    <3>. QED  BY <1>3, <3>9, <3>10 DEF Covers
  <2>. QED  BY <2>4, <2>5, <2>6
<1>. QED  BY <1>5, <1>7, <1>8 DEF Polled

\* A command that a poll has delivered comes again only while its removal is in
\* progress, or if it failed (updateCommandStatus() of the HTTP binding).
THEOREM ListedLeavesQueueHolds == Spec => []ListedLeavesQueue
<1>1. Polled /\ [Next]_vars => Polled'
  <2>. SUFFICES ASSUME Polled, [Next]_vars PROVE Polled'
    OBVIOUS
  <2>1. CASE LinkChanges
    BY <2>1, PolledUntouched DEF LinkChanges
  <2>2. CASE \E r \in sent : DeviceExecutes(r)
    BY <2>2, PolledUntouched DEF DeviceExecutes
  <2>3. CASE \E m \in inbox : ResultReceived(m)
    BY <2>3, PolledUntouched DEF ResultReceived
  <2>4. CASE \E u \in updates : UpdateAnswered(u)
    BY <2>4, PolledUntouched DEF UpdateAnswered
  <2>5. CASE UNCHANGED vars
    BY <2>5, PolledUntouched DEF vars
  <2>6. CASE \E s \in series : Post(s) \/ PostAnswered(s) \/ PostFailed(s) \/ Publish(s) \/ PublishAmqp(s)
    BY <2>6, PolledUntouched DEF Post, PostAnswered, PostFailed, Publish, PublishAmqp
  <2>7. ASSUME NEW m \in Names, NEW n \in Names, Issue(<<n>>) \/ Issue(<<m, n>>) PROVE Polled'
    <3>1. <<n>> \in Seq(Names) /\ <<m, n>> \in Seq(Names)
      OBVIOUS
    <3>. QED  BY <2>7, <3>1, PolledIssue
  <2>. QED
    BY <2>1, <2>2, <2>3, <2>4, <2>5, <2>6, <2>7, NextActions, PollListPolled, PollReplyPolled, CommandRemovedPolled
<1>2. Polled => ListedLeavesQueue
  <2>. SUFFICES ASSUME Polled, NEW r \in queue \cap listed, NEW p \in 1 .. Polls, Covers(p, r)
                PROVE  \E q \in polls[p].list : requests[q] = requests[r]
    BY DEF Polled, Covered, ListedLeavesQueue, Covers
  <2>1. r \in Before(r) /\ IsFiniteSet(Before(r)) /\ Cardinality(Before(r)) \in Nat
    BY Counts DEF Before, Like, Polled, PollTypes, Numbers
  <2>2. Cardinality(Before(r)) # 0
    BY <2>1, FS_EmptySet
  <2>3. Cardinality(Like(polls[p].list, r)) # 0
    BY <2>1, <2>2, Counts DEF Covers
  <2>4. Like(polls[p].list, r) # {}
    BY <2>3, FS_EmptySet
  <2>. QED  BY <2>4 DEF Like
<1>. QED  BY PolledInit, <1>1, <1>2, PTL DEF Spec
=============================================================================
