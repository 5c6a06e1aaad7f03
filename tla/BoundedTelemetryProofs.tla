----------------------- MODULE BoundedTelemetryProofs -----------------------
(***************************************************************************)
(* Proofs about BoundedTelemetry, for any metrics, numbers and limits and  *)
(* any size of the cache: what the normalizer does not send again is at    *)
(* the Context Broker, on its way or lost in an update that failed, and a  *)
(* metric keeps the type Number while it is remembered.                    *)
(***************************************************************************)
EXTENDS BoundedTelemetry, SequenceTheorems, TLAPS

USE BoundedAssumption

\* The queue has one message of a device at a time with the normalizer.
OnePerDevice ==
    \A u, v \in inFlight : DeviceOf[u.metric] = DeviceOf[v.metric] => u = v

\* The cache has not moved on from the limits that an update carries, nor come
\* to know a metric whose value is sent with its provisioned type.
CacheAgrees ==
    \A u \in inFlight : \A i \in DOMAIN cache : cache[i].metric = u.metric =>
        /\ u.type = "Number"
        /\ \A l \in Limits : Known(u.limits[l]) => cache[i].limits[l] = u.limits[l]

BInv == TypeOK /\ OnePerDevice /\ CacheAgrees /\ CachedLimitIsInOrion

LEMMA BInit == Init => BInv
<1>. SUFFICES ASSUME Init PROVE BInv
  OBVIOUS
<1>1. cache \in Seq(CacheEntry) /\ Len(cache) = 0 /\ DOMAIN cache = {}
  BY DEF Init
<1>2. orion \in [Metrics -> OrionState]
  BY DEF Init, OrionState, LimitValues, NoLimits
<1>. QED  BY <1>1, <1>2 DEF Init, BInv, TypeOK, OnePerDevice, CacheAgrees, CachedLimitIsInOrion

Fresh(m) == [metric |-> m, limits |-> NoLimits]

\* getOrCreateState(): the entries are those there were, but perhaps for the
\* oldest, and perhaps a fresh one, which knows no limits.
LEMMA WithEntryFacts ==
    ASSUME TypeOK, NEW m \in Metrics
    PROVE  LET w == WithEntry(m)
           IN  /\ w \in Seq(CacheEntry) /\ Len(w) <= MaxEntries
               /\ \A i, j \in DOMAIN w : w[i].metric = w[j].metric => i = j
               /\ \A i \in DOMAIN w : (\E j \in DOMAIN cache : w[i] = cache[j]) \/ w[i] = Fresh(m)
<1>. DEFINE kept == IF Len(cache) >= MaxEntries THEN Tail(cache) ELSE cache
<1>1. cache \in Seq(CacheEntry) /\ Len(cache) \in Nat /\ Len(cache) <= MaxEntries
  BY DEF TypeOK
<1>2. CASE Cached(m)
  BY <1>2 DEF WithEntry, TypeOK
<1>3. CASE ~Cached(m)
  <2>1. /\ kept \in Seq(CacheEntry) /\ Len(kept) \in Nat /\ Len(kept) < MaxEntries
        /\ \A i \in DOMAIN kept : \E j \in DOMAIN cache : kept[i] = cache[j]
        /\ \A i, j \in DOMAIN kept : kept[i].metric = kept[j].metric => i = j
    <3>1. CASE Len(cache) >= MaxEntries
      <4>1. /\ Tail(cache) \in Seq(CacheEntry) /\ Len(Tail(cache)) = Len(cache) - 1
            /\ \A i \in DOMAIN Tail(cache) : i + 1 \in DOMAIN cache /\ Tail(cache)[i] = cache[i + 1]
        BY <1>1, <3>1
      <4>2. \A i, j \in DOMAIN Tail(cache) : i \in Nat /\ j \in Nat /\ (i + 1 = j + 1 => i = j)
        BY <4>1
      <4>3. \A i, j \in DOMAIN Tail(cache) : Tail(cache)[i].metric = Tail(cache)[j].metric => i = j
        BY <4>1, <4>2 DEF TypeOK
      <4>. QED  BY <1>1, <3>1, <4>1, <4>3
    <3>2. CASE ~(Len(cache) >= MaxEntries)
      BY <1>1, <3>2 DEF TypeOK
    <3>. QED  BY <3>1, <3>2
  <2>2. Fresh(m) \in CacheEntry /\ Fresh(m).metric = m
    BY DEF Fresh, CacheEntry, LimitValues, NoLimits
  <2>3. WithEntry(m) = Append(kept, Fresh(m))
    BY <1>3 DEF WithEntry, Fresh
  <2>4. \A i \in DOMAIN kept : kept[i].metric # m
    BY <1>3, <2>1 DEF Cached
  <2>. HIDE DEF kept
  <2>5. /\ WithEntry(m) \in Seq(CacheEntry) /\ Len(WithEntry(m)) = Len(kept) + 1
        /\ \A i \in 1 .. Len(kept) : WithEntry(m)[i] = kept[i]
        /\ WithEntry(m)[Len(kept) + 1] = Fresh(m)
    BY <2>1, <2>2, <2>3, AppendProperties
  <2>6. DOMAIN kept = 1 .. Len(kept) /\ DOMAIN WithEntry(m) = 1 .. Len(kept) + 1
    BY <2>1, <2>5, LenProperties
  <2>. QED  BY <2>1, <2>2, <2>4, <2>5, <2>6
<1>. QED  BY <1>2, <1>3

\* A limit that is remembered and accounted for.
Accounted(m, l, limit) ==
    \/ orion[m].limits[l] = limit
    \/ <<m, l>> \in unsent
    \/ \E u \in inFlight : u.metric = m /\ u.limits[l] = limit

\* The same after a step.
AccountedNext(m, l, limit) ==
    \/ orion'[m].limits[l] = limit
    \/ <<m, l>> \in unsent'
    \/ \E u \in inFlight' : u.metric = m /\ u.limits[l] = limit

LEMMA AllAccounted ==
    /\ CachedLimitIsInOrion <=>
          \A i \in DOMAIN cache, l \in Limits :
              Known(cache[i].limits[l]) => Accounted(cache[i].metric, l, cache[i].limits[l])
    /\ CachedLimitIsInOrion' <=>
          \A i \in DOMAIN cache', l \in Limits :
              Known(cache'[i].limits[l]) => AccountedNext(cache'[i].metric, l, cache'[i].limits[l])
BY DEF CachedLimitIsInOrion, Accounted, AccountedNext, Known

LEMMA SendUnboundedSafe ==
    ASSUME BInv, NEW m \in Metrics, NEW p \in Payload, SendUnbounded(m, p)
    PROVE  BInv'
<1>. DEFINE update == [metric |-> m, type |-> "Provisioned", limits |-> NoLimits]
<1>1. /\ inFlight' = inFlight \cup {update} /\ UNCHANGED <<cache, orion, unsent>>
      /\ \A u \in inFlight : DeviceOf[u.metric] # DeviceOf[m]
      /\ \A i \in DOMAIN cache : cache[i].metric # m
  BY DEF SendUnbounded, IsBounded, Cached, Idle
<1>2. update \in Update
  BY DEF Update, LimitValues, NoLimits
<1>3. TypeOK'
  BY <1>1, <1>2 DEF BInv, TypeOK
<1>4. OnePerDevice' /\ CacheAgrees'
  BY <1>1 DEF BInv, OnePerDevice, CacheAgrees
<1>5. CachedLimitIsInOrion'
  BY <1>1 DEF BInv, CachedLimitIsInOrion
<1>. QED  BY <1>3, <1>4, <1>5 DEF BInv

LEMMA RejectBoundedSafe ==
    ASSUME BInv, NEW m \in Metrics, NEW p \in Payload, RejectBounded(m, p)
    PROVE  BInv'
<1>1. /\ cache' = WithEntry(m) /\ UNCHANGED <<inFlight, orion, unsent>>
      /\ \A u \in inFlight : u.metric # m
  BY DEF RejectBounded, Idle
<1>2. /\ cache' \in Seq(CacheEntry) /\ Len(cache') <= MaxEntries
      /\ \A i, j \in DOMAIN cache' : cache'[i].metric = cache'[j].metric => i = j
      /\ \A i \in DOMAIN cache' : (\E j \in DOMAIN cache : cache'[i] = cache[j]) \/ cache'[i] = Fresh(m)
  BY <1>1, WithEntryFacts DEF BInv
<1>3. Fresh(m).metric = m /\ \A l \in Limits : ~Known(Fresh(m).limits[l])
  BY DEF Fresh, NoLimits, Known
<1>4. TypeOK' /\ OnePerDevice'
  BY <1>1, <1>2 DEF BInv, TypeOK, OnePerDevice
<1>5. CacheAgrees'
  BY <1>1, <1>2, <1>3 DEF BInv, CacheAgrees
<1>6. CachedLimitIsInOrion'
  BY <1>1, <1>2, <1>3 DEF BInv, CachedLimitIsInOrion
<1>. QED  BY <1>4, <1>5, <1>6 DEF BInv

\* Another entry in the place of one.
LEMMA ReplaceEntry ==
    ASSUME NEW S, NEW s \in Seq(S), NEW i \in DOMAIN s, NEW e \in S, NEW r, r = [s EXCEPT ![i] = e]
    PROVE  /\ r \in Seq(S) /\ Len(r) = Len(s) /\ DOMAIN r = DOMAIN s
           /\ r[i] = e /\ \A j \in DOMAIN s : j # i => r[j] = s[j]
OBVIOUS

\* What normalize() remembers and what it sends differ only by limits that were
\* remembered before.
LEMMA SendBoundedSafe ==
    ASSUME BInv, NEW m \in Metrics, NEW p \in Payload, SendBounded(m, p)
    PROVE  BInv'
<1>. DEFINE w == WithEntry(m)
<1>1. /\ w \in Seq(CacheEntry) /\ Len(w) <= MaxEntries
      /\ \A i, j \in DOMAIN w : w[i].metric = w[j].metric => i = j
      /\ \A i \in DOMAIN w : (\E j \in DOMAIN cache : w[i] = cache[j]) \/ w[i] = Fresh(m)
  BY WithEntryFacts DEF BInv
<1>2. UNCHANGED <<orion, unsent>> /\ \A u \in inFlight : DeviceOf[u.metric] # DeviceOf[m]
  BY DEF SendBounded, Idle
<1>3. PICK i \in DOMAIN w :
        /\ w[i].metric = m
        /\ cache' = [w EXCEPT ![i].limits = Overwritten(@, p.limits)]
        /\ inFlight' = inFlight \cup
              {[metric |-> m, type |-> "Number", limits |-> Emitted(w[i].limits, p.limits)]}
  BY DEF SendBounded
<1>. HIDE DEF w
<1>4. w[i] \in CacheEntry /\ w[i].limits \in LimitValues
  <2>1. w[i] \in CacheEntry
    BY <1>1
  <2>. QED  BY <2>1 DEF CacheEntry
<1>. DEFINE old == w[i].limits
            new == Overwritten(old, p.limits)
            out == Emitted(old, p.limits)
            update == [metric |-> m, type |-> "Number", limits |-> out]
<1>5. /\ new \in LimitValues /\ out \in LimitValues
      /\ \A l \in Limits : /\ Known(out[l]) => new[l] = out[l]
                           /\ new[l] = old[l] \/ new[l] = out[l]
  BY <1>4 DEF LimitValues, Overwritten, Emitted, Known, Payload
<1>6. Fresh(m).metric = m /\ \A l \in Limits : ~Known(Fresh(m).limits[l])
  BY DEF Fresh, NoLimits, Known
<1>. HIDE DEF new, out
<1>. DEFINE entry == [w[i] EXCEPT !.limits = new]
<1>7. entry \in CacheEntry /\ entry.metric = m /\ entry.limits = new
  BY <1>3, <1>4, <1>5 DEF CacheEntry
<1>8. /\ cache' \in Seq(CacheEntry) /\ Len(cache') = Len(w) /\ DOMAIN cache' = DOMAIN w
      /\ cache'[i].metric = m /\ cache'[i].limits = new
      /\ \A j \in DOMAIN w : j # i => cache'[j] = w[j]
  <2>1. cache' = [w EXCEPT ![i] = entry]
    BY <1>3 DEF new
  <2>. HIDE DEF entry
  <2>. QED  BY <1>1, <1>7, <2>1, ReplaceEntry
<1>9. inFlight' = inFlight \cup {update} /\ update \in Update
  BY <1>3, <1>5 DEF Update, out
<1>10. \A j \in DOMAIN w : j # i => w[j].metric # m /\ \E k \in DOMAIN cache : w[j] = cache[k]
  BY <1>1, <1>3, <1>6
<1>11. TypeOK'
  <2>1. \A j, k \in DOMAIN cache' : cache'[j].metric = cache'[k].metric => j = k
    BY <1>8, <1>10, <1>1
  <2>. QED  BY <1>1, <1>2, <1>8, <1>9, <2>1 DEF BInv, TypeOK
<1>12. OnePerDevice'
  BY <1>2, <1>9 DEF BInv, OnePerDevice
<1>13. CacheAgrees'
  <2>. SUFFICES ASSUME NEW u \in inFlight', NEW j \in DOMAIN cache', cache'[j].metric = u.metric
                PROVE  /\ u.type = "Number"
                       /\ \A l \in Limits : Known(u.limits[l]) => cache'[j].limits[l] = u.limits[l]
    BY DEF CacheAgrees
  <2>1. CASE j = i
    <3>1. u = update
      BY <1>2, <1>8, <1>9, <2>1
    <3>. QED  BY <1>5, <1>8, <2>1, <3>1
  <2>2. CASE j # i
    <3>1. u \in inFlight
      BY <1>8, <1>9, <1>10, <2>2
    <3>. QED  BY <1>8, <1>10, <2>2, <3>1 DEF BInv, CacheAgrees
  <2>. QED  BY <2>1, <2>2
<1>14. CachedLimitIsInOrion'
  <2>. SUFFICES ASSUME NEW j \in DOMAIN cache', NEW l \in Limits, Known(cache'[j].limits[l])
                PROVE  AccountedNext(cache'[j].metric, l, cache'[j].limits[l])
    BY AllAccounted
  <2>1. ASSUME NEW k \in DOMAIN cache, Known(cache[k].limits[l])
        PROVE  AccountedNext(cache[k].metric, l, cache[k].limits[l])
    BY <1>2, <1>9, <2>1, AllAccounted DEF BInv, Accounted, AccountedNext
  <2>2. CASE j # i
    BY <1>8, <1>10, <2>1, <2>2
  <2>3. CASE j = i /\ new[l] = out[l]
    <3>1. update \in inFlight' /\ update.metric = m /\ update.limits[l] = cache'[i].limits[l]
      BY <1>8, <1>9, <2>3
    <3>. QED  BY <1>8, <2>3, <3>1 DEF AccountedNext
  <2>4. CASE j = i /\ new[l] = old[l]
    <3>1. PICK k \in DOMAIN cache : w[i] = cache[k]
      BY <1>1, <1>6, <1>8, <2>4
    <3>. QED  BY <1>3, <1>8, <2>1, <2>4, <3>1
  <2>. QED  BY <1>5, <2>2, <2>3, <2>4
<1>. QED  BY <1>11, <1>12, <1>13, <1>14 DEF BInv

\* The Context Broker takes the limits that the cache has (CacheAgrees), and keeps the others.
\* When the answer is lost, all that the update carries counts as unsent besides.
LEMMA UpdateStoredSafe ==
    ASSUME BInv, NEW u \in inFlight, UpdateSucceeds(u) \/ AnswerLost(u)
    PROVE  BInv'
<1>1. u \in Update /\ u.metric \in Metrics /\ u.limits \in LimitValues
  BY DEF BInv, TypeOK, Update
<1>2. /\ inFlight' = inFlight \ {u} /\ UNCHANGED cache
      /\ orion' = [orion EXCEPT ![u.metric] =
                      [type |-> u.type, limits |-> Overwritten(orion[u.metric].limits, u.limits)]]
      /\ unsent' = unsent \ SentBy(u) \/ unsent' = unsent \cup SentBy(u)
  BY DEF UpdateSucceeds, AnswerLost, Taken
<1>. DEFINE taken == Overwritten(orion[u.metric].limits, u.limits)
<1>3. /\ orion[u.metric].limits \in LimitValues /\ taken \in LimitValues
      /\ \A l \in Limits : taken[l] = IF Known(u.limits[l]) THEN u.limits[l] ELSE orion[u.metric].limits[l]
  BY <1>1 DEF BInv, TypeOK, OrionState, LimitValues, Overwritten, Known
<1>. HIDE DEF taken
<1>4. /\ orion' \in [Metrics -> OrionState]
      /\ orion'[u.metric].limits = taken
      /\ \A m \in Metrics : m # u.metric => orion'[m] = orion[m]
  BY <1>1, <1>2, <1>3 DEF BInv, TypeOK, OrionState, Update, taken
<1>5. TypeOK' /\ OnePerDevice' /\ CacheAgrees'
  <2>1. SentBy(u) \subseteq Metrics \X Limits
    BY <1>1 DEF SentBy
  <2>. QED  BY <1>2, <1>4, <2>1 DEF BInv, TypeOK, OnePerDevice, CacheAgrees
<1>6. CachedLimitIsInOrion'
  <2>. SUFFICES ASSUME NEW i \in DOMAIN cache, NEW l \in Limits, Known(cache[i].limits[l])
                PROVE  AccountedNext(cache[i].metric, l, cache[i].limits[l])
    BY <1>2, AllAccounted
  <2>1. Accounted(cache[i].metric, l, cache[i].limits[l]) /\ cache[i].metric \in Metrics
    <3>1. Accounted(cache[i].metric, l, cache[i].limits[l])
      BY AllAccounted DEF BInv
    <3>2. cache[i] \in CacheEntry
      BY DEF BInv, TypeOK
    <3>. QED  BY <3>1, <3>2 DEF CacheEntry
  <2>2. CASE cache[i].metric # u.metric
    BY <1>2, <1>4, <2>1, <2>2 DEF Accounted, AccountedNext, SentBy
  <2>3. CASE cache[i].metric = u.metric /\ Known(u.limits[l])
    <3>1. cache[i].limits[l] = u.limits[l]
      BY <2>3 DEF BInv, CacheAgrees
    <3>. QED  BY <1>3, <1>4, <2>3, <3>1 DEF AccountedNext
  <2>4. CASE cache[i].metric = u.metric /\ ~Known(u.limits[l])
    <3>1. <<u.metric, l>> \notin SentBy(u) /\ orion'[u.metric].limits[l] = orion[u.metric].limits[l]
      BY <1>3, <1>4, <2>4 DEF SentBy
    <3>. QED  BY <1>2, <2>1, <2>4, <3>1 DEF Accounted, AccountedNext
  <2>. QED  BY <2>2, <2>3, <2>4
<1>. QED  BY <1>5, <1>6 DEF BInv

LEMMA UpdateFailsSafe ==
    ASSUME BInv, NEW u \in inFlight, UpdateFails(u)
    PROVE  BInv'
<1>1. /\ inFlight' = inFlight \ {u} /\ UNCHANGED <<cache, orion>>
      /\ unsent' = unsent \cup SentBy(u)
  BY DEF UpdateFails
<1>2. u.metric \in Metrics
  BY DEF BInv, TypeOK, Update
<1>3. TypeOK' /\ OnePerDevice' /\ CacheAgrees'
  BY <1>1, <1>2 DEF BInv, TypeOK, OnePerDevice, CacheAgrees, SentBy
<1>4. CachedLimitIsInOrion'
  BY <1>1 DEF BInv, CachedLimitIsInOrion, SentBy
<1>. QED  BY <1>3, <1>4 DEF BInv

LEMMA RestartSafe == ASSUME BInv, Restart PROVE BInv'
<1>1. cache' \in Seq(CacheEntry) /\ Len(cache') = 0 /\ DOMAIN cache' = {}
  BY DEF Restart
<1>. QED  BY <1>1 DEF Restart, BInv, TypeOK, OnePerDevice, CacheAgrees, CachedLimitIsInOrion

LEMMA BNext == BInv /\ [Next]_vars => BInv'
<1>. SUFFICES ASSUME BInv, [Next]_vars PROVE BInv'
  OBVIOUS
<1>1. CASE UNCHANGED vars
  BY <1>1 DEF vars, BInv, TypeOK, OnePerDevice, CacheAgrees, CachedLimitIsInOrion
<1>. QED
  BY <1>1, SendUnboundedSafe, RejectBoundedSafe, SendBoundedSafe, UpdateStoredSafe,
     UpdateFailsSafe, RestartSafe DEF Next

\* The types, and the bound of the cache (maxEntries, one entry for a metric).
THEOREM CacheCorrect == Spec => []TypeOK
<1>1. BInv => TypeOK
  BY DEF BInv
<1>. QED  BY BInit, BNext, <1>1, PTL DEF Spec

\* What normalizeLimit() leaves out because it is remembered is accounted for.
THEOREM NoLimitForgotten == Spec => []CachedLimitIsInOrion
<1>1. BInv => CachedLimitIsInOrion
  BY DEF BInv
<1>. QED  BY BInit, BNext, <1>1, PTL DEF Spec

\* No update changes the type back while normalize() remembers the metric.
THEOREM StaysNumeric == Spec => BoundedStaysNumeric
<1>1. BInv /\ [Next]_vars =>
         [\A m \in Metrics : orion[m].type = "Number" /\ orion'[m].type # "Number" => ~Cached(m)]_vars
  <2>. SUFFICES ASSUME BInv, Next, NEW m \in Metrics, orion[m].type = "Number", orion'[m].type # "Number"
                PROVE  ~Cached(m)
    OBVIOUS
  <2>1. PICK u \in inFlight : UpdateSucceeds(u) \/ AnswerLost(u)
    BY DEF Next, SendUnbounded, RejectBounded, SendBounded, UpdateFails, Restart
  <2>2. u.metric = m /\ u.type # "Number"
    BY <2>1 DEF UpdateSucceeds, AnswerLost, Taken, BInv, TypeOK
  <2>. QED  BY <2>2 DEF BInv, CacheAgrees, Cached
<1>. QED  BY BInit, BNext, <1>1, PTL DEF Spec, BoundedStaysNumeric
=============================================================================
