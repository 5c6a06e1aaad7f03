--------------------------- MODULE DeviceDiscovery ---------------------------
(***************************************************************************)
(* lib/deviceDiscovery.js: the device ids seen on MQTT, in the order of    *)
(* their last observation, bounded by number and by age.  The binding      *)
(* records every id it receives (MQTTBinding.js), the portal lists them    *)
(* (HTTPBinding.js) so that an operator can provision an unknown machine.  *)
(* The clock is assumed not to go back; Horizon bounds it.                 *)
(***************************************************************************)
EXTENDS Integers, Sequences, FiniteSets, SequencesExt

CONSTANTS DeviceIds,
          Ttl,         \* ttlMs
          MaxEntries,  \* maxEntries
          Horizon      \* bound: the last instant considered

ASSUME DiscoveryAssumption ==
    /\ Ttl \in Nat \ {0}
    /\ MaxEntries \in Nat \ {0}
    /\ Horizon \in Nat

VARIABLES devices,   \* the Map in insertion order
          now,       \* Date.now()
          observed   \* per device, the instants it was observed first and last
                     \* without an interruption of Ttl: history
vars == <<devices, now, observed>>

DeviceEntry == [deviceId : DeviceIds, firstSeen : 0 .. Horizon, lastSeen : 0 .. Horizon]
Never == -1

TypeOK ==
    /\ devices \in Seq(DeviceEntry)
    /\ now \in 0 .. Horizon
    /\ observed \in [DeviceIds -> [first : Never .. Horizon, last : Never .. Horizon]]

Init ==
    /\ devices = <<>>
    /\ now = 0
    /\ observed = [d \in DeviceIds |-> [first |-> Never, last |-> Never]]

Fresh(entry) == now - entry.lastSeen < Ttl

\* prune(): drops entries from the front and stops at the first fresh one.
Prune(map) ==
    LET kept == {i \in DOMAIN map : \E j \in 1 .. i : Fresh(map[j])}
    IN  SubSeq(map, Len(map) - Cardinality(kept) + 1, Len(map))

Ids(map) == {map[i].deviceId : i \in DOMAIN map}

\* Map.delete(): there is at most one entry of d.
Without(map, d) ==
    IF d \in Ids(map) THEN RemoveAt(map, CHOOSE i \in DOMAIN map : map[i].deviceId = d) ELSE map

\* The last `MaxEntries` entries of a map.
Newest(map) == IF Len(map) > MaxEntries THEN SubSeq(map, Len(map) - MaxEntries + 1, Len(map)) ELSE map

SeenRecently(d) == observed[d].last # Never /\ now - observed[d].last < Ttl

\* Mutant of Observe: nothing is pruned first.
ObserveUnpruned(d) ==
    /\ LET others == Without(devices, d)
           first == {e.firstSeen : e \in {x \in ToSet(devices) : x.deviceId = d}}
       IN  \E f \in IF first = {} THEN {now} ELSE first :
              devices' = Newest(Append(others, [deviceId |-> d, firstSeen |-> f, lastSeen |-> now]))
    /\ observed' = [observed EXCEPT ![d] =
                       [first |-> IF SeenRecently(d) THEN @.first ELSE now, last |-> now]]
    /\ UNCHANGED now

\* observe(): the entry moves to the end and keeps the instant it was first seen.
Observe(d) ==
    /\ LET pruned == Prune(devices)
           others == Without(pruned, d)
           first == {e.firstSeen : e \in {x \in ToSet(pruned) : x.deviceId = d}}
       IN  \E f \in IF first = {} THEN {now} ELSE first :
              devices' = Newest(Append(others, [deviceId |-> d, firstSeen |-> f, lastSeen |-> now]))
    /\ observed' = [observed EXCEPT ![d] =
                       [first |-> IF SeenRecently(d) THEN @.first ELSE now, last |-> now]]
    /\ UNCHANGED now

\* list(): what it returns is Prune(devices), sorted by id.
List ==
    /\ devices' = Prune(devices)
    /\ UNCHANGED <<now, observed>>

Tick ==
    /\ now < Horizon
    /\ now' = now + 1
    /\ UNCHANGED <<devices, observed>>

Next == (\E d \in DeviceIds : Observe(d)) \/ List \/ Tick

Spec == Init /\ [][Next]_vars

-----------------------------------------------------------------------------
Listed == Ids(Prune(devices))

\* What the portal lists are the devices observed last within the TTL, no
\* older one before a younger one, up to the bound.
ListsTheMostRecent ==
    /\ Cardinality(Listed) <= MaxEntries
    /\ \A d \in Listed : SeenRecently(d)
    /\ \A d \in DeviceIds \ Listed : SeenRecently(d) =>
          /\ Cardinality(Listed) = MaxEntries
          /\ \A e \in Listed : observed[d].last <= observed[e].last

\* A listed firstSeen is never earlier than the first observation of the
\* uninterrupted series that the device is in.
FirstSeenIsHonest ==
    \A e \in ToSet(Prune(devices)) : observed[e.deviceId].first <= e.firstSeen

=============================================================================
