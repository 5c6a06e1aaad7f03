----------------------- MODULE IncomingMessagesProofs -----------------------
(***************************************************************************)
(* Proofs about the two bounded registries that every MQTT message goes    *)
(* through, for any set of devices, any bounds and any pace: what the      *)
(* portal lists, and how far equal warnings are apart.                     *)
(***************************************************************************)
EXTENDS IncomingMessages, SequenceTheorems, FiniteSetTheorems, TLAPS

-----------------------------------------------------------------------------
(* The entries of a map *)

Distinct(map) == \A i, j \in DOMAIN map : map[i].deviceId = map[j].deviceId => i = j
Sorted(map) == \A i, j \in DOMAIN map : i < j => map[i].lastSeen <= map[j].lastSeen

\* The entries are what has been observed.
Current(map) ==
    \A i \in DOMAIN map :
        LET seen == observed[map[i].deviceId]
        IN  map[i].lastSeen = seen.last /\ seen.first <= map[i].firstSeen
            /\ map[i].firstSeen <= map[i].lastSeen

\* A device seen recently has no entry only if as many as there is room for
\* have been seen since.
OldestForgotten(map) ==
    \A d \in DeviceIds \ Ids(map) : SeenRecently(d) =>
        /\ Len(map) = MaxEntries
        /\ \A i \in DOMAIN map : observed[d].last <= map[i].lastSeen

Registry(map) ==
    /\ map \in Seq(DeviceEntry)
    /\ Len(map) <= MaxEntries
    /\ Distinct(map) /\ Sorted(map) /\ Current(map) /\ OldestForgotten(map)

\* Nothing has been observed in the future.
Past ==
    /\ now \in 0 .. Horizon
    /\ observed \in [DeviceIds -> [first : Never .. Horizon, last : Never .. Horizon]]
    /\ \A d \in DeviceIds : observed[d].first <= observed[d].last /\ observed[d].last <= now

DInv == Past /\ Registry(devices)

LEMMA EntryAt ==
    ASSUME NEW map \in Seq(DeviceEntry), NEW i \in DOMAIN map
    PROVE  /\ map[i].deviceId \in DeviceIds
           /\ map[i].firstSeen \in 0 .. Horizon /\ map[i].lastSeen \in 0 .. Horizon
<1>1. map[i] \in DeviceEntry
  BY LenProperties
<1>. QED  BY <1>1 DEF DeviceEntry

LEMMA ObservedAt ==
    ASSUME Past, NEW d \in DeviceIds
    PROVE  /\ observed[d].first \in Int /\ observed[d].last \in Int
           /\ observed[d].first <= observed[d].last /\ observed[d].last <= now
           /\ now \in Int
BY DiscoveryAssumption DEF Past, Never

\* A set of indices with all those above each of them is the last ones.
LEMMA LastOnes ==
    ASSUME NEW n \in Nat, NEW K \in SUBSET (1 .. n), \A i \in K : \A j \in i .. n : j \in K
    PROVE  /\ Cardinality(K) \in 0 .. n
           /\ \A i \in 1 .. n : i \in K <=> i > n - Cardinality(K)
<1>. DEFINE m == Cardinality(K)
<1>1. IsFiniteSet(1 .. n) /\ Cardinality(1 .. n) = n
  BY FS_Interval
<1>2. m \in 0 .. n /\ IsFiniteSet(K)
  <2>1. IsFiniteSet(K) /\ m <= n
    BY <1>1, FS_Subset
  <2>. QED  BY <2>1, FS_CardinalityType
<1>. HIDE DEF m
<1>3. ASSUME NEW i \in K PROVE i > n - m
  <2>1. i \in Int /\ n \in Int /\ i <= n
    OBVIOUS
  <2>2. i .. n \in SUBSET K
    OBVIOUS
  <2>3. Cardinality(i .. n) = n - i + 1
    BY <2>1, FS_Interval
  <2>4. Cardinality(i .. n) <= m
    BY <2>2, <1>2, FS_Subset DEF m
  <2>. QED  BY <1>2, <2>1, <2>3, <2>4
<1>. DEFINE first == n - m + 1
<1>4. first \in 1 .. (n + 1)
  BY <1>2
<1>5. IsFiniteSet(first .. n) /\ Cardinality(first .. n) = m
  <2>1. n \in Int /\ first \in Int
    BY <1>4
  <2>2. IsFiniteSet(first .. n) /\ Cardinality(first .. n) = IF first > n THEN 0 ELSE n - first + 1
    BY <2>1, FS_Interval
  <2>. QED  BY <2>2, <1>2
<1>6. K \in SUBSET (first .. n)
  BY <1>3, <1>2
<1>7. K = first .. n
  BY <1>5, <1>6, FS_Subset DEF m
<1>8. \A i \in 1 .. n : i \in K <=> i > n - m
  BY <1>7, <1>2
<1>. QED  BY <1>2, <1>8 DEF m

\* prune() drops the entries before the first fresh one.
LEMMA PruneCuts ==
    ASSUME NEW map \in Seq(DeviceEntry)
    PROVE  \E k \in 0 .. Len(map) :
              /\ Prune(map) = SubSeq(map, k + 1, Len(map))
              /\ \A i \in 1 .. k : ~Fresh(map[i])
              /\ k < Len(map) => Fresh(map[k + 1])
<1>. DEFINE kept == {i \in DOMAIN map : \E j \in 1 .. i : Fresh(map[j])}
            n == Len(map)
            m == Cardinality(kept)
<1>1. n \in Nat /\ DOMAIN map = 1 .. n
  BY LenProperties
<1>2. kept \in SUBSET (1 .. n) /\ \A i \in kept : \A j \in i .. n : j \in kept
  BY <1>1
<1>3. Prune(map) = SubSeq(map, n - m + 1, n)
  BY DEF Prune
<1>4. \A i \in 1 .. n : i \in kept <=> \E j \in 1 .. i : Fresh(map[j])
  BY <1>1
<1>. HIDE DEF kept, n
<1>5. m \in 0 .. n /\ \A i \in 1 .. n : i \in kept <=> i > n - m
  BY <1>1, <1>2, LastOnes
<1>. HIDE DEF m
<1>. DEFINE k == n - m
<1>6. k \in 0 .. n /\ Prune(map) = SubSeq(map, k + 1, n)
  BY <1>1, <1>3, <1>5
<1>7. ASSUME NEW i \in 1 .. k PROVE ~Fresh(map[i])
  BY <1>1, <1>4, <1>5
<1>8. ASSUME k < n PROVE Fresh(map[k + 1])
  <2>1. k + 1 \in 1 .. n /\ k + 1 \in kept
    BY <1>1, <1>5, <1>8
  <2>2. PICK j \in 1 .. k + 1 : Fresh(map[j])
    BY <2>1, <1>4
  <2>3. j = k + 1
    BY <2>2, <1>5, <1>1, <1>7
  <2>. QED  BY <2>2, <2>3
<1>9. \E x \in 0 .. n :
         /\ Prune(map) = SubSeq(map, x + 1, n)
         /\ \A i \in 1 .. x : ~Fresh(map[i])
         /\ x < n => Fresh(map[x + 1])
  BY <1>6, <1>7, <1>8
<1>. QED  BY <1>9 DEF n

LEMMA CutEntries ==
    ASSUME NEW map \in Seq(DeviceEntry), NEW k \in 0 .. Len(map)
    PROVE  /\ SubSeq(map, k + 1, Len(map)) \in Seq(DeviceEntry)
           /\ Len(SubSeq(map, k + 1, Len(map))) = Len(map) - k
           /\ \A i \in 1 .. Len(map) - k : SubSeq(map, k + 1, Len(map))[i] = map[i + k]
<1>1. Len(map) \in Nat /\ DOMAIN map = 1 .. Len(map)
  BY LenProperties
<1>. DEFINE first == k + 1
            n == Len(map)
            cut == SubSeq(map, first, n)
<1>2. first \in Int /\ n \in Int /\ first \in 1 .. (n + 1) /\ \A j \in first .. n : map[j] \in DeviceEntry
  BY <1>1
<1>. HIDE DEF n, first
<1>3. /\ cut \in Seq(DeviceEntry)
      /\ Len(cut) = IF first <= n THEN n - first + 1 ELSE 0
      /\ \A i \in 1 .. n - first + 1 : cut[i] = map[first + i - 1]
  BY <1>2, SubSeqProperties
<1>. HIDE DEF cut
<1>4. n \in Nat /\ first = k + 1 /\ k \in 0 .. n
  BY <1>1 DEF first, n
<1>5. Len(cut) = n - k /\ \A i \in 1 .. n - k : cut[i] = map[i + k]
  <2>1. Len(cut) = n - k
    BY <1>3, <1>4
  <2>2. ASSUME NEW i \in 1 .. n - k PROVE cut[i] = map[i + k]
    <3>1. first + i - 1 = i + k /\ i \in 1 .. n - first + 1
      BY <1>4
    <3>. QED  BY <3>1, <1>3
  <2>. QED  BY <2>1, <2>2
<1>. QED  BY <1>3, <1>5 DEF cut, first, n

\* prune() loses no fresh entry, and what it leaves is fresh.
LEMMA PruneKeeps ==
    ASSUME DInv
    PROVE  /\ Registry(Prune(devices))
           /\ \A i \in DOMAIN Prune(devices) : Fresh(Prune(devices)[i])
<1>1. PICK k \in 0 .. Len(devices) :
         /\ Prune(devices) = SubSeq(devices, k + 1, Len(devices))
         /\ \A i \in 1 .. k : ~Fresh(devices[i])
         /\ k < Len(devices) => Fresh(devices[k + 1])
  BY PruneCuts DEF DInv, Registry
<1>. DEFINE map == Prune(devices)
            n == Len(devices)
<1>2. n \in Nat /\ DOMAIN devices = 1 .. n
  BY LenProperties DEF DInv, Registry
<1>3. /\ map \in Seq(DeviceEntry) /\ Len(map) = n - k /\ DOMAIN map = 1 .. n - k
      /\ \A i \in 1 .. n - k : map[i] = devices[i + k]
  BY <1>1, CutEntries, LenProperties DEF DInv, Registry
<1>. HIDE DEF map
<1>4. \A i \in DOMAIN map : i + k \in DOMAIN devices /\ map[i] = devices[i + k]
  BY <1>2, <1>3
<1>5. Distinct(map) /\ Sorted(map) /\ Current(map)
  BY <1>2, <1>3, <1>4 DEF DInv, Registry, Distinct, Sorted, Current
<1>6. ASSUME NEW i \in DOMAIN map PROVE Fresh(map[i])
  <2>1. k + 1 \in DOMAIN devices /\ Fresh(devices[k + 1])
    BY <1>1, <1>2, <1>3
  <2>2. devices[k + 1].lastSeen <= map[i].lastSeen
    <3>1. i + k \in DOMAIN devices /\ map[i] = devices[i + k] /\ i >= 1
      BY <1>3, <1>4
    <3>2. CASE i = 1
      BY <3>1, <3>2, <2>1, EntryAt DEF DInv, Registry
    <3>3. CASE i # 1
      <4>1. k + 1 < i + k
        BY <3>1, <3>3, <1>2, <1>3
      <4>. QED  BY <3>1, <4>1, <2>1 DEF DInv, Registry, Sorted
    <3>. QED  BY <3>2, <3>3
  <2>. QED
    BY <2>1, <2>2, <1>4, EntryAt, DiscoveryAssumption DEF Fresh, DInv, Registry, Past
<1>7. OldestForgotten(map)
  <2>. SUFFICES ASSUME NEW d \in DeviceIds \ Ids(map), SeenRecently(d)
                PROVE  /\ Len(map) = MaxEntries
                       /\ \A i \in DOMAIN map : observed[d].last <= map[i].lastSeen
    BY DEF OldestForgotten
  <2>1. d \notin Ids(devices)
    <3>. SUFFICES ASSUME NEW i \in DOMAIN devices, devices[i].deviceId = d PROVE FALSE
      BY DEF Ids
    <3>1. Fresh(devices[i])
      BY DEF DInv, Registry, Current, SeenRecently, Fresh
    <3>2. i - k \in DOMAIN map /\ map[i - k] = devices[i]
      BY <3>1, <1>1, <1>2, <1>3
    <3>. QED  BY <3>2 DEF Ids
  <2>2. n = MaxEntries /\ \A i \in DOMAIN devices : observed[d].last <= devices[i].lastSeen
    BY <2>1 DEF DInv, Registry, OldestForgotten
  <2>3. k = 0
    <3>. SUFFICES ASSUME k # 0 PROVE FALSE
      OBVIOUS
    <3>1. 1 \in DOMAIN devices /\ ~Fresh(devices[1])
      BY <1>1, <1>2
    <3>. QED
      BY <3>1, <2>2, ObservedAt, EntryAt, DiscoveryAssumption DEF Fresh, SeenRecently, DInv, Registry
  <2>. QED  BY <2>2, <2>3, <1>2, <1>3, <1>4
<1>8. Len(map) <= MaxEntries
  BY <1>2, <1>3, DiscoveryAssumption DEF DInv, Registry
<1>9. Registry(map) /\ \A i \in DOMAIN map : Fresh(map[i])
  BY <1>3, <1>5, <1>6, <1>7, <1>8 DEF Registry
<1>. QED  BY <1>9 DEF map

LEMMA RemoveAtFacts ==
    ASSUME NEW S, NEW s \in Seq(S), NEW i \in DOMAIN s
    PROVE  /\ RemoveAt(s, i) \in Seq(S)
           /\ Len(RemoveAt(s, i)) = Len(s) - 1
           /\ \A j \in 1 .. (Len(s) - 1) :
                 RemoveAt(s, i)[j] = IF j < i THEN s[j] ELSE s[j + 1]
<1>. DEFINE front == SubSeq(s, 1, i - 1)
            back == SubSeq(s, i + 1, Len(s))
<1>1. i \in 1 .. Len(s) /\ Len(s) \in Nat
  BY LenProperties
<1>2. /\ front \in Seq(S)
      /\ Len(front) = i - 1
      /\ \A j \in 1 .. (i - 1) : front[j] = s[j]
  BY <1>1
<1>3. /\ back \in Seq(S)
      /\ Len(back) = Len(s) - i
      /\ \A j \in 1 .. (Len(s) - i) : back[j] = s[j + i]
  BY <1>1
<1>. HIDE DEF front, back
<1>4. /\ front \o back \in Seq(S)
      /\ Len(front \o back) = Len(front) + Len(back)
      /\ \A j \in 1 .. Len(front) + Len(back) :
            (front \o back)[j] = IF j <= Len(front) THEN front[j] ELSE back[j - Len(front)]
  BY <1>2, <1>3, ConcatProperties
<1>5. Len(front \o back) = Len(s) - 1
  BY <1>1, <1>2, <1>3, <1>4
<1>6. ASSUME NEW j \in 1 .. (Len(s) - 1)
      PROVE  (front \o back)[j] = IF j < i THEN s[j] ELSE s[j + 1]
  <2>1. CASE j < i
    BY <2>1, <1>1, <1>2, <1>4, <1>5
  <2>2. CASE ~(j < i)
    <3>1. j - (i - 1) \in 1 .. (Len(s) - i) /\ ~(j <= i - 1)
      BY <2>2, <1>1
    <3>2. back[j - (i - 1)] = s[(j - (i - 1)) + i]
      BY <3>1, <1>3
    <3>3. (j - (i - 1)) + i = j + 1
      BY <1>1
    <3>. QED  BY <2>2, <3>1, <3>2, <3>3, <1>2, <1>4, <1>5
  <2>. QED  BY <2>1, <2>2
<1>7. RemoveAt(s, i) = front \o back
  BY DEF RemoveAt, front, back
<1>. QED  BY <1>4, <1>5, <1>6, <1>7

\* The entries that are left are the others, in their order.
LEMMA RemovedIndices ==
    ASSUME NEW S, NEW s \in Seq(S), NEW p \in DOMAIN s, NEW rest, rest = RemoveAt(s, p)
    PROVE  \E at \in [DOMAIN rest -> DOMAIN s \ {p}] :
              /\ \A i \in DOMAIN rest : rest[i] = s[at[i]]
              /\ \A i, j \in DOMAIN rest : (i < j => at[i] < at[j]) /\ (at[i] = at[j] => i = j)
              /\ \A j \in DOMAIN s \ {p} : \E i \in DOMAIN rest : at[i] = j
<1>. DEFINE n == Len(s)
            at == [i \in DOMAIN rest |-> IF i < p THEN i ELSE i + 1]
<1>1. n \in Nat /\ DOMAIN s = 1 .. n
  BY LenProperties
<1>2. /\ rest \in Seq(S) /\ Len(rest) = n - 1
      /\ \A i \in 1 .. (n - 1) : rest[i] = IF i < p THEN s[i] ELSE s[i + 1]
  BY RemoveAtFacts
<1>3. DOMAIN rest = 1 .. (n - 1) /\ p \in 1 .. n
  BY <1>1, <1>2, LenProperties
<1>4. at \in [DOMAIN rest -> DOMAIN s \ {p}] /\ \A i \in DOMAIN rest : rest[i] = s[at[i]]
  BY <1>1, <1>2, <1>3
<1>5. \A i, j \in DOMAIN rest : (i < j => at[i] < at[j]) /\ (at[i] = at[j] => i = j)
  BY <1>1, <1>3
<1>6. ASSUME NEW j \in DOMAIN s \ {p} PROVE \E i \in DOMAIN rest : at[i] = j
  <2>1. CASE j < p
    <3>1. j \in DOMAIN rest /\ at[j] = j
      BY <2>1, <1>1, <1>3
    <3>. QED  BY <3>1
  <2>2. CASE j > p
    <3>1. j - 1 \in DOMAIN rest /\ at[j - 1] = j
      BY <2>2, <1>1, <1>3
    <3>. QED  BY <3>1
  <2>. QED  BY <2>1, <2>2, <1>1, <1>3
<1>. HIDE DEF at
<1>. QED  BY <1>4, <1>5, <1>6

\* The map without the entry of d: the others, in their order.
LEMMA WithoutKeeps ==
    ASSUME NEW map \in Seq(DeviceEntry), Distinct(map), Sorted(map), NEW d
    PROVE  LET rest == Without(map, d)
           IN  /\ rest \in Seq(DeviceEntry) /\ Distinct(rest) /\ Sorted(rest)
               /\ Len(rest) = IF d \in Ids(map) THEN Len(map) - 1 ELSE Len(map)
               /\ \A i \in DOMAIN rest :
                     rest[i].deviceId # d /\ \E j \in DOMAIN map : rest[i] = map[j]
               /\ Ids(map) \subseteq Ids(rest) \cup {d}
<1>. DEFINE rest == Without(map, d)
            n == Len(map)
<1>1. n \in Nat /\ DOMAIN map = 1 .. n
  BY LenProperties
<1>2. CASE d \notin Ids(map)
  <2>1. rest = map /\ \A i \in DOMAIN rest : rest[i].deviceId # d
    BY <1>2 DEF Without, Ids
  <2>. QED  BY <2>1, <1>2
<1>3. CASE d \in Ids(map)
  <2>1. PICK p \in DOMAIN map : map[p].deviceId = d /\ rest = RemoveAt(map, p)
    BY <1>3 DEF Ids, Without
  <2>. HIDE DEF rest
  <2>2. rest \in Seq(DeviceEntry) /\ Len(rest) = n - 1
    BY <2>1, RemoveAtFacts
  <2>3. PICK at \in [DOMAIN rest -> DOMAIN map \ {p}] :
           /\ \A i \in DOMAIN rest : rest[i] = map[at[i]]
           /\ \A i, j \in DOMAIN rest : (i < j => at[i] < at[j]) /\ (at[i] = at[j] => i = j)
           /\ \A j \in DOMAIN map \ {p} : \E i \in DOMAIN rest : at[i] = j
    BY <2>1, RemovedIndices
  <2>7. Distinct(rest) /\ Sorted(rest)
    BY <2>3 DEF Distinct, Sorted
  <2>8. \A i \in DOMAIN rest : rest[i].deviceId # d /\ \E j \in DOMAIN map : rest[i] = map[j]
    BY <2>1, <2>3 DEF Distinct
  <2>9. Ids(map) \subseteq Ids(rest) \cup {d}
    <3>. SUFFICES ASSUME NEW j \in DOMAIN map, map[j].deviceId # d PROVE map[j].deviceId \in Ids(rest)
      BY DEF Ids
    <3>1. PICK i \in DOMAIN rest : rest[i] = map[j]
      BY <2>1, <2>3
    <3>. QED  BY <3>1 DEF Ids
  <2>. QED  BY <1>3, <2>2, <2>7, <2>8, <2>9 DEF rest
<1>. QED  BY <1>2, <1>3

\* An entry that is appended and is the youngest, and what is evicted for it.
LEMMA NewestKeeps ==
    ASSUME NEW map \in Seq(DeviceEntry), Distinct(map), Sorted(map), Len(map) <= MaxEntries,
           NEW entry \in DeviceEntry,
           \A i \in DOMAIN map : map[i].deviceId # entry.deviceId /\ map[i].lastSeen <= entry.lastSeen
    PROVE  LET new == Newest(Append(map, entry))
           IN  /\ new \in Seq(DeviceEntry) /\ Distinct(new) /\ Sorted(new)
               /\ Len(new) = IF Len(map) = MaxEntries THEN MaxEntries ELSE Len(map) + 1
               /\ entry.deviceId \in Ids(new)
               /\ \A i \in DOMAIN new : new[i] = entry \/ \E j \in DOMAIN map : new[i] = map[j]
               /\ Ids(map) \subseteq Ids(new)
                  \/ /\ Len(new) = MaxEntries
                     /\ Ids(map) \subseteq Ids(new) \cup {map[1].deviceId}
                     /\ 1 \in DOMAIN map /\ \A i \in DOMAIN new : map[1].lastSeen <= new[i].lastSeen
<1>. DEFINE long == Append(map, entry)
            new == Newest(long)
            n == Len(map)
<1>1. n \in Nat /\ DOMAIN map = 1 .. n
  BY LenProperties
<1>2. /\ long \in Seq(DeviceEntry) /\ Len(long) = n + 1
      /\ \A i \in 1 .. n : long[i] = map[i]
      /\ long[n + 1] = entry
  BY AppendProperties
<1>3. DOMAIN long = 1 .. (n + 1)
  BY <1>2, LenProperties
<1>. HIDE DEF long
<1>4. \A i \in DOMAIN long : i = n + 1 \/ i \in DOMAIN map
  BY <1>1, <1>3
<1>5. Distinct(long)
  BY <1>1, <1>2, <1>4 DEF Distinct
<1>6. Sorted(long)
  <2>. SUFFICES ASSUME NEW i \in DOMAIN long, NEW j \in DOMAIN long, i < j
                PROVE  long[i].lastSeen <= long[j].lastSeen
    BY DEF Sorted
  <2>1. i \in DOMAIN map
    BY <1>1, <1>3
  <2>2. CASE j \in DOMAIN map
    BY <1>1, <1>2, <2>1, <2>2 DEF Sorted
  <2>3. CASE j = n + 1
    BY <1>1, <1>2, <2>1, <2>3
  <2>. QED  BY <1>4, <2>2, <2>3
<1>7. CASE n # MaxEntries
  <2>1. new = long
    <3>1. n <= MaxEntries /\ MaxEntries \in Nat
      BY DiscoveryAssumption
    <3>2. ~(n + 1 > MaxEntries)
      <4>. HIDE DEF n
      <4>. QED  BY <3>1, <1>1, <1>7
    <3>3. ~(Len(long) > MaxEntries)
      BY <3>2, <1>2
    <3>. QED  BY <3>3 DEF Newest
  <2>2. entry.deviceId \in Ids(new) /\ Ids(map) \subseteq Ids(new)
    BY <2>1, <1>1, <1>2, <1>3 DEF Ids
  <2>3. \A i \in DOMAIN new : new[i] = entry \/ \E j \in DOMAIN map : new[i] = map[j]
    BY <2>1, <1>1, <1>2, <1>4
  <2>. HIDE DEF new
  <2>4. /\ new \in Seq(DeviceEntry) /\ Distinct(new) /\ Sorted(new)
        /\ Len(new) = IF Len(map) = MaxEntries THEN MaxEntries ELSE Len(map) + 1
    BY <2>1, <1>2, <1>5, <1>6, <1>7
  <2>. QED  BY <2>2, <2>3, <2>4 DEF new, long
<1>8. CASE n = MaxEntries
  <2>1. n > 0 /\ new = SubSeq(long, 1 + 1, n + 1)
    <3>1. Len(long) > MaxEntries /\ Len(long) - MaxEntries + 1 = 1 + 1
      BY <1>1, <1>2, <1>8
    <3>. QED  BY <3>1, <1>1, <1>2, <1>8, DiscoveryAssumption DEF Newest
  <2>. HIDE DEF new
  <2>2. new \in Seq(DeviceEntry) /\ Len(new) = n /\ \A i \in 1 .. n : new[i] = long[i + 1]
    <3>1. 1 \in 0 .. Len(long)
      BY <1>1, <1>2
    <3>2. /\ SubSeq(long, 1 + 1, Len(long)) \in Seq(DeviceEntry)
          /\ Len(SubSeq(long, 1 + 1, Len(long))) = Len(long) - 1
          /\ \A i \in 1 .. Len(long) - 1 : SubSeq(long, 1 + 1, Len(long))[i] = long[i + 1]
      BY <3>1, <1>2, CutEntries
    <3>. QED  BY <3>2, <2>1, <1>1, <1>2
  <2>3. DOMAIN new = 1 .. n
    BY <2>2, LenProperties
  <2>4. \A i \in DOMAIN new : i + 1 \in DOMAIN long /\ new[i] = long[i + 1]
    BY <1>1, <1>3, <2>2, <2>3
  <2>5. Distinct(new) /\ Sorted(new)
    BY <1>1, <1>5, <1>6, <2>3, <2>4 DEF Distinct, Sorted
  <2>6. entry.deviceId \in Ids(new)
    <3>1. n \in DOMAIN new /\ new[n] = entry
      BY <1>1, <1>2, <2>1, <2>2, <2>3
    <3>. QED  BY <3>1 DEF Ids
  <2>7. \A i \in DOMAIN new : new[i] = entry \/ \E j \in DOMAIN map : new[i] = map[j]
    BY <1>2, <1>1, <1>4, <2>4
  <2>8. Ids(map) \subseteq Ids(new) \cup {map[1].deviceId}
    <3>. SUFFICES ASSUME NEW j \in DOMAIN map, j # 1 PROVE map[j].deviceId \in Ids(new)
      BY DEF Ids
    <3>1. j - 1 \in DOMAIN new /\ (j - 1) + 1 = j
      BY <1>1, <2>3
    <3>2. new[j - 1] = map[j]
      BY <3>1, <2>4, <1>1, <1>2
    <3>. QED  BY <3>1, <3>2 DEF Ids
  <2>9. 1 \in DOMAIN map /\ \A i \in DOMAIN new : map[1].lastSeen <= new[i].lastSeen
    <3>1. 1 \in DOMAIN map /\ 1 \in DOMAIN long /\ long[1] = map[1]
      BY <1>1, <1>2, <1>3, <2>1
    <3>2. \A i \in DOMAIN new : 1 < i + 1
      BY <2>3, <1>1
    <3>. QED  BY <3>1, <3>2, <1>6, <2>4 DEF Sorted
  <2>. QED  BY <1>8, <2>2, <2>5, <2>6, <2>7, <2>8, <2>9 DEF new, long
<1>. QED  BY <1>7, <1>8

-----------------------------------------------------------------------------
(* The steps of the registry *)

\* The instant that observe() records as the first.
LEMMA FirstSeen ==
    ASSUME DInv, NEW map, Registry(map), \A i \in DOMAIN map : Fresh(map[i]),
           NEW d \in DeviceIds,
           NEW f \in (LET first == {e.firstSeen : e \in {x \in ToSet(map) : x.deviceId = d}}
                      IN  IF first = {} THEN {now} ELSE first)
    PROVE  /\ f \in 0 .. Horizon /\ f <= now
           /\ (IF SeenRecently(d) THEN observed[d].first ELSE now) <= f
<1>1. observed[d].first <= now /\ now \in 0 .. Horizon /\ observed[d].first \in Int
  BY ObservedAt DEF DInv, Past
<1>2. CASE \E i \in DOMAIN map : map[i].deviceId = d
  <2>1. PICK i \in DOMAIN map : map[i].deviceId = d /\ f = map[i].firstSeen
    BY <1>2 DEF ToSet
  <2>2. /\ observed[d].last = map[i].lastSeen /\ observed[d].first <= f
        /\ f <= map[i].lastSeen /\ f \in 0 .. Horizon /\ map[i].lastSeen \in 0 .. Horizon
    BY <2>1, EntryAt DEF Registry, Current
  <2>3. SeenRecently(d)
    BY <2>1, <2>2 DEF SeenRecently, Fresh, Never
  <2>. QED  BY <2>2, <2>3, ObservedAt, <1>1 DEF DInv
<1>3. CASE ~\E i \in DOMAIN map : map[i].deviceId = d
  <2>1. f = now
    BY <1>3 DEF ToSet
  <2>. QED  BY <2>1, <1>1, DiscoveryAssumption
<1>. QED  BY <1>2, <1>3

LEMMA ObserveKeeps == ASSUME DInv, NEW d \in DeviceIds, Observe(d) PROVE DInv'
<1>. DEFINE pruned == Prune(devices)
            others == Without(pruned, d)
<1>1. Registry(pruned) /\ \A i \in DOMAIN pruned : Fresh(pruned[i])
  BY PruneKeeps
<1>2. PICK f \in (LET first == {e.firstSeen : e \in {x \in ToSet(pruned) : x.deviceId = d}}
                  IN  IF first = {} THEN {now} ELSE first) :
         devices' = Newest(Append(others, [deviceId |-> d, firstSeen |-> f, lastSeen |-> now]))
  BY DEF Observe
<1>3. /\ now' = now
      /\ observed' = [observed EXCEPT ![d] =
                        [first |-> IF SeenRecently(d) THEN @.first ELSE now, last |-> now]]
  BY DEF Observe
<1>. HIDE DEF pruned
<1>4. /\ f \in 0 .. Horizon /\ f <= now
      /\ (IF SeenRecently(d) THEN observed[d].first ELSE now) <= f
  BY <1>1, <1>2, FirstSeen
<1>. DEFINE entry == [deviceId |-> d, firstSeen |-> f, lastSeen |-> now]
<1>5. entry \in DeviceEntry /\ now \in 0 .. Horizon
  BY <1>4 DEF DeviceEntry, DInv, Past
<1>6. entry.deviceId = d /\ entry.firstSeen = f /\ entry.lastSeen = now
  OBVIOUS
<1>7. devices' = Newest(Append(others, entry))
  BY <1>2
<1>. HIDE DEF entry, others
<1>8. /\ others \in Seq(DeviceEntry) /\ Distinct(others) /\ Sorted(others)
      /\ Len(others) = IF d \in Ids(pruned) THEN Len(pruned) - 1 ELSE Len(pruned)
      /\ \A i \in DOMAIN others : others[i].deviceId # d /\ \E j \in DOMAIN pruned : others[i] = pruned[j]
      /\ Ids(pruned) \subseteq Ids(others) \cup {d}
  BY <1>1, WithoutKeeps DEF Registry, others
<1>9. /\ Len(pruned) \in Nat /\ Len(others) \in Nat /\ Len(others) <= MaxEntries
      /\ Len(others) = MaxEntries => d \notin Ids(pruned)
  BY <1>1, <1>8, LenProperties, DiscoveryAssumption DEF Registry
<1>10. \A i \in DOMAIN others : others[i].lastSeen <= now
  <2>. SUFFICES ASSUME NEW i \in DOMAIN others PROVE others[i].lastSeen <= now
    OBVIOUS
  <2>1. PICK j \in DOMAIN pruned : others[i] = pruned[j]
    BY <1>8
  <2>. QED  BY <2>1, <1>1, EntryAt, ObservedAt DEF Registry, Current, DInv
<1>11. /\ devices' \in Seq(DeviceEntry) /\ Distinct(devices') /\ Sorted(devices')
       /\ Len(devices') = IF Len(others) = MaxEntries THEN MaxEntries ELSE Len(others) + 1
       /\ d \in Ids(devices')
       /\ \A i \in DOMAIN devices' : devices'[i] = entry \/ \E j \in DOMAIN others : devices'[i] = others[j]
       /\ Ids(others) \subseteq Ids(devices')
          \/ /\ Len(devices') = MaxEntries
             /\ Ids(others) \subseteq Ids(devices') \cup {others[1].deviceId}
             /\ 1 \in DOMAIN others /\ \A i \in DOMAIN devices' : others[1].lastSeen <= devices'[i].lastSeen
  <2>. DEFINE new == Newest(Append(others, entry))
  <2>1. Len(others) <= MaxEntries
        /\ \A i \in DOMAIN others : others[i].deviceId # entry.deviceId /\ others[i].lastSeen <= entry.lastSeen
    BY <1>6, <1>8, <1>9, <1>10
  <2>2. /\ new \in Seq(DeviceEntry) /\ Distinct(new) /\ Sorted(new)
        /\ Len(new) = IF Len(others) = MaxEntries THEN MaxEntries ELSE Len(others) + 1
        /\ entry.deviceId \in Ids(new)
        /\ \A i \in DOMAIN new : new[i] = entry \/ \E j \in DOMAIN others : new[i] = others[j]
        /\ Ids(others) \subseteq Ids(new)
           \/ /\ Len(new) = MaxEntries
              /\ Ids(others) \subseteq Ids(new) \cup {others[1].deviceId}
              /\ 1 \in DOMAIN others /\ \A i \in DOMAIN new : others[1].lastSeen <= new[i].lastSeen
    BY <2>1, <1>5, <1>8, NewestKeeps
  <2>. HIDE DEF new
  <2>3. devices' = new
    BY <1>7 DEF new
  <2>. QED  BY <2>2, <2>3, <1>6
<1>12. \A c \in DeviceIds \ {d} : observed'[c] = observed[c]
  BY <1>3 DEF DInv, Past
<1>13. observed'[d].first <= f /\ observed'[d].last = now /\ observed'[d].first <= now
  BY <1>3, <1>4, ObservedAt DEF DInv, Past
<1>14. Past'
  <2>1. observed' \in [DeviceIds -> [first : Never .. Horizon, last : Never .. Horizon]]
    BY <1>3, <1>5, ObservedAt DEF DInv, Past, Never
  <2>2. \A c \in DeviceIds : observed'[c].first <= observed'[c].last /\ observed'[c].last <= now
    BY <1>5, <1>12, <1>13, ObservedAt, DiscoveryAssumption DEF DInv, Past
  <2>. QED  BY <2>1, <2>2, <1>3 DEF DInv, Past
<1>15. Current(devices)'
  <2>. SUFFICES ASSUME NEW i \in DOMAIN devices'
                PROVE  /\ devices'[i].lastSeen = observed'[devices'[i].deviceId].last
                       /\ observed'[devices'[i].deviceId].first <= devices'[i].firstSeen
                       /\ devices'[i].firstSeen <= devices'[i].lastSeen
    BY DEF Current
  <2>1. CASE devices'[i] = entry
    BY <2>1, <1>4, <1>6, <1>13
  <2>2. CASE \E j \in DOMAIN others : devices'[i] = others[j]
    <3>1. PICK j \in DOMAIN pruned : devices'[i] = pruned[j] /\ pruned[j].deviceId # d
      BY <2>2, <1>8
    <3>2. pruned[j].deviceId \in DeviceIds
      BY <1>1, EntryAt DEF Registry
    <3>. QED  BY <3>1, <3>2, <1>1, <1>12 DEF Registry, Current
  <2>. QED  BY <2>1, <2>2, <1>11
<1>16. OldestForgotten(devices)'
  <2>. SUFFICES ASSUME NEW c \in DeviceIds \ Ids(devices'), SeenRecently(c)'
                PROVE  /\ Len(devices') = MaxEntries
                       /\ \A i \in DOMAIN devices' : observed'[c].last <= devices'[i].lastSeen
    BY DEF OldestForgotten, Ids
  <2>1. c # d /\ SeenRecently(c) /\ observed'[c] = observed[c]
    BY <1>3, <1>11, <1>12 DEF SeenRecently
  <2>2. CASE c \in Ids(others)
    <3>1. c = others[1].deviceId /\ 1 \in DOMAIN others /\ Len(devices') = MaxEntries
          /\ \A i \in DOMAIN devices' : others[1].lastSeen <= devices'[i].lastSeen
      BY <2>2, <1>11
    <3>2. others[1].lastSeen = observed[c].last
      BY <3>1, <1>1, <1>8 DEF Registry, Current
    <3>. QED  BY <3>1, <3>2, <2>1
  <2>3. CASE c \notin Ids(others)
    <3>1. c \notin Ids(pruned)
      BY <2>1, <2>3, <1>8
    <3>2. Len(pruned) = MaxEntries /\ \A j \in DOMAIN pruned : observed[c].last <= pruned[j].lastSeen
      BY <3>1, <2>1, <1>1 DEF Registry, OldestForgotten
    <3>3. Len(devices') = MaxEntries
      BY <3>2, <1>8, <1>11, DiscoveryAssumption
    <3>4. \A i \in DOMAIN devices' : observed[c].last <= devices'[i].lastSeen
      <4>. SUFFICES ASSUME NEW i \in DOMAIN devices' PROVE observed[c].last <= devices'[i].lastSeen
        OBVIOUS
      <4>1. CASE devices'[i] = entry
        BY <4>1, <1>6, ObservedAt DEF DInv
      <4>2. CASE \E j \in DOMAIN others : devices'[i] = others[j]
        BY <4>2, <3>2, <1>8
      <4>. QED  BY <4>1, <4>2, <1>11
    <3>. QED  BY <3>3, <3>4, <2>1
  <2>. QED  BY <2>2, <2>3
<1>17. Len(devices') <= MaxEntries
  BY <1>9, <1>11, DiscoveryAssumption
<1>. QED  BY <1>11, <1>14, <1>15, <1>16, <1>17 DEF DInv, Registry, Distinct, Sorted

LEMMA ListKeeps == ASSUME DInv, List PROVE DInv'
<1>. DEFINE map == Prune(devices)
<1>1. Registry(map) /\ devices' = map /\ UNCHANGED <<now, observed>>
  BY PruneKeeps DEF List
<1>. HIDE DEF map
<1>. QED
  BY <1>1 DEF DInv, Past, Registry, Distinct, Sorted, Current, OldestForgotten, SeenRecently, Ids

LEMMA TickKeeps == ASSUME DInv, Tick PROVE DInv'
<1>1. now < Horizon /\ now' = now + 1 /\ UNCHANGED <<devices, observed>>
  BY DEF Tick
<1>2. Past'
  BY <1>1, ObservedAt, DiscoveryAssumption DEF DInv, Past
<1>3. \A d \in DeviceIds : SeenRecently(d)' => SeenRecently(d)
  BY <1>1, ObservedAt, DiscoveryAssumption DEF SeenRecently, DInv
<1>4. OldestForgotten(devices)'
  BY <1>1, <1>3 DEF DInv, Registry, OldestForgotten, Ids
<1>. QED  BY <1>1, <1>2, <1>4 DEF DInv, Registry, Distinct, Sorted, Current

LEMMA DInvInit == Init => DInv
<1>. SUFFICES ASSUME Init PROVE DInv
  OBVIOUS
<1>1. devices = <<>> /\ DOMAIN devices = {} /\ Len(devices) = 0 /\ devices \in Seq(DeviceEntry)
  BY DEF Init
<1>2. Past
  BY DiscoveryAssumption DEF Init, Past, Never
<1>3. \A d \in DeviceIds : ~SeenRecently(d)
  BY DEF Init, SeenRecently
<1>. QED
  BY <1>1, <1>2, <1>3, DiscoveryAssumption DEF DInv, Registry, Distinct, Sorted, Current, OldestForgotten

\* Every message observes its sender, whatever becomes of it.
LEMMA Discovery == InSpec => []DInv
<1>1. DInv /\ [InNext]_incomingVars => DInv'
  <2>. SUFFICES ASSUME DInv, [InNext]_incomingVars PROVE DInv'
    OBVIOUS
  <2>1. CASE UNCHANGED incomingVars
    BY <2>1 DEF incomingVars, vars, DInv, Past, Registry, Distinct, Sorted, Current, OldestForgotten,
                SeenRecently, Ids
  <2>. QED
    BY <2>1, ObserveKeeps, ListKeeps, TickKeeps DEF InNext, Accepted, Rejected
<1>2. InInit => DInv
  BY DInvInit DEF InInit
<1>. QED  BY <1>1, <1>2, PTL DEF InSpec

\* Entries of different devices are as many as devices.
LEMMA IdsCount ==
    ASSUME NEW map \in Seq(DeviceEntry), Distinct(map)
    PROVE  Cardinality(Ids(map)) = Len(map)
<1>. DEFINE f == [i \in 1 .. Len(map) |-> map[i].deviceId]
<1>1. Len(map) \in Nat /\ DOMAIN map = 1 .. Len(map)
  BY LenProperties
<1>2. f \in Bijection(1 .. Len(map), Ids(map))
  BY <1>1 DEF Bijection, Injection, Surjection, IsInjective, Ids, Distinct
<1>3. ExistsBijection(1 .. Len(map), Ids(map))
  BY <1>2 DEF ExistsBijection
<1>. QED  BY <1>1, <1>3, FS_CountingElements

\* What the portal lists are the most recent observations within the TTL, up to
\* the bound (observe(), prune() and list() of deviceDiscovery.js).
THEOREM ListIsRecent == InSpec => []ListsTheMostRecent
<1>1. DInv => ListsTheMostRecent
  <2>. SUFFICES ASSUME DInv PROVE ListsTheMostRecent
    OBVIOUS
  <2>. DEFINE map == Prune(devices)
  <2>1. Registry(map) /\ \A i \in DOMAIN map : Fresh(map[i])
    BY PruneKeeps
  <2>2. Listed = Ids(map)
    BY DEF Listed
  <2>. HIDE DEF map
  <2>3. Cardinality(Listed) = Len(map) /\ Len(map) <= MaxEntries
    BY <2>1, <2>2, IdsCount DEF Registry
  <2>4. ASSUME NEW d \in Listed PROVE SeenRecently(d)
    <3>1. PICK i \in DOMAIN map : map[i].deviceId = d
      BY <2>2 DEF Ids
    <3>. QED
      BY <3>1, <2>1, EntryAt DEF Registry, Current, Fresh, SeenRecently, Never
  <2>5. ASSUME NEW d \in DeviceIds \ Listed, SeenRecently(d), NEW e \in Listed
        PROVE  observed[d].last <= observed[e].last
    BY <2>1, <2>2, <2>5 DEF Registry, Current, OldestForgotten, Ids
  <2>6. ASSUME NEW d \in DeviceIds \ Listed, SeenRecently(d) PROVE Cardinality(Listed) = MaxEntries
    BY <2>1, <2>2, <2>3, <2>6 DEF Registry, OldestForgotten
  <2>. QED  BY <2>3, <2>4, <2>5, <2>6 DEF ListsTheMostRecent
<1>. QED  BY Discovery, <1>1, PTL

\* A listed firstSeen does not go back to before an interruption of the device,
\* nor before its first observation: observe() prunes before it looks up.
THEOREM FirstSeenHonest == InSpec => []FirstSeenIsHonest
<1>1. DInv => FirstSeenIsHonest
  <2>. SUFFICES ASSUME DInv PROVE FirstSeenIsHonest
    OBVIOUS
  <2>1. Registry(Prune(devices))
    BY PruneKeeps
  <2>. QED  BY <2>1 DEF Registry, Current, FirstSeenIsHonest, ToSet
<1>. QED  BY Discovery, <1>1, PTL

-----------------------------------------------------------------------------
(* The warnings remembered *)

Warning == [key : DeviceIds, at : 0 .. Horizon]

Keys(map) == {map[i].key : i \in DOMAIN map}

\* One entry for a key, in the order of their instants.
InOrder(map) ==
    /\ \A i, j \in DOMAIN map : map[i].key = map[j].key => i = j
    /\ \A i, j \in DOMAIN map : i < j => map[i].at <= map[j].at

\* The other keys that have been logged since k was.
LoggedSince(k) == {j \in DeviceIds \ {k} : logged[j] >= logged[k]}

LogTypes ==
    /\ now \in 0 .. Horizon
    /\ logged \in [DeviceIds -> Never .. Horizon]
    /\ \A k \in DeviceIds : logged[k] <= now
    /\ IsFiniteSet({k \in DeviceIds : logged[k] # Never})

\* A key logged and forgotten has been pushed out by others.
Remembering ==
    /\ lastLoggedByKey \in Seq(Warning) /\ Len(lastLoggedByKey) <= MaxWarnings
    /\ InOrder(lastLoggedByKey)
    /\ \A i \in DOMAIN lastLoggedByKey : lastLoggedByKey[i].at = logged[lastLoggedByKey[i].key]
    /\ \A k \in DeviceIds \ Keys(lastLoggedByKey) :
          logged[k] # Never => Cardinality(LoggedSince(k)) >= MaxWarnings

WInv == LogTypes /\ Remembering

LEMMA SameOperators ==
    /\ \A S : Limiter!Cardinality(S) = Cardinality(S)
    /\ \A s, i : Limiter!RemoveAt(s, i) = RemoveAt(s, i)
    /\ \A s : Limiter!ToSet(s) = ToSet(s)
BY DEF Limiter!Cardinality, Cardinality, Limiter!RemoveAt, RemoveAt, Limiter!ToSet, ToSet

LEMMA TailRemoves ==
    ASSUME NEW S, NEW s \in Seq(S), s # <<>>
    PROVE  Tail(s) = RemoveAt(s, 1)
<1>1. Tail(s) = SubSeq(s, 2, Len(s)) /\ Tail(s) \in Seq(S)
  BY TailIsSubSeq, HeadTailProperties
<1>2. SubSeq(s, 1, 1 - 1) = <<>> /\ 1 + 1 = 2
  BY SubSeqEmpty
<1>3. <<>> \o Tail(s) = Tail(s)
  BY <1>1, ConcatEmptySeq
<1>. QED  BY <1>1, <1>2, <1>3 DEF RemoveAt

LEMMA KeysCount ==
    ASSUME NEW map \in Seq(Warning), InOrder(map)
    PROVE  IsFiniteSet(Keys(map)) /\ Cardinality(Keys(map)) = Len(map)
<1>. DEFINE f == [i \in 1 .. Len(map) |-> map[i].key]
<1>1. Len(map) \in Nat /\ DOMAIN map = 1 .. Len(map)
  BY LenProperties
<1>2. f \in Bijection(1 .. Len(map), Keys(map))
  BY <1>1 DEF Bijection, Injection, Surjection, IsInjective, Keys, InOrder
<1>3. ExistsBijection(1 .. Len(map), Keys(map))
  BY <1>2 DEF ExistsBijection
<1>. QED  BY <1>1, <1>3, FS_CountingElements, FS_NatBijection

LEMMA WarningAt ==
    ASSUME NEW map \in Seq(Warning), NEW i \in DOMAIN map
    PROVE  map[i].key \in DeviceIds /\ map[i].at \in 0 .. Horizon
<1>1. map[i] \in Warning
  BY LenProperties
<1>. QED  BY <1>1 DEF Warning

\* The room that is made for k: at most one entry goes, that of k or, when the
\* map is full, the first.
LEMMA Room ==
    ASSUME WInv, NEW k \in DeviceIds
    PROVE  LET map == lastLoggedByKey
               room == Limiter!RoomFor(k)
           IN  /\ room \in Seq(Warning) /\ InOrder(room)
               /\ Len(room) < MaxWarnings
               /\ k \notin Keys(room)
               /\ \A i \in DOMAIN room : \E j \in DOMAIN map : room[i] = map[j]
               /\ Keys(map) \subseteq Keys(room) \cup {k}
                  \/ /\ Len(room) = MaxWarnings - 1 /\ 1 \in DOMAIN map
                     /\ Keys(map) \subseteq Keys(room) \cup {map[1].key}
                     /\ map[1].key \notin Keys(room)
<1>. DEFINE map == lastLoggedByKey
            room == Limiter!RoomFor(k)
            n == Len(map)
<1>1. /\ map \in Seq(Warning) /\ n \in Nat /\ DOMAIN map = 1 .. n /\ n <= MaxWarnings
      /\ MaxWarnings \in Nat \ {0} /\ InOrder(map)
  BY LenProperties, IncomingAssumption DEF WInv, Remembering
<1>2. Limiter!Remembered = Keys(map)
  BY DEF Limiter!Remembered, Keys
<1>3. CASE k \notin Keys(map) /\ ~(n >= MaxWarnings)
  <2>1. room = map
    BY <1>2, <1>3 DEF Limiter!RoomFor
  <2>. HIDE DEF room
  <2>2. n < MaxWarnings
    BY <1>1, <1>3
  <2>. QED  BY <2>1, <2>2, <1>1, <1>3 DEF room
<1>4. CASE k \in Keys(map) \/ n >= MaxWarnings
  <2>1. PICK p \in DOMAIN map :
           /\ room = RemoveAt(map, p)
           /\ map[p].key = k \/ (p = 1 /\ n = MaxWarnings /\ k \notin Keys(map))
    <3>1. CASE k \in Keys(map)
      BY <3>1, <1>2, SameOperators DEF Limiter!RoomFor, Keys
    <3>2. CASE k \notin Keys(map)
      <4>1. n = MaxWarnings /\ 1 \in DOMAIN map
        <5>1. n >= MaxWarnings
          BY <1>4, <3>2
        <5>. HIDE DEF n
        <5>2. n = MaxWarnings /\ 1 \in 1 .. n
          BY <5>1, <1>1
        <5>. QED  BY <5>2, <1>1
      <4>2. map # <<>>
        BY <4>1
      <4>3. room = Tail(map)
        BY <1>2, <1>4, <3>2 DEF Limiter!RoomFor
      <4>. QED  BY <1>1, <3>2, <4>1, <4>2, <4>3, TailRemoves
    <3>. QED  BY <3>1, <3>2
  <2>. HIDE DEF room, map
  <2>2. room \in Seq(Warning) /\ Len(room) = n - 1
    BY <1>1, <2>1, RemoveAtFacts
  <2>3. PICK at \in [DOMAIN room -> DOMAIN map \ {p}] :
           /\ \A i \in DOMAIN room : room[i] = map[at[i]]
           /\ \A i, j \in DOMAIN room : (i < j => at[i] < at[j]) /\ (at[i] = at[j] => i = j)
           /\ \A j \in DOMAIN map \ {p} : \E i \in DOMAIN room : at[i] = j
    <3>1. map \in Seq(Warning) /\ p \in DOMAIN map /\ room = RemoveAt(map, p)
      BY <1>1, <2>1
    <3>. QED  BY <3>1, RemovedIndices
  <2>4. InOrder(room) /\ \A i \in DOMAIN room : \E j \in DOMAIN map : room[i] = map[j]
    BY <2>3, <1>1 DEF InOrder
  <2>5. k \notin Keys(room) /\ map[p].key \notin Keys(room)
    <3>1. \A i \in DOMAIN room : room[i] = map[at[i]] /\ at[i] \in DOMAIN map /\ at[i] # p
      BY <2>3
    <3>2. map[p].key \notin Keys(room)
      BY <3>1, <2>1, <1>1 DEF InOrder, Keys
    <3>3. Keys(room) \subseteq Keys(map)
      BY <3>1 DEF Keys
    <3>. QED  BY <3>2, <3>3, <2>1
  <2>6. Keys(map) \subseteq Keys(room) \cup {map[p].key}
    <3>. SUFFICES ASSUME NEW j \in DOMAIN map \ {p} PROVE map[j].key \in Keys(room)
      BY DEF Keys
    <3>1. PICK i \in DOMAIN room : room[i] = map[j]
      BY <2>3
    <3>. QED  BY <3>1 DEF Keys
  <2>7. Len(room) < MaxWarnings /\ (n = MaxWarnings => Len(room) = MaxWarnings - 1)
    <3>. HIDE DEF n
    <3>. QED  BY <1>1, <2>2
  <2>. QED  BY <2>1, <2>2, <2>4, <2>5, <2>6, <2>7 DEF room, map
<1>. QED  BY <1>3, <1>4

-----------------------------------------------------------------------------
(* The steps of the limiter *)

\* A key that the limiter remembers as logged within the interval has been.
LEMMA RecentIsLogged ==
    ASSUME WInv, NEW k \in DeviceIds, k \in Keys(lastLoggedByKey), now - logged[k] < WarningInterval
    PROVE  Limiter!Recent(k)
<1>1. PICK i \in DOMAIN lastLoggedByKey : lastLoggedByKey[i].key = k
  BY DEF Keys
<1>2. lastLoggedByKey[i].at = logged[k] /\ lastLoggedByKey[i] \in ToSet(lastLoggedByKey)
  BY <1>1 DEF WInv, Remembering, ToSet
<1>. QED  BY <1>1, <1>2, SameOperators DEF Limiter!Recent

LEMMA LogKeeps == ASSUME WInv, NEW k \in DeviceIds, Limiter!Log(k) PROVE WInv'
<1>. DEFINE map == lastLoggedByKey
            room == Limiter!RoomFor(k)
            entry == [key |-> k, at |-> now]
            new == Append(room, entry)
<1>1. lastLoggedByKey' = new /\ logged' = [logged EXCEPT ![k] = now] /\ now' = now
  BY DEF Limiter!Log
<1>2. /\ room \in Seq(Warning) /\ InOrder(room) /\ Len(room) < MaxWarnings /\ k \notin Keys(room)
      /\ \A i \in DOMAIN room : \E j \in DOMAIN map : room[i] = map[j]
      /\ Keys(map) \subseteq Keys(room) \cup {k}
         \/ /\ Len(room) = MaxWarnings - 1 /\ 1 \in DOMAIN map
            /\ Keys(map) \subseteq Keys(room) \cup {map[1].key}
            /\ map[1].key \notin Keys(room)
  BY Room
<1>3. entry \in Warning /\ entry.key = k /\ entry.at = now
  BY DEF WInv, LogTypes, Warning
<1>. HIDE DEF room, entry
<1>4. /\ new \in Seq(Warning) /\ Len(new) = Len(room) + 1
      /\ \A i \in 1 .. Len(room) : new[i] = room[i]
      /\ new[Len(room) + 1] = entry
  BY <1>2, <1>3, AppendProperties
<1>. HIDE DEF new
<1>5. /\ Len(room) \in Nat /\ DOMAIN room = 1 .. Len(room) /\ DOMAIN new = 1 .. (Len(room) + 1)
      /\ \A i \in DOMAIN new : i \in DOMAIN room \/ i = Len(room) + 1
  BY <1>2, <1>4, LenProperties
<1>6. /\ \A i \in DOMAIN room : new[i] = room[i] /\ room[i].key # k
      /\ Keys(new) = Keys(room) \cup {k}
  BY <1>2, <1>3, <1>4, <1>5 DEF Keys
<1>7. \A i \in DOMAIN room : /\ room[i].at = logged[room[i].key]
                             /\ room[i].key \in DeviceIds /\ room[i].at <= now
  BY <1>2, WarningAt DEF WInv, Remembering, LogTypes
<1>8. \A j \in DeviceIds : logged'[j] = IF j = k THEN now ELSE logged[j]
  BY <1>1 DEF WInv, LogTypes
<1>9. LogTypes'
  <2>1. IsFiniteSet({j \in DeviceIds : logged[j] # Never} \cup {k})
    BY FS_AddElement DEF WInv, LogTypes
  <2>2. {j \in DeviceIds : logged'[j] # Never} \in SUBSET ({j \in DeviceIds : logged[j] # Never} \cup {k})
    BY <1>8
  <2>3. IsFiniteSet({j \in DeviceIds : logged'[j] # Never})
    BY <2>1, <2>2, FS_Subset
  <2>4. logged' \in [DeviceIds -> Never .. Horizon]
    BY <1>1, DiscoveryAssumption DEF WInv, LogTypes, Never
  <2>5. \A j \in DeviceIds : logged'[j] <= now
    BY <1>8, DiscoveryAssumption DEF WInv, LogTypes
  <2>. QED  BY <1>1, <2>3, <2>4, <2>5 DEF WInv, LogTypes
<1>10. InOrder(new)
  <2>1. ASSUME NEW i \in DOMAIN new, NEW j \in DOMAIN new, new[i].key = new[j].key PROVE i = j
    BY <2>1, <1>2, <1>3, <1>4, <1>5, <1>6 DEF InOrder
  <2>2. ASSUME NEW i \in DOMAIN new, NEW j \in DOMAIN new, i < j PROVE new[i].at <= new[j].at
    <3>1. i \in DOMAIN room
      BY <2>2, <1>5
    <3>2. CASE j \in DOMAIN room
      BY <2>2, <3>1, <3>2, <1>2, <1>6 DEF InOrder
    <3>3. CASE j = Len(room) + 1
      BY <3>1, <3>3, <1>3, <1>4, <1>6, <1>7
    <3>. QED  BY <3>2, <3>3, <1>5
  <2>. QED  BY <2>1, <2>2 DEF InOrder
<1>11. \A i \in DOMAIN new : new[i].at = logged'[new[i].key]
  <2>. SUFFICES ASSUME NEW i \in DOMAIN new PROVE new[i].at = logged'[new[i].key]
    OBVIOUS
  <2>1. CASE i \in DOMAIN room
    BY <2>1, <1>6, <1>7, <1>8
  <2>2. CASE i = Len(room) + 1
    BY <2>2, <1>3, <1>4, <1>8
  <2>. QED  BY <2>1, <2>2, <1>5
<1>12. ASSUME NEW c \in DeviceIds \ Keys(new), logged'[c] # Never
       PROVE  Cardinality(LoggedSince(c)') >= MaxWarnings
  <2>1. c # k /\ logged'[c] = logged[c] /\ logged[c] # Never /\ c \notin Keys(room)
    BY <1>6, <1>8, <1>12
  <2>2. IsFiniteSet(LoggedSince(c)')
    <3>1. LoggedSince(c)' \in SUBSET {j \in DeviceIds : logged'[j] # Never}
      BY <1>9, <1>12, DiscoveryAssumption DEF LogTypes, LoggedSince, Never
    <3>. QED  BY <3>1, <1>9, FS_Subset DEF LogTypes
  <2>3. LoggedSince(c) \subseteq LoggedSince(c)'
    BY <1>8, <2>1, DiscoveryAssumption DEF LoggedSince, WInv, LogTypes
  <2>4. CASE c \notin Keys(map)
    <3>1. Cardinality(LoggedSince(c)) >= MaxWarnings
      BY <2>1, <2>4 DEF WInv, Remembering
    <3>2. Cardinality(LoggedSince(c)) <= Cardinality(LoggedSince(c)') /\ IsFiniteSet(LoggedSince(c))
      BY <2>2, <2>3, FS_Subset
    <3>. QED
      BY <3>1, <3>2, <2>2, FS_CardinalityType, IncomingAssumption
  <2>5. CASE c \in Keys(map)
    <3>1. /\ Len(room) = MaxWarnings - 1 /\ 1 \in DOMAIN map /\ c = map[1].key
      BY <1>2, <2>1, <2>5
    <3>2. Keys(new) \subseteq LoggedSince(c)'
      <4>1. logged[c] = map[1].at /\ map[1].at <= now
        BY <3>1, <2>1 DEF WInv, Remembering, LogTypes
      <4>2. ASSUME NEW i \in DOMAIN room PROVE logged[c] <= room[i].at
        <5>1. PICK j \in DOMAIN map : room[i] = map[j]
          BY <1>2
        <5>2. map \in Seq(Warning) /\ DOMAIN map = 1 .. Len(map) /\ Len(map) \in Nat /\ InOrder(map)
          BY LenProperties DEF WInv, Remembering
        <5>3. CASE j = 1
          BY <5>1, <5>2, <5>3, <4>1, WarningAt
        <5>4. CASE j > 1
          BY <5>1, <5>2, <5>4, <4>1, <3>1 DEF InOrder
        <5>. QED  BY <5>2, <5>3, <5>4
      <4>3. ASSUME NEW x \in Keys(new) PROVE x \in LoggedSince(c)'
        <5>1. x # c
          BY <1>12
        <5>2. CASE x = k
          BY <5>1, <5>2, <4>1, <1>8, <2>1 DEF LoggedSince
        <5>3. CASE x \in Keys(room)
          <6>1. PICK i \in DOMAIN room : room[i].key = x
            BY <5>3 DEF Keys
          <6>. QED  BY <6>1, <5>1, <4>2, <1>6, <1>7, <1>8, <2>1 DEF LoggedSince
        <5>. QED  BY <5>2, <5>3, <1>6
      <4>. QED  BY <4>3
    <3>3. Cardinality(Keys(new)) = MaxWarnings
      <4>1. Cardinality(Keys(new)) = Len(room) + 1
        BY <1>4, <1>10, KeysCount
      <4>. QED  BY <4>1, <3>1, IncomingAssumption
    <3>4. Cardinality(Keys(new)) <= Cardinality(LoggedSince(c)')
      BY <2>2, <3>2, FS_Subset
    <3>. QED
      BY <3>3, <3>4, <2>2, FS_CardinalityType, IncomingAssumption
  <2>. QED  BY <2>4, <2>5
<1>13. Remembering'
  <2>1. Len(new) <= MaxWarnings
    BY <1>2, <1>4, <1>5, IncomingAssumption
  <2>. QED  BY <1>1, <1>4, <1>10, <1>11, <1>12, <2>1 DEF Remembering, InOrder, Keys
<1>. QED  BY <1>9, <1>13 DEF WInv

LEMMA WarningsInit == InInit => WInv
<1>. SUFFICES ASSUME InInit PROVE WInv
  OBVIOUS
<1>1. lastLoggedByKey = <<>> /\ now = 0 /\ logged = [k \in DeviceIds |-> Never]
  BY DEF InInit, Init, Limiter!Init, Limiter!Never, Never
<1>2. DOMAIN lastLoggedByKey = {} /\ Len(lastLoggedByKey) = 0 /\ lastLoggedByKey \in Seq(Warning)
  BY <1>1
<1>3. LogTypes
  <2>1. {k \in DeviceIds : logged[k] # Never} = {}
    BY <1>1
  <2>. QED  BY <1>1, <2>1, FS_EmptySet, DiscoveryAssumption DEF LogTypes, Never
<1>. QED  BY <1>1, <1>2, <1>3, IncomingAssumption DEF WInv, Remembering, InOrder

\* Nothing but a warning that is logged touches the limiter, but for the clock.
LEMMA OthersKeep ==
    ASSUME WInv, UNCHANGED <<lastLoggedByKey, logged>>, now' \in 0 .. Horizon, now <= now'
    PROVE  WInv'
<1>1. LogTypes'
  BY DiscoveryAssumption DEF WInv, LogTypes, Never
<1>. QED  BY <1>1 DEF WInv, Remembering, InOrder, Keys, LoggedSince

LEMMA WarningStep ==
    ASSUME WInv, [InNext]_incomingVars
    PROVE  \/ \E k \in DeviceIds : Limiter!Log(k)
           \/ UNCHANGED <<lastLoggedByKey, logged>> /\ now' \in 0 .. Horizon /\ now <= now'
<1>1. now \in 0 .. Horizon
  BY DEF WInv, LogTypes
<1>2. CASE UNCHANGED incomingVars
  BY <1>1, <1>2, DiscoveryAssumption DEF incomingVars, vars, limiterVars
<1>3. ASSUME NEW d \in DeviceIds, Accepted(d) \/ Rejected(d)
      PROVE  Limiter!Log(d) \/ (UNCHANGED <<lastLoggedByKey, logged>> /\ now' = now)
  BY <1>3 DEF Accepted, Rejected, Observe, limiterVars, Limiter!Suppress, Limiter!vars
<1>4. CASE (List \/ Tick) /\ UNCHANGED limiterVars
  BY <1>1, <1>4, DiscoveryAssumption DEF List, Tick, limiterVars
<1>. QED  BY <1>1, <1>2, <1>3, <1>4, DiscoveryAssumption DEF InNext

LEMMA Warnings == InSpec => []WInv
<1>1. WInv /\ [InNext]_incomingVars => WInv'
  BY WarningStep, LogKeeps, OthersKeep
<1>. QED  BY WarningsInit, <1>1, PTL DEF InSpec

\* An equal warning is logged again within the interval only after MaxWarnings
\* others have pushed the first out of the map (shouldLog()).
THEOREM WarningsApart == InSpec => EqualWarningsApart
<1>1. WInv /\ [InNext]_incomingVars =>
         [\A k \in DeviceIds :
             logged'[k] # logged[k] /\ logged[k] # Limiter!Never /\ now - logged[k] < WarningInterval
             => Limiter!Cardinality({j \in DeviceIds \ {k} : logged[j] >= logged[k]}) >= MaxWarnings]_(Limiter!vars)
  <2>. SUFFICES ASSUME WInv, [InNext]_incomingVars, NEW k \in DeviceIds,
                       logged'[k] # logged[k], logged[k] # Never, now - logged[k] < WarningInterval
                PROVE  Cardinality(LoggedSince(k)) >= MaxWarnings
    BY SameOperators DEF LoggedSince, Limiter!Never, Never
  <2>1. Limiter!Log(k)
    <3>1. PICK d \in DeviceIds : Limiter!Log(d)
      BY WarningStep
    <3>2. d = k
      BY <3>1 DEF Limiter!Log, WInv, LogTypes
    <3>. QED  BY <3>1, <3>2
  <2>2. k \notin Keys(lastLoggedByKey)
    BY <2>1, RecentIsLogged DEF Limiter!Log
  <2>. QED  BY <2>2 DEF WInv, Remembering
<1>. QED  BY Warnings, <1>1, PTL DEF InSpec, EqualWarningsApart, Limiter!EqualWarningsApart

=============================================================================
