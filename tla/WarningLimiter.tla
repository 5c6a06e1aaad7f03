--------------------------- MODULE WarningLimiter ---------------------------
(***************************************************************************)
(* lib/warningLimiter.js: equal warnings are logged at most once in an     *)
(* interval, and the keys remembered are bounded.  The clock is assumed    *)
(* not to go back; Horizon bounds it.  IncomingMessages states what it     *)
(* assumes of the constants, and runs it.                                  *)
(***************************************************************************)
EXTENDS Integers, Sequences, FiniteSets, SequencesExt

CONSTANTS WarningKeys,
          Interval,    \* intervalMs
          MaxEntries,  \* maxEntries
          Horizon      \* bound: the last instant considered

Never == -1

VARIABLES lastLoggedByKey,  \* the Map in insertion order
          now,              \* Date.now()
          logged            \* per key, when it was logged last: history
vars == <<lastLoggedByKey, now, logged>>

TypeOK ==
    /\ lastLoggedByKey \in Seq([key : WarningKeys, at : 0 .. Horizon])
    /\ now \in 0 .. Horizon
    /\ logged \in [WarningKeys -> Never .. Horizon]

Init ==
    /\ lastLoggedByKey = <<>>
    /\ now = 0
    /\ logged = [k \in WarningKeys |-> Never]

Remembered == {lastLoggedByKey[i].key : i \in DOMAIN lastLoggedByKey}

\* Mutant of Recent: the interval is an instant too short.
RecentOffByOne(k) == \E e \in ToSet(lastLoggedByKey) : e.key = k /\ now - e.at < Interval - 1

\* The key was logged less than an interval ago, as far as the limiter knows.
Recent(k) == \E e \in ToSet(lastLoggedByKey) : e.key = k /\ now - e.at < Interval

\* Room for an entry of k: its old entry goes, or the first one if the map is full.
RoomFor(k) ==
    IF k \in Remembered
    THEN RemoveAt(lastLoggedByKey, CHOOSE i \in DOMAIN lastLoggedByKey : lastLoggedByKey[i].key = k)
    ELSE IF Len(lastLoggedByKey) >= MaxEntries THEN Tail(lastLoggedByKey)
    ELSE lastLoggedByKey

\* shouldLog() returns true, and the warning is logged.
Log(k) ==
    /\ ~Recent(k)
    /\ lastLoggedByKey' = Append(RoomFor(k), [key |-> k, at |-> now])
    /\ logged' = [logged EXCEPT ![k] = now]
    /\ UNCHANGED now

\* shouldLog() returns false.
Suppress(k) ==
    /\ Recent(k)
    /\ UNCHANGED vars

Tick ==
    /\ now < Horizon
    /\ now' = now + 1
    /\ UNCHANGED <<lastLoggedByKey, logged>>

Next == (\E k \in WarningKeys : Log(k) \/ Suppress(k)) \/ Tick

Spec == Init /\ [][Next]_vars

-----------------------------------------------------------------------------
\* Two equal warnings are logged within the interval only when at least
\* MaxEntries other warnings have been logged since the first of them.
EqualWarningsApart ==
    [][\A k \in WarningKeys :
          logged'[k] # logged[k] /\ logged[k] # Never /\ now - logged[k] < Interval
          => Cardinality({j \in WarningKeys \ {k} : logged[j] >= logged[k]}) >= MaxEntries]_vars

=============================================================================
