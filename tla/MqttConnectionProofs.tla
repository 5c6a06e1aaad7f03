------------------------ MODULE MqttConnectionProofs ------------------------
(***************************************************************************)
(* Proofs about the connections of the MQTT binding, for any number of     *)
(* retries and any number of faults: the handlers of the clients find      *)
(* mqttClient set until stop() has ended, a running binding is left without *)
(* a connection only when more than Retries attempts have failed, and a    *)
(* stop() that leaves nothing over is final.                               *)
(***************************************************************************)
EXTENDS MqttConnection, FiniteSetTheorems, TLAPS

ConnectionTypes ==
    /\ link \in [Clients -> Links]
    /\ mqttClient \in Clients \cup {Null}
    /\ numRetried \in Nat /\ timers \in Nat /\ failures \in Nat
    /\ stage \in Stages
    /\ crashed \in BOOLEAN

LiveClients == {c \in Clients : Live(c)}

\* Before start() there is neither a client nor a timer, and the binding has a
\* client until stop() has ended.
ClientThere ==
    /\ stage = "idle" => timers = 0 /\ numRetried = 1 /\ \A c \in Clients : link[c] = "unused"
    /\ stage \in {"running", "draining", "ending"} => mqttClient # Null
    /\ stage = "running" => mqttConn # Null
    /\ NoCrashWhileRunning

\* Every retry has set a timer, and a client made by a timer goes on
\* reconnecting until a failure makes the 'error' handler end it.
RetriesLeaveClients ==
    stage = "running" => numRetried <= Cardinality(LiveClients) + timers + failures

CInv == ConnectionTypes /\ ClientThere /\ RetriesLeaveClients /\ GivesUpOnlyAfterRetries

-----------------------------------------------------------------------------
(* Clients and their number *)

LEMMA NullIsNoClient == Null \notin Clients
BY DEF Null, Clients

LEMMA ClientsFinite ==
    ASSUME NEW S \in SUBSET Clients
    PROVE  IsFiniteSet(S) /\ Cardinality(S) \in Nat
<1>1. 2 * Faults + 1 \in Int
  BY ConnectionAssumption
<1>2. IsFiniteSet(Clients)
  BY <1>1, FS_Interval DEF Clients
<1>. QED  BY <1>2, FS_Subset, FS_CardinalityType

LEMMA LosesOne ==
    ASSUME NEW S \in SUBSET Clients, NEW T \in SUBSET Clients, NEW c, S \ {c} \subseteq T
    PROVE  Cardinality(S) <= Cardinality(T) + 1
<1>1. Cardinality(S \ {c}) = IF c \in S THEN Cardinality(S) - 1 ELSE Cardinality(S)
  BY ClientsFinite, FS_RemoveElement
<1>2. Cardinality(S \ {c}) <= Cardinality(T)
  <2>1. S \ {c} \in SUBSET T
    OBVIOUS
  <2>. QED  BY <2>1, ClientsFinite, FS_Subset
<1>. QED  BY <1>1, <1>2, ClientsFinite

LEMMA KeepsAll ==
    ASSUME NEW S \in SUBSET Clients, NEW T \in SUBSET Clients, S \subseteq T
    PROVE  Cardinality(S) <= Cardinality(T)
BY ClientsFinite, FS_Subset

LEMMA GainsOne ==
    ASSUME NEW S \in SUBSET Clients, NEW T \in SUBSET Clients, NEW c \in T \ S, S \subseteq T
    PROVE  Cardinality(S) + 1 <= Cardinality(T)
<1>1. Cardinality(S \cup {c}) = Cardinality(S) + 1
  BY ClientsFinite, FS_AddElement
<1>2. S \cup {c} \in SUBSET T
  OBVIOUS
<1>. QED  BY <1>1, <1>2, ClientsFinite, FS_Subset

LEMMA LiveAre == LiveClients \in SUBSET Clients
BY DEF LiveClients

-----------------------------------------------------------------------------
(* What the steps do *)

\* createConnection() gains a client that was not alive.
LEMMA CreateEffect ==
    ASSUME ConnectionTypes, CreateConnection
    PROVE  /\ link' \in [Clients -> Links]
           /\ mqttClient' \in Clients /\ mqttConn' = mqttClient'
           /\ mqttClient' \in LiveClients'
           /\ Cardinality(LiveClients) + 1 <= Cardinality(LiveClients')
<1>1. PICK c \in Clients :
         /\ link[c] = "unused" /\ link' = [link EXCEPT ![c] = "connecting"]
         /\ mqttClient' = c /\ mqttConn' = c
  BY DEF CreateConnection
<1>2. link' \in [Clients -> Links] /\ \A d \in Clients : link'[d] = IF d = c THEN "connecting" ELSE link[d]
  BY <1>1 DEF ConnectionTypes, Links
<1>3. c \in LiveClients' \ LiveClients /\ LiveClients \subseteq LiveClients'
  BY <1>1, <1>2 DEF LiveClients, Live
<1>4. LiveClients' \in SUBSET Clients
  BY DEF LiveClients
<1>. QED  BY <1>1, <1>2, <1>3, <1>4, LiveAre, GainsOne

\* The 'close' handler sets a timer for every retry that it counts, and it does
\* so unless mqttClient is connected or the retries are used up.
LEMMA CloseHandlerEffect ==
    ASSUME ConnectionTypes, ClientThere, stage # "idle", ~crashed, NEW links, CloseHandler(links)
    PROVE  /\ UNCHANGED <<mqttClient, mqttConn, stage>>
           /\ \/ numRetried' = numRetried + 1 /\ timers' = timers + 1
              \/ UNCHANGED <<numRetried, timers>>
           /\ crashed' \in BOOLEAN /\ (crashed' => stage = "stopped")
           /\ stage = "running" /\ links[mqttClient] # "connected"
              => timers' = timers + 1 \/ numRetried > Retries
<1>1. stage \in {"running", "draining", "ending", "stopped"}
  BY DEF ConnectionTypes, Stages
<1>2. CASE mqttConn = Null
  BY <1>1, <1>2 DEF CloseHandler, ClientThere, ConnectionTypes
<1>3. CASE mqttConn # Null /\ mqttClient = Null
  BY <1>1, <1>3 DEF CloseHandler, Crash, ClientThere, ConnectionTypes
<1>4. CASE mqttConn # Null /\ mqttClient # Null
  BY <1>1, <1>4, ConnectionAssumption DEF CloseHandler, ClientThere, ConnectionTypes
<1>. QED  BY <1>2, <1>3, <1>4

-----------------------------------------------------------------------------
(* The invariant holds at first, and every step keeps it *)

LEMMA ConnectionInit == Init => CInv
<1>. SUFFICES ASSUME Init PROVE CInv
  OBVIOUS
<1>1. ConnectionTypes
  BY DEF Init, ConnectionTypes, Links, Stages
<1>2. ClientThere
  BY DEF Init, ClientThere, NoCrashWhileRunning
<1>. QED  BY <1>1, <1>2 DEF Init, CInv, RetriesLeaveClients, GivesUpOnlyAfterRetries

\* What is left to show of a step that leaves the binding running.
LEMMA NotRunningKeeps ==
    ASSUME stage' # "running", ConnectionTypes', ClientThere'
    PROVE  CInv'
BY DEF CInv, RetriesLeaveClients, GivesUpOnlyAfterRetries

LEMMA StartKeeps == ASSUME CInv, Start PROVE CInv'
<1>1. /\ stage = "idle" /\ stage' = "running" /\ CreateConnection
      /\ UNCHANGED <<numRetried, timers, failures, crashed>>
  BY DEF Start
<1>2. /\ link' \in [Clients -> Links]
      /\ mqttClient' \in Clients /\ mqttConn' = mqttClient' /\ mqttClient' \in LiveClients'
      /\ Cardinality(LiveClients) + 1 <= Cardinality(LiveClients')
  BY <1>1, CreateEffect DEF CInv
<1>3. ConnectionTypes'
  BY <1>1, <1>2 DEF CInv, ConnectionTypes, Stages
<1>4. ClientThere'
  BY <1>1, <1>2, NullIsNoClient DEF CInv, ClientThere, NoCrashWhileRunning
<1>5. RetriesLeaveClients'
  <2>1. Cardinality(LiveClients) \in Nat /\ Cardinality(LiveClients') \in Nat
    BY ClientsFinite, LiveAre, <1>2 DEF LiveClients
  <2>. QED  BY <2>1, <1>1, <1>2, <1>3 DEF CInv, ConnectionTypes, ClientThere, RetriesLeaveClients
<1>6. GivesUpOnlyAfterRetries'
  BY <1>2 DEF GivesUpOnlyAfterRetries, LiveClients
<1>. QED  BY <1>3, <1>4, <1>5, <1>6 DEF CInv

LEMMA RetryTimerKeeps == ASSUME CInv, RetryTimer PROVE CInv'
<1>1. /\ timers > 0 /\ timers' = timers - 1 /\ CreateConnection
      /\ UNCHANGED <<numRetried, stage, failures, crashed>>
  BY DEF RetryTimer
<1>2. /\ link' \in [Clients -> Links]
      /\ mqttClient' \in Clients /\ mqttConn' = mqttClient' /\ mqttClient' \in LiveClients'
      /\ Cardinality(LiveClients) + 1 <= Cardinality(LiveClients')
  BY <1>1, CreateEffect DEF CInv
<1>3. ConnectionTypes'
  BY <1>1, <1>2 DEF CInv, ConnectionTypes
<1>4. ClientThere'
  BY <1>1, <1>2, NullIsNoClient DEF CInv, ClientThere, NoCrashWhileRunning
<1>5. RetriesLeaveClients'
  <2>1. Cardinality(LiveClients) \in Nat /\ Cardinality(LiveClients') \in Nat
    BY ClientsFinite, LiveAre DEF LiveClients
  <2>. QED  BY <2>1, <1>1, <1>2 DEF CInv, ConnectionTypes, RetriesLeaveClients
<1>6. GivesUpOnlyAfterRetries'
  BY <1>2 DEF GivesUpOnlyAfterRetries, LiveClients
<1>. QED  BY <1>3, <1>4, <1>5, <1>6 DEF CInv

LEMMA OnConnectKeeps == ASSUME CInv, NEW c \in Clients, OnConnect(c) PROVE CInv'
<1>1. /\ ~crashed /\ link[c] = "connecting" /\ link' = [link EXCEPT ![c] = "connected"]
      /\ stage # "idle"
  BY DEF OnConnect, CInv, ClientThere
<1>2. /\ link' \in [Clients -> Links] /\ link'[c] = "connected"
  BY <1>1 DEF CInv, ConnectionTypes, Links
<1>3. CASE mqttClient = Null
  <2>1. stage = "stopped" /\ crashed' = TRUE
        /\ UNCHANGED <<mqttClient, mqttConn, numRetried, timers, stage, failures>>
    BY <1>1, <1>3 DEF OnConnect, Crash, CInv, ClientThere, ConnectionTypes, Stages
  <2>2. ConnectionTypes' /\ ClientThere'
    BY <2>1, <1>2 DEF CInv, ConnectionTypes, ClientThere, NoCrashWhileRunning
  <2>. QED  BY <2>1, <2>2, NotRunningKeeps
<1>4. CASE mqttClient # Null
  <2>1. /\ numRetried' = 1 /\ failures' = 0
        /\ UNCHANGED <<mqttClient, mqttConn, timers, stage, crashed>>
    BY <1>4 DEF OnConnect
  <2>2. ConnectionTypes' /\ ClientThere'
    BY <1>1, <1>2, <2>1 DEF CInv, ConnectionTypes, ClientThere, NoCrashWhileRunning
  <2>3. c \in LiveClients' /\ LiveClients' \in SUBSET Clients
    BY <1>2 DEF LiveClients, Live
  <2>4. Cardinality(LiveClients') # 0 /\ Cardinality(LiveClients') \in Nat
    BY <2>3, ClientsFinite, FS_EmptySet
  <2>5. RetriesLeaveClients'
    BY <2>1, <2>2, <2>4 DEF RetriesLeaveClients, ConnectionTypes
  <2>6. GivesUpOnlyAfterRetries'
    BY <2>3 DEF GivesUpOnlyAfterRetries, LiveClients
  <2>. QED  BY <2>2, <2>5, <2>6 DEF CInv
<1>. QED  BY <1>3, <1>4

\* The client that the 'error' handler ends is the only one lost, and the
\* failure is counted.
LEMMA OnErrorKeeps == ASSUME CInv, NEW c \in Clients, OnError(c) PROVE CInv'
<1>1. /\ ~crashed /\ link[c] \in {"connecting", "connected"} /\ failures' = failures + 1
      /\ stage # "idle" /\ UNCHANGED <<mqttClient, mqttConn, numRetried, timers, stage>>
  BY DEF OnError, Fault, Crash, CInv, ClientThere
<1>2. CASE mqttClient = Null
  <2>1. /\ stage = "stopped" /\ crashed' = TRUE /\ link' = [link EXCEPT ![c] = "refused"]
    BY <1>1, <1>2 DEF OnError, Crash, CInv, ClientThere, ConnectionTypes, Stages
  <2>2. ConnectionTypes' /\ ClientThere'
    BY <1>1, <2>1 DEF CInv, ConnectionTypes, ClientThere, NoCrashWhileRunning, Links
  <2>. QED  BY <1>1, <2>1, <2>2, NotRunningKeeps
<1>3. CASE mqttClient # Null
  <2>. DEFINE refused == [link EXCEPT ![c] = "refused"]
  <2>1. crashed' = crashed /\ link' = [refused EXCEPT ![mqttClient] = Ended(@)]
        /\ mqttClient \in Clients
    BY <1>3 DEF OnError, CInv, ConnectionTypes
  <2>2. refused \in [Clients -> Links] /\ \A l \in Links : Ended(l) \in Links
    BY DEF CInv, ConnectionTypes, Links, Ended
  <2>3. /\ link' \in [Clients -> Links]
        /\ \A d \in Clients : link'[d] = IF d = mqttClient THEN Ended(refused[d]) ELSE refused[d]
    BY <2>1, <2>2
  <2>4. ConnectionTypes' /\ ClientThere'
    BY <1>1, <2>1, <2>3 DEF CInv, ConnectionTypes, ClientThere, NoCrashWhileRunning
  <2>5. LiveClients \ {mqttClient} \subseteq LiveClients'
    BY <2>3 DEF LiveClients, Live, CInv, ConnectionTypes
  <2>6. /\ Cardinality(LiveClients) <= Cardinality(LiveClients') + 1
        /\ Cardinality(LiveClients) \in Nat /\ Cardinality(LiveClients') \in Nat
    <3>1. LiveClients' \in SUBSET Clients
      BY DEF LiveClients
    <3>. QED  BY <2>5, <3>1, LiveAre, LosesOne, ClientsFinite
  <2>7. RetriesLeaveClients'
    BY <1>1, <2>6 DEF CInv, ConnectionTypes, RetriesLeaveClients
  <2>8. link'[c] \in {"refused", "ending"}
    BY <2>3 DEF Ended, CInv, ConnectionTypes
  <2>9. GivesUpOnlyAfterRetries'
    BY <2>8 DEF GivesUpOnlyAfterRetries, Live
  <2>. QED  BY <2>4, <2>7, <2>9 DEF CInv
<1>. QED  BY <1>2, <1>3

LEMMA OnBreakKeeps == ASSUME CInv, NEW c \in Clients, OnBreak(c) PROVE CInv'
<1>1. /\ ~crashed /\ link[c] \in {"connecting", "connected"} /\ failures' = failures + 1
      /\ link' = [link EXCEPT ![c] = "offline"] /\ CloseHandler(link') /\ stage # "idle"
  BY DEF OnBreak, Fault, CInv, ClientThere
<1>2. /\ UNCHANGED <<mqttClient, mqttConn, stage>>
      /\ \/ numRetried' = numRetried + 1 /\ timers' = timers + 1
         \/ UNCHANGED <<numRetried, timers>>
      /\ crashed' \in BOOLEAN /\ (crashed' => stage = "stopped")
  BY <1>1, CloseHandlerEffect DEF CInv
<1>3. /\ link' \in [Clients -> Links]
      /\ \A d \in Clients : link'[d] = IF d = c THEN "offline" ELSE link[d]
  BY <1>1 DEF CInv, ConnectionTypes, Links
<1>4. ConnectionTypes' /\ ClientThere'
  BY <1>1, <1>2, <1>3 DEF CInv, ConnectionTypes, ClientThere, NoCrashWhileRunning
<1>5. LiveClients \subseteq LiveClients' /\ LiveClients' \in SUBSET Clients /\ c \in LiveClients'
  BY <1>3 DEF LiveClients, Live
<1>6. /\ Cardinality(LiveClients) <= Cardinality(LiveClients')
      /\ Cardinality(LiveClients) \in Nat /\ Cardinality(LiveClients') \in Nat
  BY <1>5, LiveAre, KeepsAll, ClientsFinite
<1>7. RetriesLeaveClients'
  BY <1>1, <1>2, <1>6 DEF CInv, ConnectionTypes, RetriesLeaveClients
<1>8. GivesUpOnlyAfterRetries'
  BY <1>5 DEF GivesUpOnlyAfterRetries, LiveClients
<1>. QED  BY <1>4, <1>7, <1>8 DEF CInv

\* When the last client closes, another is on its way or the retries are used
\* up; and those have been used up by as many failures.
LEMMA OnCloseKeeps == ASSUME CInv, NEW c \in Clients, OnClose(c) PROVE CInv'
<1>1. /\ ~crashed /\ link[c] \in {"refused", "ending"} /\ failures' = failures
      /\ link' = [link EXCEPT ![c] = IF @ = "refused" THEN "offline" ELSE "ended"]
      /\ CloseHandler(link') /\ stage # "idle"
  BY DEF OnClose, CInv, ClientThere
<1>2. /\ UNCHANGED <<mqttClient, mqttConn, stage>>
      /\ \/ numRetried' = numRetried + 1 /\ timers' = timers + 1
         \/ UNCHANGED <<numRetried, timers>>
      /\ crashed' \in BOOLEAN /\ (crashed' => stage = "stopped")
      /\ stage = "running" /\ link'[mqttClient] # "connected"
         => timers' = timers + 1 \/ numRetried > Retries
  BY <1>1, CloseHandlerEffect DEF CInv
<1>3. /\ link' \in [Clients -> Links]
      /\ \A d \in Clients : link'[d] = IF d # c THEN link[d]
                                       ELSE IF link[c] = "refused" THEN "offline" ELSE "ended"
  BY <1>1 DEF CInv, ConnectionTypes, Links
<1>4. ConnectionTypes' /\ ClientThere'
  BY <1>1, <1>2, <1>3 DEF CInv, ConnectionTypes, ClientThere, NoCrashWhileRunning
<1>5. LiveClients \subseteq LiveClients' /\ LiveClients' \in SUBSET Clients
  BY <1>1, <1>3 DEF LiveClients, Live
<1>6. /\ Cardinality(LiveClients) <= Cardinality(LiveClients')
      /\ Cardinality(LiveClients) \in Nat /\ Cardinality(LiveClients') \in Nat
  BY <1>5, LiveAre, KeepsAll, ClientsFinite
<1>7. RetriesLeaveClients'
  BY <1>1, <1>2, <1>6 DEF CInv, ConnectionTypes, RetriesLeaveClients
<1>8. GivesUpOnlyAfterRetries'
  <2>. SUFFICES ASSUME stage = "running", LiveClients' = {}, timers' = 0
                PROVE  failures > Retries
    BY <1>1, <1>2 DEF GivesUpOnlyAfterRetries, LiveClients, CInv, ConnectionTypes
  <2>1. Cardinality(LiveClients') = 0
    BY FS_EmptySet
  <2>2. link'[mqttClient] # "connected"
    BY <1>4 DEF LiveClients, Live, CInv, ConnectionTypes, ClientThere
  <2>3. numRetried > Retries
    BY <1>2, <2>2 DEF CInv, ConnectionTypes
  <2>. QED
    BY <1>1, <1>2, <1>7, <2>1, <2>3, ConnectionAssumption DEF CInv, ConnectionTypes, RetriesLeaveClients
<1>. QED  BY <1>4, <1>7, <1>8 DEF CInv

LEMMA AutoReconnectKeeps == ASSUME CInv, NEW c \in Clients, AutoReconnect(c) PROVE CInv'
<1>1. /\ ~crashed /\ link[c] = "offline" /\ link' = [link EXCEPT ![c] = "connecting"]
      /\ UNCHANGED <<mqttClient, mqttConn, numRetried, timers, stage, failures, crashed>>
  BY DEF AutoReconnect
<1>2. /\ link' \in [Clients -> Links]
      /\ \A d \in Clients : link'[d] = IF d = c THEN "connecting" ELSE link[d]
  BY <1>1 DEF CInv, ConnectionTypes, Links
<1>3. ConnectionTypes' /\ ClientThere'
  BY <1>1, <1>2 DEF CInv, ConnectionTypes, ClientThere, NoCrashWhileRunning
<1>4. LiveClients' = LiveClients /\ c \in LiveClients'
  BY <1>1, <1>2 DEF LiveClients, Live
<1>. QED  BY <1>1, <1>3, <1>4 DEF CInv, RetriesLeaveClients, GivesUpOnlyAfterRetries, LiveClients

LEMMA StopKeeps == ASSUME CInv, Stop \/ CloseClient \/ EndAnswered PROVE CInv'
<1>1. stage' \in {"draining", "ending", "stopped"}
      /\ UNCHANGED <<numRetried, timers, failures, crashed>> /\ ~crashed
  BY DEF Stop, CloseClient, EndAnswered
<1>2. link' \in [Clients -> Links]
  <2>1. \A l \in Links : Ended(l) \in Links
    BY DEF Links, Ended
  <2>. QED  BY <2>1 DEF Stop, CloseClient, EndAnswered, CInv, ConnectionTypes
<1>3. /\ mqttClient' \in Clients \cup {Null}
      /\ stage' \in {"draining", "ending"} => mqttClient' # Null
  BY DEF Stop, CloseClient, EndAnswered, CInv, ConnectionTypes, ClientThere
<1>4. ConnectionTypes' /\ ClientThere'
  BY <1>1, <1>2, <1>3 DEF CInv, ConnectionTypes, ClientThere, NoCrashWhileRunning, Stages
<1>. QED  BY <1>1, <1>4, NotRunningKeeps

LEMMA ConnectionStep == CInv /\ [Next]_vars => CInv'
<1>. SUFFICES ASSUME CInv, [Next]_vars PROVE CInv'
  OBVIOUS
<1>1. CASE UNCHANGED vars
  BY <1>1 DEF vars, CInv, ConnectionTypes, ClientThere, NoCrashWhileRunning, RetriesLeaveClients,
              GivesUpOnlyAfterRetries, LiveClients, Live
<1>. QED
  BY <1>1, StartKeeps, RetryTimerKeeps, OnConnectKeeps, OnErrorKeeps, OnBreakKeeps, OnCloseKeeps,
     AutoReconnectKeeps, StopKeeps DEF Next, ClientStep

\* The clients and timers of the MQTT binding obey CInv whatever the order of
\* their events.
LEMMA Connections == Spec => []CInv
BY ConnectionInit, ConnectionStep, PTL DEF Spec

\* While the binding runs it has a client that is connected or will be, or a
\* timer that will make one, until more than Retries attempts in a row have
\* failed ('close' and 'error' handlers, createConnection()).
THEOREM GivesUpLate == Spec => []GivesUpOnlyAfterRetries
<1>1. CInv => GivesUpOnlyAfterRetries
  BY DEF CInv
<1>. QED  BY Connections, <1>1, PTL

\* The handlers that read mqttClient find it set until stop() has reset it: the
\* process can die of a late event only after the binding has been stopped.
THEOREM NoCrash == Spec => []NoCrashWhileRunning
<1>1. CInv => NoCrashWhileRunning
  BY DEF CInv, ClientThere
<1>. QED  BY Connections, <1>1, PTL

-----------------------------------------------------------------------------
(* The types, and the number of clients.  The clients made, the timers set *)
(* and the streams that will still close grow by two with a fault, and by  *)
(* one with stop(); the first fault finds one client and no timer.  So a   *)
(* timer never fires in vain for want of a client in Clients.              *)

Made == {c \in Clients : link[c] # "unused"}
Closing == {c \in Clients : link[c] \in {"refused", "ending"}}
EndedOnce == IF stage \in {"ending", "stopped"} THEN 1 ELSE 0

NoFaultYet ==
    faults = 0 =>
        /\ timers = 0 /\ \A c, d \in Made : c = d
        /\ Closing # {} => mqttConn = Null

Counted ==
    faults > 0 =>
        /\ Made # {}
        /\ Cardinality(Made) + timers + Cardinality(Closing) <= 2 * faults + EndedOnce

OtherTypes ==
    /\ subscribed \subseteq Clients /\ unheard \subseteq Clients /\ clean \in BOOLEAN
    /\ mqttConn \in Clients \cup {Null}
    /\ numRetried >= 1 /\ numRetried <= Retries + 1
    /\ faults \in Nat /\ faults <= Faults /\ failures <= faults

MInv == CInv /\ OtherTypes /\ NoFaultYet /\ Counted

LEMMA Counts ==
    /\ Made \in SUBSET Clients /\ Closing \in SUBSET Clients
    /\ Made' \in SUBSET Clients /\ Closing' \in SUBSET Clients
    /\ Cardinality(Made) \in Nat /\ Cardinality(Closing) \in Nat
    /\ Cardinality(Made') \in Nat /\ Cardinality(Closing') \in Nat
    /\ EndedOnce \in {0, 1} /\ EndedOnce' \in {0, 1}
<1>1. /\ Made \in SUBSET Clients /\ Closing \in SUBSET Clients
      /\ Made' \in SUBSET Clients /\ Closing' \in SUBSET Clients
  BY DEF Made, Closing
<1>. QED  BY <1>1, ClientsFinite DEF EndedOnce

LEMMA AtMostOne ==
    ASSUME NEW S \in SUBSET Clients, \A c, d \in S : c = d
    PROVE  Cardinality(S) <= 1
<1>1. CASE S = {}
  BY <1>1, FS_EmptySet
<1>2. CASE S # {}
  <2>1. PICK c \in S : S = {c}
    BY <1>2
  <2>. QED  BY <2>1, FS_Singleton
<1>. QED  BY <1>1, <1>2

LEMMA AtMostTwoMore ==
    ASSUME NEW S \in SUBSET Clients, NEW T \in SUBSET Clients, NEW c, NEW d, S \ {c, d} \subseteq T
    PROVE  Cardinality(S) <= Cardinality(T) + 2
<1>1. Cardinality(S) <= Cardinality(S \ {c}) + 1
  BY LosesOne
<1>2. Cardinality(S \ {c}) <= Cardinality(T) + 1
  BY LosesOne
<1>. QED  BY <1>1, <1>2, ClientsFinite

\* A client is made, by start() or by a timer.
LEMMA MakingCounts ==
    ASSUME ConnectionTypes, CreateConnection
    PROVE  /\ Closing' = Closing /\ Made' # {}
           /\ Cardinality(Made') <= Cardinality(Made) + 1
           /\ Made = {} => \A c, d \in Made' : c = d
<1>1. PICK c \in Clients : link[c] = "unused" /\ link' = [link EXCEPT ![c] = "connecting"]
  BY DEF CreateConnection
<1>2. \A d \in Clients : link'[d] = IF d = c THEN "connecting" ELSE link[d]
  BY <1>1 DEF ConnectionTypes
<1>3. Closing' = Closing /\ Made' = Made \cup {c}
  BY <1>1, <1>2 DEF Closing, Made
<1>4. Made' \ {c} \subseteq Made
  BY <1>3
<1>. QED  BY <1>3, <1>4, Counts, LosesOne

\* The handlers make no client.
LEMMA SameMade ==
    ASSUME ConnectionTypes, NEW D \in SUBSET Made, link' \in [Clients -> Links],
           \A c \in Clients \ D : link'[c] = link[c],
           \A c \in D : link'[c] # "unused"
    PROVE  Made' = Made /\ Closing' \ D \subseteq Closing /\ Closing \ D \subseteq Closing'
BY DEF Made, Closing

LEMMA HandlerTypes ==
    ASSUME ConnectionTypes, OtherTypes, NEW links, CloseHandler(links)
    PROVE  /\ UNCHANGED <<subscribed, unheard, mqttConn, stage, clean>>
           /\ numRetried' >= 1 /\ numRetried' <= Retries + 1
           /\ timers' \in {timers, timers + 1}
           /\ mqttConn = Null => timers' = timers
BY ConnectionAssumption DEF CloseHandler, Crash, ConnectionTypes, OtherTypes

LEMMA MakingKeeps == ASSUME MInv, CInv', Start \/ RetryTimer PROVE MInv'
<1>1. /\ CreateConnection /\ UNCHANGED <<subscribed, unheard, numRetried, faults, failures, clean>>
      /\ \/ timers' = timers /\ stage = "idle"
         \/ timers > 0 /\ timers' = timers - 1 /\ UNCHANGED stage
  BY DEF Start, RetryTimer
<1>2. /\ Closing' = Closing /\ Made' # {}
      /\ Cardinality(Made') <= Cardinality(Made) + 1
      /\ Made = {} => \A c, d \in Made' : c = d
  BY <1>1, MakingCounts DEF MInv, CInv
<1>3. OtherTypes'
  BY <1>1, CreateEffect DEF MInv, CInv, OtherTypes
<1>4. stage = "idle" => Made = {} /\ faults = 0 /\ timers = 0 /\ Closing = {}
  BY DEF MInv, CInv, ClientThere, Made, Closing, Counted, OtherTypes
<1>5. CASE stage = "idle" /\ timers' = timers
  BY <1>1, <1>2, <1>3, <1>4, <1>5 DEF MInv, NoFaultYet, Counted
<1>6. CASE timers > 0 /\ timers' = timers - 1 /\ UNCHANGED stage
  <2>1. faults > 0 /\ timers \in Nat /\ faults \in Nat
    BY <1>6 DEF MInv, CInv, ConnectionTypes, NoFaultYet, OtherTypes
  <2>2. EndedOnce' = EndedOnce
    BY <1>6 DEF EndedOnce
  <2>3. Counted'
    BY <1>1, <1>2, <1>6, <2>1, <2>2, Counts DEF MInv, Counted
  <2>. QED  BY <1>1, <1>3, <2>1, <2>3 DEF MInv, NoFaultYet
<1>. QED  BY <1>1, <1>5, <1>6

LEMMA ReconnectKeeps ==
    ASSUME MInv, CInv', NEW c \in Clients, AutoReconnect(c)
    PROVE  MInv'
<1>1. /\ link[c] = "offline" /\ link' = [link EXCEPT ![c] = "connecting"]
      /\ UNCHANGED <<subscribed, unheard, mqttConn, numRetried, timers, stage, faults, failures, clean>>
  BY DEF AutoReconnect
<1>2. \A d \in Clients : link'[d] = IF d = c THEN "connecting" ELSE link[d]
  BY <1>1 DEF MInv, CInv, ConnectionTypes
<1>3. Made' = Made /\ Closing' = Closing /\ EndedOnce' = EndedOnce
  BY <1>1, <1>2 DEF Made, Closing, EndedOnce
<1>. QED  BY <1>1, <1>3 DEF MInv, OtherTypes, NoFaultYet, Counted

\* The first fault finds one client, and that is alive.
LEMMA FirstFault ==
    ASSUME MInv, faults = 0, NEW c \in Clients, link[c] \in {"connecting", "connected"}
    PROVE  Made = {c} /\ Closing = {} /\ timers = 0 /\ Cardinality(Made) = 1 /\ Cardinality(Closing) = 0
<1>1. c \in Made /\ \A d \in Made : d = c
  BY DEF MInv, NoFaultYet, Made
<1>2. Made = {c}
  BY <1>1
<1>3. Closing = {}
  BY <1>1 DEF Closing, Made
<1>. QED  BY <1>2, <1>3, FS_Singleton, FS_EmptySet DEF MInv, NoFaultYet

\* A refused subscription counts as a fault that closes nothing.
LEMMA ConnectKeeps ==
    ASSUME MInv, CInv', NEW c \in Clients, OnConnect(c)
    PROVE  MInv'
<1>1. /\ link[c] = "connecting" /\ link' = [link EXCEPT ![c] = "connected"]
      /\ UNCHANGED <<mqttConn, timers, stage, clean>>
      /\ numRetried' \in {1, numRetried}
      /\ \/ failures' = failures /\ faults' = faults
         \/ failures' = 0 /\ (faults' = faults \/ (faults < Faults /\ faults' = faults + 1))
      /\ subscribed' \subseteq subscribed \cup ({mqttClient} \ {Null})
      /\ unheard' \subseteq unheard \cup ({mqttClient} \ {Null})
  BY DEF OnConnect, Subscribe, Crash
<1>2. \A d \in Clients : link'[d] = IF d = c THEN "connected" ELSE link[d]
  BY <1>1 DEF MInv, CInv, ConnectionTypes
<1>3. Made' = Made /\ Closing' = Closing /\ EndedOnce' = EndedOnce /\ c \in Made
  BY <1>1, <1>2 DEF Made, Closing, EndedOnce
<1>4. OtherTypes'
  BY <1>1, ConnectionAssumption DEF MInv, CInv, ConnectionTypes, OtherTypes
<1>5. NoFaultYet'
  BY <1>1, <1>3 DEF MInv, NoFaultYet, OtherTypes
<1>6. Counted'
  <2>1. CASE faults' = 0
    BY <2>1 DEF Counted
  <2>2. CASE faults = 0 /\ faults' = 1
    BY <1>1, <1>3, <2>2, FirstFault, Counts DEF Counted
  <2>3. CASE faults > 0
    BY <1>1, <1>3, <2>3, Counts DEF MInv, CInv, ConnectionTypes, OtherTypes, Counted
  <2>. QED  BY <1>1, <2>1, <2>2, <2>3 DEF MInv, OtherTypes
<1>. QED  BY <1>4, <1>5, <1>6 DEF MInv

LEMMA ErrorCounts == ASSUME MInv, CInv', NEW c \in Clients, OnError(c) PROVE MInv'
<1>1. /\ link[c] \in {"connecting", "connected"} /\ faults < Faults /\ faults' = faults + 1 /\ failures' = failures + 1
      /\ UNCHANGED <<subscribed, unheard, mqttClient, mqttConn, numRetried, timers, stage, clean>>
  BY DEF OnError, Fault, Crash
<1>2. OtherTypes'
  BY <1>1, ConnectionAssumption DEF MInv, CInv, ConnectionTypes, OtherTypes
<1>. DEFINE D == {c} \cup ({mqttClient} \cap Made)
<1>3. /\ \A d \in Clients \ D : link'[d] = link[d]
      /\ \A d \in D : link'[d] # "unused"
  <2>. DEFINE refused == [link EXCEPT ![c] = "refused"]
  <2>1. refused \in [Clients -> Links]
    BY DEF MInv, CInv, ConnectionTypes, Links
  <2>2. CASE mqttClient = Null
    BY <1>1, <2>2, NullIsNoClient DEF OnError, MInv, CInv, ConnectionTypes, Made
  <2>3. CASE mqttClient # Null
    <3>1. mqttClient \in Clients /\ link' = [refused EXCEPT ![mqttClient] = Ended(refused[mqttClient])]
      BY <2>3 DEF OnError, MInv, CInv, ConnectionTypes
    <3>2. \A d \in Clients : link'[d] = IF d = mqttClient THEN Ended(refused[d]) ELSE refused[d]
      BY <2>1, <3>1
    <3>3. \A d \in Clients : refused[d] = IF d = c THEN "refused" ELSE link[d]
      BY DEF MInv, CInv, ConnectionTypes
    <3>4. Ended("unused") = "unused" /\ \A l \in Links \ {"unused"} : Ended(l) # "unused"
      BY DEF Ended, Links
    <3>. HIDE DEF refused
    <3>5. \A d \in Clients \ D : link'[d] = link[d]
      <4>1. ASSUME NEW d \in Clients, d = mqttClient, d \notin Made, d # c PROVE link'[d] = link[d]
        BY <3>2, <3>3, <3>4, <4>1 DEF Made
      <4>. QED  BY <3>2, <3>3, <4>1
    <3>6. \A d \in D : link'[d] # "unused"
      BY <2>1, <3>2, <3>3, <3>4 DEF Made
    <3>. QED  BY <3>5, <3>6
  <2>. QED  BY <2>2, <2>3
<1>4. D \in SUBSET Made /\ link' \in [Clients -> Links] /\ ConnectionTypes
  BY <1>1 DEF MInv, CInv, ConnectionTypes, Made
<1>5. Made' = Made /\ Closing' \ {c, mqttClient} \subseteq Closing
  <2>. HIDE DEF D
  <2>1. Made' = Made /\ Closing' \ D \subseteq Closing
    BY <1>3, <1>4, SameMade
  <2>. QED  BY <2>1 DEF D
<1>6. Cardinality(Closing') <= Cardinality(Closing) + 2
  BY <1>5, Counts, AtMostTwoMore
<1>7. EndedOnce' = EndedOnce /\ c \in Made
  BY <1>1 DEF EndedOnce, Made
<1>8. CASE faults = 0
  <2>1. Made = {c} /\ Closing = {} /\ timers = 0 /\ Cardinality(Made) = 1
    BY <1>1, <1>8, FirstFault
  <2>2. Closing' \subseteq Made'
    BY DEF Closing, Made
  <2>3. Cardinality(Closing') <= 1
    BY <1>5, <2>1, <2>2, Counts, KeepsAll
  <2>4. Counted'
    BY <1>1, <1>5, <1>8, <2>1, <2>3, Counts DEF Counted
  <2>. QED  BY <1>1, <1>2, <1>8, <2>4 DEF MInv, NoFaultYet
<1>9. CASE faults # 0
  <2>1. Counted'
    BY <1>1, <1>5, <1>6, <1>7, <1>9, Counts DEF MInv, CInv, ConnectionTypes, OtherTypes, Counted
  <2>. QED  BY <1>1, <1>2, <1>9, <2>1 DEF MInv, NoFaultYet, OtherTypes
<1>. QED  BY <1>8, <1>9

LEMMA BreakCounts == ASSUME MInv, CInv', NEW c \in Clients, OnBreak(c) PROVE MInv'
<1>1. /\ link[c] \in {"connecting", "connected"} /\ faults < Faults
      /\ faults' = faults + 1 /\ failures' = failures + 1
      /\ link' = [link EXCEPT ![c] = "offline"] /\ CloseHandler(link')
  BY DEF OnBreak, Fault
<1>2. /\ UNCHANGED <<subscribed, unheard, mqttConn, stage, clean>>
      /\ numRetried' >= 1 /\ numRetried' <= Retries + 1
      /\ timers' \in {timers, timers + 1}
  BY <1>1, HandlerTypes DEF MInv, CInv
<1>3. OtherTypes'
  BY <1>1, <1>2, ConnectionAssumption DEF MInv, CInv, ConnectionTypes, OtherTypes
<1>4. \A d \in Clients : link'[d] = IF d = c THEN "offline" ELSE link[d]
  BY <1>1 DEF MInv, CInv, ConnectionTypes
<1>5. Made' = Made /\ Closing' = Closing /\ EndedOnce' = EndedOnce /\ c \in Made
  BY <1>1, <1>2, <1>4 DEF Made, Closing, EndedOnce
<1>6. Counted'
  <2>1. CASE faults = 0
    BY <1>1, <1>2, <1>5, <2>1, FirstFault, Counts DEF Counted
  <2>2. CASE faults # 0
    BY <1>1, <1>2, <1>5, <2>2, Counts DEF MInv, CInv, ConnectionTypes, OtherTypes, Counted
  <2>. QED  BY <2>1, <2>2
<1>. QED  BY <1>1, <1>3, <1>6 DEF MInv, NoFaultYet, OtherTypes

LEMMA CloseCounts == ASSUME MInv, CInv', NEW c \in Clients, OnClose(c) PROVE MInv'
<1>1. /\ link[c] \in {"refused", "ending"} /\ CloseHandler(link')
      /\ link' = [link EXCEPT ![c] = IF @ = "refused" THEN "offline" ELSE "ended"]
      /\ UNCHANGED <<faults, failures>>
  BY DEF OnClose
<1>2. /\ UNCHANGED <<subscribed, unheard, mqttConn, stage, clean>>
      /\ numRetried' >= 1 /\ numRetried' <= Retries + 1
      /\ timers' \in {timers, timers + 1}
      /\ mqttConn = Null => timers' = timers
  BY <1>1, HandlerTypes DEF MInv, CInv
<1>3. OtherTypes'
  BY <1>1, <1>2 DEF MInv, CInv, ConnectionTypes, OtherTypes
<1>4. /\ \A d \in Clients : d # c => link'[d] = link[d]
      /\ link'[c] \in {"offline", "ended"}
  BY <1>1 DEF MInv, CInv, ConnectionTypes
<1>5. Made' = Made /\ Closing' \subseteq Closing /\ c \in Closing \ Closing' /\ EndedOnce' = EndedOnce
  BY <1>1, <1>2, <1>4 DEF Made, Closing, EndedOnce
<1>6. Cardinality(Closing') + 1 <= Cardinality(Closing)
  BY <1>5, Counts, GainsOne
<1>7. NoFaultYet'
  BY <1>1, <1>2, <1>5 DEF MInv, NoFaultYet
<1>8. Counted'
  BY <1>1, <1>2, <1>5, <1>6, Counts DEF MInv, CInv, ConnectionTypes, OtherTypes, Counted
<1>. QED  BY <1>3, <1>7, <1>8 DEF MInv

LEMMA StopCounts == ASSUME MInv, CInv', Stop \/ CloseClient \/ EndAnswered PROVE MInv'
<1>1. /\ UNCHANGED <<numRetried, timers, faults, failures>> /\ mqttConn' \in {mqttConn, Null}
      /\ subscribed' \subseteq subscribed /\ unheard' = unheard /\ clean' \in {clean, TRUE, FALSE}
  BY DEF Stop, CloseClient, EndAnswered, NothingLeftOver
<1>2. OtherTypes'
  BY <1>1 DEF MInv, OtherTypes
<1>3. CASE Stop \/ EndAnswered
  <2>1. UNCHANGED <<link, mqttConn>>
    BY <1>3 DEF Stop, EndAnswered
  <2>2. Made' = Made /\ Closing' = Closing
    BY <2>1 DEF Made, Closing
  <2>3. EndedOnce <= EndedOnce'
    BY <1>3 DEF Stop, EndAnswered, EndedOnce
  <2>4. Counted'
    BY <1>1, <2>2, <2>3, Counts DEF MInv, CInv, ConnectionTypes, OtherTypes, Counted
  <2>. QED  BY <1>1, <1>2, <2>1, <2>2, <2>4 DEF MInv, NoFaultYet
<1>4. CASE CloseClient
  <2>1. /\ stage = "draining" /\ stage' = "ending" /\ mqttConn' = Null /\ mqttClient \in Clients
        /\ link' = [link EXCEPT ![mqttClient] = Ended(link[mqttClient])]
    BY <1>4 DEF CloseClient, MInv, CInv, ConnectionTypes, ClientThere
  <2>2. /\ Ended("unused") = "unused"
        /\ \A l \in Links \ {"unused"} : Ended(l) # "unused"
    BY DEF Ended, Links
  <2>3. /\ \A d \in Clients : d # mqttClient => link'[d] = link[d]
        /\ link'[mqttClient] = Ended(link[mqttClient]) /\ link[mqttClient] \in Links
    BY <2>1 DEF MInv, CInv, ConnectionTypes
  <2>4. Made' = Made /\ Closing' \ {mqttClient} \subseteq Closing
    BY <2>1, <2>2, <2>3 DEF Made, Closing
  <2>5. Cardinality(Closing') <= Cardinality(Closing) + 1
    BY <2>4, Counts, LosesOne
  <2>6. EndedOnce = 0 /\ EndedOnce' = 1
    BY <2>1 DEF EndedOnce
  <2>7. Counted'
    BY <1>1, <2>4, <2>5, <2>6, Counts DEF MInv, CInv, ConnectionTypes, OtherTypes, Counted
  <2>. QED  BY <1>1, <1>2, <2>1, <2>4, <2>7 DEF MInv, NoFaultYet
<1>. QED  BY <1>3, <1>4

LEMMA Counting == Spec => []MInv
<1>1. Init => MInv
  <2>1. Init => CInv
    BY ConnectionInit
  <2>2. Init => clean \in BOOLEAN
    BY Zenon DEF Init
  <2>. QED  BY <2>1, <2>2, ConnectionAssumption DEF Init, MInv, OtherTypes, NoFaultYet, Counted, Made, Closing
<1>2. CInv /\ [Next]_vars => CInv'
  BY ConnectionStep
<1>3. MInv /\ [Next]_vars => MInv'
  <2>. SUFFICES ASSUME MInv, [Next]_vars PROVE MInv'
    OBVIOUS
  <2>1. CInv'
    BY <1>2 DEF MInv
  <2>2. CASE UNCHANGED vars
    BY <2>1, <2>2 DEF vars, MInv, OtherTypes, NoFaultYet, Counted, Made, Closing, EndedOnce
  <2>. QED
    BY <2>1, <2>2, MakingKeeps, ConnectKeeps, ReconnectKeeps, ErrorCounts, BreakCounts, CloseCounts, StopCounts
    DEF Next, ClientStep
<1>. QED  BY <1>1, <1>3, PTL DEF Spec

\* Two timers for a fault are the most there can be: timers and retries stay
\* within their numbers, and no handler leaves anything else behind.
THEOREM TypesHold == Spec => []TypeOK
<1>1. MInv => TypeOK
  <2>. SUFFICES ASSUME MInv PROVE TypeOK
    OBVIOUS
  <2>. USE ConnectionAssumption DEF MInv, CInv, ConnectionTypes, OtherTypes
  <2>1. timers <= 2 * Faults
    <3>1. CASE faults = 0
      BY <3>1 DEF NoFaultYet
    <3>2. CASE faults > 0
      <4>1. Cardinality(Made) # 0
        BY <3>2, Counts, ClientsFinite, FS_EmptySet DEF Counted
      <4>. QED  BY <3>2, <4>1, Counts DEF Counted
    <3>. QED  BY <3>1, <3>2
  <2>. QED  BY <2>1 DEF TypeOK
<1>. QED  BY Counting, <1>1, PTL

\* The bound on the clients is none: whenever a timer is set there is a client
\* that createConnection() can make, so RetryTimer stands for every timer.
THEOREM TimersFindClients == Spec => [](timers > 0 => \E c \in Clients : link[c] = "unused")
<1>1. MInv => (timers > 0 => \E c \in Clients : link[c] = "unused")
  <2>. SUFFICES ASSUME MInv, timers > 0, \A c \in Clients : link[c] # "unused" PROVE FALSE
    OBVIOUS
  <2>. USE ConnectionAssumption DEF MInv, CInv, ConnectionTypes, OtherTypes
  <2>1. Made = Clients
    BY DEF Made
  <2>2. Cardinality(Clients) = 2 * Faults + 1
    <3>1. 1 \in Int /\ 2 * Faults + 1 \in Int
      OBVIOUS
    <3>. QED  BY <3>1, FS_Interval DEF Clients
  <2>3. faults > 0
    BY DEF NoFaultYet
  <2>. QED  BY <2>1, <2>2, <2>3, Counts DEF Counted
<1>. QED  BY Counting, <1>1, PTL

-----------------------------------------------------------------------------
(* A clean stop.  closeClient() resets mqttConn, so the 'close' handler takes *)
(* the streams that close later for closed on purpose; and nothing is left   *)
(* that could set mqttConn again.                                            *)

Released ==
    clean => stage \in {"ending", "stopped"} /\ mqttConn = Null /\ StopIsFinal

FInv == CInv /\ clean \in BOOLEAN /\ Released

\* The streams that close after a clean stop find mqttConn reset.
LEMMA LateCloseIsIgnored == ASSUME FInv, NEW c \in Clients, OnClose(c) PROVE Released'
<1>1. /\ link' = [link EXCEPT ![c] = IF @ = "refused" THEN "offline" ELSE "ended"]
      /\ link[c] \in {"refused", "ending"} /\ CloseHandler(link') /\ clean' = clean
  BY DEF OnClose, CloseHandler, Crash
<1>. SUFFICES ASSUME clean PROVE Released'
  BY <1>1 DEF Released
<1>2. /\ stage \in {"ending", "stopped"} /\ mqttConn = Null /\ timers = 0 /\ ~crashed
      /\ \A d \in Clients : ~Live(d)
  BY DEF FInv, Released, StopIsFinal
<1>3. UNCHANGED <<mqttConn, timers, stage, crashed>>
  BY <1>1, <1>2 DEF CloseHandler
<1>4. \A d \in Clients : link'[d] = IF d = c THEN "ended" ELSE link[d]
  BY <1>1, <1>2 DEF Live, FInv, CInv, ConnectionTypes
<1>5. \A d \in Clients : ~Live(d)'
  BY <1>2, <1>4 DEF Live
<1>. QED  BY <1>2, <1>3, <1>5 DEF Released, StopIsFinal

LEMMA CloseClientReleases == ASSUME FInv, CloseClient PROVE Released'
<1>1. /\ stage' = "ending" /\ mqttConn' = Null /\ ~crashed /\ clean' = NothingLeftOver
      /\ link' = [link EXCEPT ![mqttClient] = Ended(link[mqttClient])]
      /\ UNCHANGED <<timers, crashed>>
  BY DEF CloseClient
<1>2. \A d \in Clients : link'[d] = IF d = mqttClient THEN Ended(link[d]) ELSE link[d]
  BY <1>1 DEF FInv, CInv, ConnectionTypes
<1>3. \A d \in Clients : Live(d)' => d # mqttClient /\ Live(d)
  BY <1>2 DEF Live, Ended
<1>. QED  BY <1>1, <1>3 DEF Released, StopIsFinal, NothingLeftOver

LEMMA ReleasedStep == FInv /\ [Next]_vars => FInv'
<1>. SUFFICES ASSUME FInv, [Next]_vars PROVE FInv'
  OBVIOUS
<1>1. CInv'
  BY ConnectionStep DEF FInv
<1>2. clean' \in BOOLEAN
  BY DEF FInv, Next, vars, Start, Stop, CloseClient, EndAnswered, RetryTimer, ClientStep, OnConnect,
         OnClose, AutoReconnect, OnError, OnBreak, CloseHandler, Crash, NothingLeftOver
<1>3. ASSUME UNCHANGED vars \/ EndAnswered PROVE Released'
  <2>1. /\ UNCHANGED <<link, mqttConn, timers, clean, crashed>>
        /\ stage' = stage \/ stage' = "stopped"
    BY <1>3 DEF EndAnswered, vars
  <2>. SUFFICES ASSUME clean PROVE Released'
    BY <2>1, Zenon DEF Released
  <2>2. \A d \in Clients : ~Live(d)'
    BY <2>1 DEF FInv, Released, StopIsFinal, Live
  <2>. QED  BY <2>1, <2>2 DEF FInv, Released, StopIsFinal
<1>4. ASSUME Start \/ Stop \/ RetryTimer PROVE Released'
  <2>1. clean' = clean
    BY <1>4 DEF Start, Stop, RetryTimer
  <2>2. stage \in {"idle", "running"} \/ timers > 0
    BY <1>4 DEF Start, Stop, RetryTimer
  <2>3. ~clean
    BY <2>2 DEF FInv, Released, StopIsFinal
  <2>. QED  BY <2>1, <2>3, Zenon DEF Released
<1>5. ASSUME CloseClient PROVE Released'
  BY <1>5, CloseClientReleases
<1>6. ASSUME NEW c \in Clients, OnConnect(c) \/ AutoReconnect(c) \/ OnError(c) \/ OnBreak(c) PROVE Released'
  <2>1. Live(c) /\ clean' = clean
    BY <1>6 DEF OnConnect, AutoReconnect, OnError, OnBreak, CloseHandler, Crash, Live
  <2>2. ~clean
    BY <2>1 DEF FInv, Released, StopIsFinal
  <2>. QED  BY <2>1, <2>2, Zenon DEF Released
<1>7. ASSUME NEW c \in Clients, OnClose(c) PROVE Released'
  BY <1>7, LateCloseIsIgnored
<1>8. Released'
  BY <1>3, <1>4, <1>5, <1>6, <1>7 DEF Next, ClientStep
<1>. QED  BY <1>1, <1>2, <1>8 DEF FInv

\* stop() and the handlers of the MQTT binding: after a stop() that found no timer
\* and no replaced client, no event sets a timer, connects a client or throws.
THEOREM StopFinal == Spec => []StopIsFinal
<1>1. Init => FInv
  BY ConnectionInit DEF Init, FInv, Released
<1>2. FInv => StopIsFinal
  BY DEF FInv, Released, StopIsFinal
<1>. QED  BY <1>1, <1>2, ReleasedStep, PTL DEF Spec

=============================================================================
