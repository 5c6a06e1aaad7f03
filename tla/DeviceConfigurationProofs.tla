--------------------- MODULE DeviceConfigurationProofs ---------------------
(***************************************************************************)
(* Three invariants of DeviceConfiguration, for all its constants: the     *)
(* flag of polling follows the endpoints; the configuration that the agent *)
(* receives from itself is not answered; and a request that is answered    *)
(* without an error has been served.                                       *)
(***************************************************************************)
EXTENDS DeviceConfiguration, WellFoundedInduction, TLAPS

-----------------------------------------------------------------------------
(* The flag.  PollingMatches speaks of the stored record; its invariant    *)
(* also of the one that the handlers have decided on and the library has   *)
(* not stored yet, and of asOf, which never runs ahead of the group: after *)
(* a change of the group no record claims to be up to date.                *)

RecordTypes == [transport : Transports \cup {None}, endpoint : BOOLEAN,
                polling : {"unset", "poll", "push"}, asOf : Nat \cup {None}]

RegistryOK ==
    /\ device \in [there : BOOLEAN, record : RecordTypes]
    /\ group \in [transport : Transports \cup {None}, endpoint : BOOLEAN, version : Nat]
    /\ edit \in [step : {"none", "asked", "decided"}, record : RecordTypes]

NotAhead(record) == record.asOf # None => record.asOf <= group.version

Matches(record) ==
    record.transport = "HTTP" /\ record.asOf = group.version
    => (record.polling = "poll" <=> ~record.endpoint /\ ~group.endpoint)

FlagInv ==
    /\ RegistryOK
    /\ NotAhead(device.record) /\ NotAhead(edit.record)
    /\ Matches(device.record)
    /\ edit.step = "decided" => Matches(edit.record)

LEMMA BlankFacts == Blank \in RecordTypes /\ NotAhead(Blank) /\ Matches(Blank)
BY ConfigurationAssumption DEF Blank, RecordTypes, Transports, NotAhead, Matches

\* The handlers decide for the group as they have read it, or say that they have not.
LEMMA DecisionFacts ==
    ASSUME RegistryOK, NEW record \in RecordTypes, NotAhead(record),
           NEW g, g.transport \in Transports \cup {None}, g.endpoint \in BOOLEAN,
           NEW asOf \in Nat \cup {None},
           asOf # None => asOf = group.version /\ g.endpoint = group.endpoint
    PROVE  LET decided == SetPollingAndDefaultTransport(record, g, asOf)
           IN  decided \in RecordTypes /\ NotAhead(decided) /\ Matches(decided)
<1>. DEFINE transport == First(record.transport, First(g.transport, DefaultTransport))
            decided == SetPollingAndDefaultTransport(record, g, asOf)
            polling == IF record.endpoint \/ g.endpoint THEN "push" ELSE "poll"
<1>1. transport \in Transports /\ None \notin Nat
  BY ConfigurationAssumption DEF First, RecordTypes
<1>2. CASE transport # "HTTP"
  <2>1. decided = [record EXCEPT !.transport = transport]
    BY <1>2 DEF SetPollingAndDefaultTransport
  <2>. HIDE DEF transport, decided
  <2>2. decided \in RecordTypes /\ NotAhead(decided) /\ Matches(decided)
    BY <1>1, <1>2, <2>1 DEF RecordTypes, NotAhead, Matches
  <2>. QED  BY <2>2 DEF decided
<1>3. CASE transport = "HTTP"
  <2>1. decided = [record EXCEPT !.transport = transport, !.polling = polling, !.asOf = asOf]
    BY <1>3 DEF SetPollingAndDefaultTransport
  <2>2. polling \in {"push", "poll"} /\ (polling = "poll" <=> ~record.endpoint /\ ~g.endpoint)
    BY DEF RecordTypes
  <2>. HIDE DEF transport, decided, polling
  <2>3. decided \in RecordTypes
    BY <1>1, <2>1, <2>2 DEF RecordTypes
  <2>4. /\ decided.asOf = asOf /\ decided.endpoint = record.endpoint
        /\ decided.polling = polling
    BY <2>1 DEF RecordTypes
  <2>5. NotAhead(decided) /\ Matches(decided)
    BY <1>1, <2>2, <2>4 DEF NotAhead, Matches, RegistryOK
  <2>. QED  BY <2>3, <2>5 DEF decided
<1>. QED  BY <1>2, <1>3

\* A lookup that creates the device makes a blank one.
LEMMA CreateKeepsFlag ==
    ASSUME FlagInv, NEW req, Create(req), UNCHANGED <<group, edit>>
    PROVE  FlagInv'
<1>1. CASE CreatesDevice(req)
  BY <1>1, BlankFacts DEF Create, FlagInv, RegistryOK, NotAhead, Matches
<1>2. CASE ~CreatesDevice(req)
  BY <1>2 DEF Create, FlagInv, RegistryOK, NotAhead, Matches
<1>. QED  BY <1>1, <1>2

LEMMA NextKeepsFlag == ASSUME FlagInv, [Next]_vars PROVE FlagInv'
<1>. USE DEF FlagInv
<1>1. ASSUME NEW t \in GroupTransports, NEW e \in BOOLEAN, GroupChanges(t, e) PROVE FlagInv'
  <2>1. t \in Transports \cup {None} /\ None \notin Nat
    BY ConfigurationAssumption
  <2>2. RegistryOK'
    BY <1>1, <2>1 DEF GroupChanges, RegistryOK
  <2>3. group'.version = group.version + 1 /\ UNCHANGED <<device, edit>>
    BY <1>1 DEF GroupChanges
  <2>4. ASSUME NEW record \in RecordTypes, NotAhead(record) PROVE NotAhead(record)' /\ Matches(record)'
    BY <2>1, <2>3, <2>4 DEF RegistryOK, RecordTypes, NotAhead, Matches
  <2>5. device.record \in RecordTypes /\ edit.record \in RecordTypes
    BY DEF RegistryOK
  <2>. QED  BY <2>2, <2>3, <2>4, <2>5
<1>2. ASSUME NEW t \in DeviceTransports, NEW e \in BOOLEAN, Edit(t, e) PROVE FlagInv'
  <2>1. t \in Transports \cup {None}
    BY ConfigurationAssumption
  <2>2. RegistryOK' /\ NotAhead(edit.record)'
    BY <1>2, <2>1 DEF Edit, RegistryOK, RecordTypes, NotAhead
  <2>. QED  BY <1>2, <2>2 DEF Edit, NotAhead, Matches
<1>3. CASE Remove
  BY <1>3, BlankFacts DEF Remove, RegistryOK, NotAhead, Matches
<1>4. CASE HandlersRun
  <2>1. edit.record \in RecordTypes
    BY DEF RegistryOK
  <2>2. PICK decided \in RecordTypes :
           /\ edit' = [step |-> "decided", record |-> decided]
           /\ NotAhead(decided) /\ Matches(decided)
    <3>1. CASE edit' = [step |-> "decided",
                        record |-> SetPollingAndDefaultTransport(edit.record, group, group.version)]
      BY <2>1, <3>1, DecisionFacts DEF RegistryOK
    <3>2. CASE edit' = [step |-> "decided", record |-> SetPollingAndDefaultTransport(edit.record, NoGroup, None)]
      BY <2>1, <3>2, DecisionFacts DEF NoGroup
    <3>. QED  BY <1>4, <3>1, <3>2 DEF HandlersRun
  <2>. QED  BY <1>4, <2>2 DEF HandlersRun, RegistryOK, NotAhead, Matches
<1>5. CASE EditStored
  BY <1>5, BlankFacts DEF EditStored, RegistryOK, NotAhead, Matches
<1>6. ASSUME NEW r, LookupAnswered(r) \/ SendHttp(r) PROVE FlagInv'
  <2>1. UNCHANGED <<group, edit>> /\ (Create(requests[r]) \/ UNCHANGED device)
    BY <1>6 DEF LookupAnswered, SendHttp
  <2>2. CASE Create(requests[r])
    BY <2>1, <2>2, CreateKeepsFlag
  <2>3. CASE UNCHANGED device
    BY <2>1, <2>3 DEF RegistryOK, NotAhead, Matches
  <2>. QED  BY <2>1, <2>2, <2>3
<1>7. CASE UNCHANGED registry
  BY <1>7 DEF registry, RegistryOK, NotAhead, Matches
<1>8. ASSUME NEW r, AskAnswered(r) \/ SendMqtt(r) \/ SendSilent(r) \/ PostAnswered(r) PROVE UNCHANGED registry
  BY <1>8 DEF AskAnswered, SendMqtt, SendSilent, PostAnswered, Becomes
<1>9. ASSUME \/ \E type \in ItemTypes : HttpRequest(type)
             \/ \E items \in ItemLists : MqttRequest(items)
             \/ Echo \/ Notification \/ UNCHANGED vars
      PROVE UNCHANGED registry
  BY <1>9 DEF HttpRequest, MqttRequest, Echo, Notification, Comes, vars
<1>10. ASSUME NEW r, AnswerThrows(r) PROVE FlagInv'
  <2>1. edit' = edit \/ edit' = [step |-> "none", record |-> Blank]
    BY <1>10 DEF AnswerThrows, ProcessEnds
  <2>. QED  BY <1>10, <2>1, BlankFacts DEF AnswerThrows, RegistryOK, NotAhead, Matches
<1>. QED
  BY <1>1, <1>2, <1>3, <1>4, <1>5, <1>6, <1>7, <1>8, <1>9, <1>10 DEF Next, Step

\* Whatever the operator, the library and the devices do, in any order, the flag
\* that setPollingAndDefaultTransport() has left with a device of HTTP agrees with
\* the endpoints, unless the group has changed since.
THEOREM PollingCorrect == Spec => []PollingMatches
<1>1. Init => FlagInv
  BY ConfigurationAssumption, BlankFacts DEF Init, FlagInv, RegistryOK, NotAhead, Matches
<1>2. FlagInv => PollingMatches
  BY DEF FlagInv, Matches, PollingMatches
<1>. QED  BY <1>1, <1>2, NextKeepsFlag, PTL DEF Spec

-----------------------------------------------------------------------------
(* The echo.  What the agent receives from itself carries one item of no   *)
(* known type; it is looked up, passed over, and asks for nothing.         *)

\* Where a request may be in its list: at the first item, or at the next known one.
Positions == {1} \cup {Min(known) : known \in SUBSET Nat}

RequestTypes ==
    [via : {"HTTP", "MQTT", "notification"}, items : Seq(ItemTypes), at : Positions,
     state : {"lookup", "asking", "sending", "posting"} \cup Ended, echo : BOOLEAN,
     transport : Transports \cup {None}, delivered : SUBSET Positions, lost : SUBSET Positions]

Calm(req) ==
    req.echo => /\ req.items = <<"other">> /\ req.state \in {"lookup"} \cup Ended
                /\ req.delivered = {} /\ req.lost = {}

CalmRequests == {req \in RequestTypes : Calm(req)}

EchoInv == RegistryOK /\ requests \in Seq(CalmRequests)

LEMMA NewIsCalm ==
    ASSUME RegistryOK, NEW via \in {"HTTP", "MQTT", "notification"}, NEW items \in Seq(ItemTypes),
           NEW state \in {"lookup", "sending", "failed"}, NEW echo \in BOOLEAN,
           echo => items = <<"other">> /\ state = "lookup"
    PROVE  New(via, items, state, echo) \in CalmRequests
BY DEF New, CalmRequests, RequestTypes, Calm, Ended, Positions, RegistryOK, RecordTypes

LEMMA OverIsCalm ==
    ASSUME NEW req \in CalmRequests, NEW state \in Ended
    PROVE  Over(req, state) \in CalmRequests
BY DEF Over, CalmRequests, RequestTypes, Calm, Positions, Ended

LEMMA FailedIsCalm ==
    ASSUME NEW req \in CalmRequests
    PROVE  Failed(req) \in CalmRequests
BY OverIsCalm DEF Failed, Ended

\* Going on with the list keeps a request calm, for its echo has nothing to go on to.
LEMMA FromIsCalm ==
    ASSUME NEW req \in CalmRequests, NEW first
    PROVE  From(req, first) \in CalmRequests
<1>. DEFINE known == {i \in DOMAIN req.items : i >= first /\ req.items[i] # "other"}
<1>1. req.items \in Seq(ItemTypes)
  BY DEF CalmRequests, RequestTypes
<1>2. known \in SUBSET Nat
  BY <1>1
<1>3. CASE known = {}
  <2>1. From(req, first) = Over(req, "ok")
    BY <1>3 DEF From
  <2>. QED  BY <2>1, OverIsCalm DEF Ended
<1>4. CASE known # {}
  <2>1. From(req, first) = [req EXCEPT !.state = "asking", !.at = Min(known)]
    BY <1>4 DEF From
  <2>2. ~req.echo
    BY <1>4 DEF CalmRequests, Calm
  <2>3. Min(known) \in Positions
    BY <1>2 DEF Positions
  <2>. HIDE DEF known
  <2>. QED  BY <2>1, <2>2, <2>3 DEF CalmRequests, RequestTypes, Calm
<1>. QED  BY <1>3, <1>4

\* A request that has sent something is no echo.
LEMMA SentIsCalm ==
    ASSUME NEW req \in CalmRequests, req.state \in {"asking", "sending", "posting"}
    PROVE  /\ [req EXCEPT !.state = "sending"] \in CalmRequests
           /\ [req EXCEPT !.state = "posting"] \in CalmRequests
           /\ [req EXCEPT !.delivered = @ \cup {req.at}] \in CalmRequests
           /\ [req EXCEPT !.lost = @ \cup {req.at}] \in CalmRequests
<1>1. ~req.echo
  BY DEF CalmRequests, Calm, Ended
<1>. QED  BY <1>1 DEF CalmRequests, RequestTypes, Calm

\* One request becomes a calm one.
LEMMA OneChanges ==
    ASSUME requests \in Seq(CalmRequests), NEW r \in DOMAIN requests, NEW req \in CalmRequests,
           requests' = [requests EXCEPT ![r] = req]
    PROVE  requests' \in Seq(CalmRequests)
OBVIOUS

LEMMA StepKeepsCalm ==
    ASSUME EchoInv, NEW r, Step(r)
    PROVE  requests' \in Seq(CalmRequests)
<1>. DEFINE req == requests[r]
<1>1. r \in DOMAIN requests /\ req \in CalmRequests
  BY DEF Step, EchoInv
<1>2. CASE LookupAnswered(r)
  <2>1. CASE requests' = [requests EXCEPT ![r].state = "ignored"] \/ requests' = [requests EXCEPT ![r].state = "failed"]
    <3>1. [req EXCEPT !.state = "ignored"] \in CalmRequests /\ [req EXCEPT !.state = "failed"] \in CalmRequests
      BY <1>1 DEF CalmRequests, RequestTypes, Calm, Ended
    <3>. QED  BY <1>1, <2>1, <3>1, OneChanges DEF EchoInv
  <2>2. ASSUME NEW t \in Transports \cup {None},
               requests' = [requests EXCEPT ![r] = From([req EXCEPT !.transport = t], 1)]
        PROVE  requests' \in Seq(CalmRequests)
    <3>1. [req EXCEPT !.transport = t] \in CalmRequests
      BY <1>1 DEF CalmRequests, RequestTypes, Calm
    <3>. QED  BY <1>1, <2>2, <3>1, FromIsCalm, OneChanges DEF EchoInv
  <2>3. device.record.transport \in Transports \cup {None}
    BY DEF EchoInv, RegistryOK, RecordTypes
  <2>. QED  BY <1>2, <2>1, <2>2, <2>3 DEF LookupAnswered
<1>3. CASE AskAnswered(r)
  <2>1. Next1(req) \in CalmRequests
    BY <1>1, FromIsCalm DEF Next1
  <2>2. [req EXCEPT !.state = "sending"] \in CalmRequests
    BY <1>1, <1>3, SentIsCalm DEF AskAnswered
  <2>. QED  BY <1>1, <1>3, <2>1, <2>2, FailedIsCalm, OneChanges DEF AskAnswered, Becomes, EchoInv
<1>4. CASE SendMqtt(r) \/ SendSilent(r)
  <2>1. /\ [req EXCEPT !.delivered = @ \cup {req.at}] \in CalmRequests
        /\ [req EXCEPT !.lost = @ \cup {req.at}] \in CalmRequests
    BY <1>1, <1>4, SentIsCalm DEF SendMqtt, SendSilent, Sends
  <2>2. /\ Next1([req EXCEPT !.delivered = @ \cup {req.at}]) \in CalmRequests
        /\ Next1([req EXCEPT !.lost = @ \cup {req.at}]) \in CalmRequests
    BY <2>1, FromIsCalm DEF Next1
  <2>. QED  BY <1>1, <1>4, <2>2, OneChanges DEF SendMqtt, SendSilent, Becomes, EchoInv
<1>5. CASE SendHttp(r)
  <2>1. [req EXCEPT !.state = "posting"] \in CalmRequests
    BY <1>1, <1>5, SentIsCalm DEF SendHttp, Sends
  <2>. QED  BY <1>1, <1>5, <2>1, FailedIsCalm, OneChanges DEF SendHttp, EchoInv
<1>6. CASE PostAnswered(r)
  <2>1. [req EXCEPT !.delivered = @ \cup {req.at}] \in CalmRequests
    BY <1>1, <1>6, SentIsCalm DEF PostAnswered
  <2>2. Next1([req EXCEPT !.delivered = @ \cup {req.at}]) \in CalmRequests
    BY <2>1, FromIsCalm DEF Next1
  <2>. QED  BY <1>1, <1>6, <2>2, FailedIsCalm, OneChanges DEF PostAnswered, Becomes, EchoInv
<1>7. CASE AnswerThrows(r)
  <2>1. \A q \in DOMAIN requests : Over(requests[q], "unanswered") \in CalmRequests
    BY OverIsCalm DEF EchoInv, Ended
  <2>2. CASE requests' = [requests EXCEPT ![r] = Over(req, "unanswered")]
    BY <1>1, <2>1, <2>2, OneChanges DEF EchoInv
  <2>3. CASE ProcessEnds
    BY <2>1, <2>3 DEF ProcessEnds, EchoInv
  <2>. QED  BY <1>7, <2>2, <2>3 DEF AnswerThrows
<1>. QED  BY <1>2, <1>3, <1>4, <1>5, <1>6, <1>7 DEF Step

LEMMA ComesIsCalm ==
    ASSUME EchoInv, NEW req \in CalmRequests, Comes(req)
    PROVE  requests' \in Seq(CalmRequests)
BY DEF Comes, EchoInv

LEMMA NextKeepsCalm == ASSUME EchoInv, [Next]_vars PROVE requests' \in Seq(CalmRequests)
<1>1. ASSUME NEW type \in ItemTypes, HttpRequest(type) PROVE requests' \in Seq(CalmRequests)
  <2>1. <<type>> \in Seq(ItemTypes)
    OBVIOUS
  <2>. QED  BY <1>1, <2>1, NewIsCalm, ComesIsCalm DEF HttpRequest, EchoInv
<1>2. ASSUME NEW items \in ItemLists, MqttRequest(items) PROVE requests' \in Seq(CalmRequests)
  <2>1. items \in Seq(ItemTypes)
    BY ConfigurationAssumption
  <2>. QED  BY <1>2, <2>1, NewIsCalm, ComesIsCalm DEF MqttRequest, EchoInv
<1>3. CASE Echo
  <2>1. <<"other">> \in Seq(ItemTypes)
    BY DEF ItemTypes
  <2>. QED  BY <1>3, <2>1, NewIsCalm, ComesIsCalm DEF Echo, EchoInv
<1>4. CASE Notification
  <2>1. <<"configuration">> \in Seq(ItemTypes)
    BY DEF ItemTypes
  <2>. QED  BY <1>4, <2>1, NewIsCalm, ComesIsCalm DEF Notification, EchoInv
<1>5. ASSUME NEW r, Step(r) PROVE requests' \in Seq(CalmRequests)
  BY <1>5, StepKeepsCalm
<1>6. ASSUME \/ \E t \in GroupTransports, e \in BOOLEAN : GroupChanges(t, e)
             \/ \E t \in DeviceTransports, e \in BOOLEAN : Edit(t, e)
             \/ Remove \/ HandlersRun \/ EditStored \/ UNCHANGED vars
      PROVE requests' \in Seq(CalmRequests)
  BY <1>6 DEF GroupChanges, Edit, Remove, HandlersRun, EditStored, vars, EchoInv
<1>. QED  BY <1>1, <1>2, <1>3, <1>4, <1>5, <1>6 DEF Next

\* The agent that reads its own configuration on the topic it has published it on
\* sends nothing in answer: however many there are, there is no loop.
THEOREM EchoStops == Spec => []EchoesEnd
<1>1. Init => FlagInv /\ EchoInv
  BY ConfigurationAssumption, BlankFacts DEF Init, FlagInv, RegistryOK, EchoInv, NotAhead, Matches
<1>2. FlagInv /\ EchoInv /\ [Next]_vars => FlagInv' /\ EchoInv'
  BY NextKeepsFlag, NextKeepsCalm DEF FlagInv, EchoInv
<1>3. EchoInv => EchoesEnd
  BY DEF EchoInv, CalmRequests, Calm, EchoesEnd
<1>. QED  BY <1>1, <1>2, <1>3, PTL DEF Spec

-----------------------------------------------------------------------------
(* The answers.  A request goes through its list in order, and whatever it *)
(* has passed that asked for values has been sent, or had nothing to be    *)
(* sent with.                                                              *)

ServedBefore(req, n) ==
    \A i \in DOMAIN req.items : i < n /\ req.items[i] = "configuration" => i \in req.delivered \cup req.lost

Honest(req) ==
    /\ req.state \in {"asking", "sending", "posting"} => req.at \in DOMAIN req.items /\ ServedBefore(req, req.at)
    /\ req.state = "ok" => ServedBefore(req, Len(req.items) + 1)
    /\ req.via = "HTTP" => req.lost = {}

HonestRequests == {req \in CalmRequests : Honest(req)}

AnswerInv == RegistryOK /\ requests \in Seq(HonestRequests)

LEMMA ItemsOf ==
    ASSUME NEW req \in CalmRequests
    PROVE  Len(req.items) \in Nat /\ DOMAIN req.items = 1 .. Len(req.items)
BY DEF CalmRequests, RequestTypes

\* The least number of a set, by the well-ordering of the natural numbers.
LEMMA LeastNumber ==
    ASSUME NEW S \in SUBSET Nat, S # {}
    PROVE  Min(S) \in S /\ \A y \in S : Min(S) <= y
<1>. DEFINE R == {ss \in Nat \X Nat : ss[1] < ss[2]}
<1>1. IsWellFoundedOn(R, Nat)
  BY NatLessThanWellFounded DEF OpToRel
<1>2. \A x, y \in Nat : y < x => <<y, x>> \in R
  OBVIOUS
<1>. HIDE DEF R
<1>3. PICK x \in S : \A y \in S : ~(<<y, x>> \in R)
  BY <1>1, WFMin
<1>4. \A y \in S : x <= y
  <2>. SUFFICES ASSUME NEW y \in S, ~(x <= y) PROVE FALSE
    OBVIOUS
  <2>1. y < x /\ x \in Nat /\ y \in Nat
    OBVIOUS
  <2>. QED  BY <1>2, <1>3, <2>1
<1>. QED  BY <1>4 DEF Min

LEMMA NewIsHonest ==
    ASSUME RegistryOK, NEW via \in {"HTTP", "MQTT", "notification"}, NEW items \in Seq(ItemTypes),
           NEW state \in {"lookup", "sending", "failed"}, NEW echo \in BOOLEAN,
           echo => items = <<"other">> /\ state = "lookup",
           state = "sending" => items = <<"configuration">>
    PROVE  New(via, items, state, echo) \in HonestRequests
<1>. DEFINE req == New(via, items, state, echo)
<1>1. req \in CalmRequests
  BY NewIsCalm
<1>2. /\ req.state = state /\ req.items = items /\ req.at = 1 /\ req.lost = {}
  BY DEF New
<1>. HIDE DEF req
<1>3. req.state = "sending" => req.at \in DOMAIN req.items /\ ServedBefore(req, req.at)
  BY <1>2 DEF ServedBefore
<1>. QED  BY <1>1, <1>2, <1>3 DEF HonestRequests, Honest, req

\* An error promises nothing of what was asked for.
LEMMA ErrorIsHonest ==
    ASSUME NEW req \in HonestRequests, NEW state \in {"unanswered", "failed"}
    PROVE  Over(req, state) \in HonestRequests
<1>1. Over(req, state) \in CalmRequests
  BY OverIsCalm DEF HonestRequests, Ended
<1>2. Over(req, state).state = state /\ Over(req, state).via = req.via /\ Over(req, state).lost = req.lost
  BY DEF Over, HonestRequests, CalmRequests, RequestTypes
<1>. QED  BY <1>1, <1>2 DEF HonestRequests, Honest

LEMMA FailedIsHonest ==
    ASSUME NEW req \in HonestRequests
    PROVE  Failed(req) \in HonestRequests
BY ErrorIsHonest DEF Failed

\* The next item that is known is the first after those that have been served.
LEMMA FromIsHonest ==
    ASSUME NEW req \in CalmRequests, NEW first \in Nat, ServedBefore(req, first), req.via = "HTTP" => req.lost = {}
    PROVE  From(req, first) \in HonestRequests
<1>. DEFINE known == {i \in DOMAIN req.items : i >= first /\ req.items[i] # "other"}
<1>1. From(req, first) \in CalmRequests
  BY FromIsCalm
<1>2. Len(req.items) \in Nat /\ DOMAIN req.items = 1 .. Len(req.items) /\ known \in SUBSET Nat
  BY ItemsOf
<1>3. CASE known = {}
  <2>1. From(req, first) = Over(req, "ok")
    BY <1>3 DEF From
  <2>2. /\ Over(req, "ok").state = "ok" /\ Over(req, "ok").via = req.via /\ Over(req, "ok").items = req.items
        /\ Over(req, "ok").lost = req.lost /\ Over(req, "ok").delivered = req.delivered
    BY DEF Over, CalmRequests, RequestTypes
  <2>3. ServedBefore(req, Len(req.items) + 1)
    <3>. SUFFICES ASSUME NEW i \in DOMAIN req.items, req.items[i] = "configuration"
                  PROVE  i \in req.delivered \cup req.lost
      BY DEF ServedBefore
    <3>1. i < first
      BY <1>2, <1>3
    <3>. QED  BY <3>1 DEF ServedBefore
  <2>. QED  BY <1>1, <2>1, <2>2, <2>3 DEF HonestRequests, Honest, ServedBefore
<1>4. CASE known # {}
  <2>. DEFINE at == Min(known)
              next == [req EXCEPT !.state = "asking", !.at = at]
  <2>1. From(req, first) = next
    BY <1>4 DEF From
  <2>2. at \in known /\ \A i \in known : at <= i
    BY <1>2, <1>4, LeastNumber
  <2>. HIDE DEF at
  <2>3. /\ next.state = "asking" /\ next.at = at /\ next.via = req.via /\ next.items = req.items
        /\ next.lost = req.lost /\ next.delivered = req.delivered
    BY DEF CalmRequests, RequestTypes
  <2>4. ServedBefore(req, at)
    <3>. SUFFICES ASSUME NEW i \in DOMAIN req.items, i < at, req.items[i] = "configuration"
                  PROVE  i \in req.delivered \cup req.lost
      BY DEF ServedBefore
    <3>1. i < first
      BY <1>2, <2>2
    <3>. QED  BY <3>1 DEF ServedBefore
  <2>. HIDE DEF next
  <2>. QED  BY <1>1, <2>1, <2>2, <2>3, <2>4 DEF HonestRequests, Honest, ServedBefore
<1>. QED  BY <1>3, <1>4

\* Going on to the next item when this one is served, or asks for nothing to be sent.
LEMMA Next1IsHonest ==
    ASSUME NEW req \in CalmRequests, req.at \in DOMAIN req.items, ServedBefore(req, req.at),
           req.items[req.at] = "configuration" => req.at \in req.delivered \cup req.lost,
           req.via = "HTTP" => req.lost = {}
    PROVE  Next1(req) \in HonestRequests
<1>1. req.at \in Nat
  BY ItemsOf
<1>2. ServedBefore(req, req.at + 1)
  <2>. SUFFICES ASSUME NEW i \in DOMAIN req.items, i < req.at + 1, req.items[i] = "configuration"
                PROVE  i \in req.delivered \cup req.lost
    BY DEF ServedBefore
  <2>1. i \in Nat
    BY ItemsOf
  <2>2. i < req.at \/ i = req.at
    BY <1>1, <2>1
  <2>. QED  BY <2>2 DEF ServedBefore
<1>. QED  BY <1>1, <1>2, FromIsHonest DEF Next1

\* The same for an item that has been sent, or could not be.
LEMMA SentIsHonest ==
    ASSUME NEW req \in HonestRequests, req.state \in {"sending", "posting"}
    PROVE  /\ Next1([req EXCEPT !.delivered = @ \cup {req.at}]) \in HonestRequests
           /\ req.via # "HTTP" => Next1([req EXCEPT !.lost = @ \cup {req.at}]) \in HonestRequests
<1>1. req \in CalmRequests /\ req.at \in DOMAIN req.items /\ ServedBefore(req, req.at)
  BY DEF HonestRequests, Honest
<1>2. Next1([req EXCEPT !.delivered = @ \cup {req.at}]) \in HonestRequests
  <2>. DEFINE sent == [req EXCEPT !.delivered = @ \cup {req.at}]
  <2>1. sent \in CalmRequests
    BY <1>1, SentIsCalm
  <2>2. /\ sent.at = req.at /\ sent.items = req.items /\ sent.lost = req.lost /\ sent.via = req.via
        /\ sent.delivered = req.delivered \cup {req.at}
    BY <1>1 DEF CalmRequests, RequestTypes
  <2>. HIDE DEF sent
  <2>3. ServedBefore(sent, sent.at)
    BY <1>1, <2>2 DEF ServedBefore
  <2>4. Next1(sent) \in HonestRequests
    BY <1>1, <2>1, <2>2, <2>3, Next1IsHonest DEF HonestRequests, Honest
  <2>. QED  BY <2>4 DEF sent
<1>3. ASSUME req.via # "HTTP" PROVE Next1([req EXCEPT !.lost = @ \cup {req.at}]) \in HonestRequests
  <2>. DEFINE lost == [req EXCEPT !.lost = @ \cup {req.at}]
  <2>1. lost \in CalmRequests
    BY <1>1, SentIsCalm
  <2>2. /\ lost.at = req.at /\ lost.items = req.items /\ lost.delivered = req.delivered /\ lost.via = req.via
        /\ lost.lost = req.lost \cup {req.at}
    BY <1>1 DEF CalmRequests, RequestTypes
  <2>. HIDE DEF lost
  <2>3. ServedBefore(lost, lost.at)
    BY <1>1, <2>2 DEF ServedBefore
  <2>4. Next1(lost) \in HonestRequests
    BY <1>1, <1>3, <2>1, <2>2, <2>3, Next1IsHonest
  <2>. QED  BY <2>4 DEF lost
<1>. QED  BY <1>2, <1>3

\* The Context Broker has answered, or the device has an endpoint to post to.
LEMMA StateIsHonest ==
    ASSUME NEW req \in HonestRequests, req.state \in {"asking", "sending"}
    PROVE  /\ [req EXCEPT !.state = "sending"] \in HonestRequests
           /\ [req EXCEPT !.state = "posting"] \in HonestRequests
<1>1. /\ [req EXCEPT !.state = "sending"] \in CalmRequests
      /\ [req EXCEPT !.state = "posting"] \in CalmRequests
  BY SentIsCalm DEF HonestRequests
<1>2. req \in RequestTypes /\ Honest(req)
  BY DEF HonestRequests, CalmRequests
<1>3. ASSUME NEW state \in {"sending", "posting"}
      PROVE  /\ [req EXCEPT !.state = state].state = state
             /\ [req EXCEPT !.state = state].at = req.at
             /\ [req EXCEPT !.state = state].via = req.via
             /\ [req EXCEPT !.state = state].items = req.items
             /\ [req EXCEPT !.state = state].lost = req.lost
             /\ [req EXCEPT !.state = state].delivered = req.delivered
  BY <1>2 DEF RequestTypes
<1>. QED  BY <1>1, <1>2, <1>3 DEF HonestRequests, Honest, ServedBefore

LEMMA OneChangesHonestly ==
    ASSUME requests \in Seq(HonestRequests), NEW r \in DOMAIN requests, NEW req \in HonestRequests,
           requests' = [requests EXCEPT ![r] = req]
    PROVE  requests' \in Seq(HonestRequests)
OBVIOUS

LEMMA StepKeepsHonest ==
    ASSUME AnswerInv, NEW r, Step(r)
    PROVE  requests' \in Seq(HonestRequests)
<1>. DEFINE req == requests[r]
<1>1. /\ r \in DOMAIN requests /\ req \in HonestRequests /\ req \in CalmRequests
      /\ Honest(req) /\ requests \in Seq(HonestRequests)
  BY DEF Step, AnswerInv, HonestRequests
<1>2. CASE LookupAnswered(r)
  <2>1. ASSUME NEW state \in {"ignored", "failed"}, requests' = [requests EXCEPT ![r].state = state]
        PROVE  requests' \in Seq(HonestRequests)
    <3>. DEFINE over == [req EXCEPT !.state = state]
    <3>1. over \in CalmRequests /\ over.state = state /\ over.via = req.via /\ over.lost = req.lost
      <4>1. req.state = "lookup"
        BY <1>2 DEF LookupAnswered
      <4>. QED  BY <1>1, <4>1 DEF CalmRequests, RequestTypes, Calm, Ended
    <3>. HIDE DEF over
    <3>2. over \in HonestRequests
      BY <1>1, <3>1 DEF HonestRequests, Honest
    <3>3. requests' = [requests EXCEPT ![r] = over]
      BY <2>1 DEF over
    <3>. QED  BY <1>1, <3>2, <3>3, OneChangesHonestly
  <2>2. ASSUME NEW t \in Transports \cup {None},
               requests' = [requests EXCEPT ![r] = From([req EXCEPT !.transport = t], 1)]
        PROVE  requests' \in Seq(HonestRequests)
    <3>. DEFINE found == [req EXCEPT !.transport = t]
    <3>1. found \in CalmRequests /\ found.via = req.via /\ found.lost = req.lost
      BY <1>1 DEF CalmRequests, RequestTypes, Calm
    <3>. HIDE DEF found
    <3>2. ServedBefore(found, 1)
      BY <3>1, ItemsOf DEF ServedBefore
    <3>3. From(found, 1) \in HonestRequests
      BY <1>1, <3>1, <3>2, FromIsHonest DEF Honest
    <3>. QED  BY <1>1, <2>2, <3>3, OneChangesHonestly DEF found
  <2>3. device.record.transport \in Transports \cup {None}
    BY DEF AnswerInv, RegistryOK, RecordTypes
  <2>. QED  BY <1>2, <2>1, <2>2, <2>3 DEF LookupAnswered
<1>3. CASE AskAnswered(r)
  <2>1. req.state = "asking"
    BY <1>3 DEF AskAnswered
  <2>2. req.items[req.at] = "subscription" => Next1(req) \in HonestRequests
    BY <1>1, <2>1, Next1IsHonest DEF Honest
  <2>3. [req EXCEPT !.state = "sending"] \in HonestRequests
    BY <1>1, <2>1, StateIsHonest
  <2>4. Failed(req) \in HonestRequests
    BY <1>1, FailedIsHonest
  <2>. QED  BY <1>1, <1>3, <2>2, <2>3, <2>4, OneChangesHonestly DEF AskAnswered, Becomes
<1>4. CASE SendMqtt(r) \/ SendSilent(r)
  <2>1. req.state = "sending" /\ req.via # "HTTP"
    BY <1>4 DEF SendMqtt, SendSilent, Sends, Sender
  <2>2. /\ Next1([req EXCEPT !.delivered = @ \cup {req.at}]) \in HonestRequests
        /\ Next1([req EXCEPT !.lost = @ \cup {req.at}]) \in HonestRequests
    BY <1>1, <2>1, SentIsHonest
  <2>. QED  BY <1>1, <1>4, <2>2, OneChangesHonestly DEF SendMqtt, SendSilent, Becomes
<1>5. CASE SendHttp(r)
  <2>1. req.state = "sending"
    BY <1>5 DEF SendHttp, Sends
  <2>2. [req EXCEPT !.state = "posting"] \in HonestRequests
    BY <1>1, <2>1, StateIsHonest
  <2>3. Failed(req) \in HonestRequests
    BY <1>1, FailedIsHonest
  <2>. QED  BY <1>1, <1>5, <2>2, <2>3, OneChangesHonestly DEF SendHttp
<1>6. CASE PostAnswered(r)
  <2>1. req.state = "posting"
    BY <1>6 DEF PostAnswered
  <2>2. Next1([req EXCEPT !.delivered = @ \cup {req.at}]) \in HonestRequests
    BY <1>1, <2>1, SentIsHonest
  <2>3. Failed(req) \in HonestRequests
    BY <1>1, FailedIsHonest
  <2>. QED  BY <1>1, <1>6, <2>2, <2>3, OneChangesHonestly DEF PostAnswered, Becomes
<1>7. CASE AnswerThrows(r)
  <2>1. \A q \in DOMAIN requests : Over(requests[q], "unanswered") \in HonestRequests
    BY ErrorIsHonest DEF AnswerInv, Ended
  <2>2. CASE requests' = [requests EXCEPT ![r] = Over(req, "unanswered")]
    BY <1>1, <2>1, <2>2, OneChangesHonestly DEF AnswerInv
  <2>3. CASE ProcessEnds
    BY <2>1, <2>3 DEF ProcessEnds, AnswerInv
  <2>. QED  BY <1>7, <2>2, <2>3 DEF AnswerThrows
<1>. QED  BY <1>2, <1>3, <1>4, <1>5, <1>6, <1>7 DEF Step

LEMMA ComesIsHonest ==
    ASSUME AnswerInv, NEW req \in HonestRequests, Comes(req)
    PROVE  requests' \in Seq(HonestRequests)
BY DEF Comes, AnswerInv

LEMMA NextKeepsHonest == ASSUME AnswerInv, [Next]_vars PROVE requests' \in Seq(HonestRequests)
<1>1. ASSUME NEW type \in ItemTypes, HttpRequest(type) PROVE requests' \in Seq(HonestRequests)
  <2>1. <<type>> \in Seq(ItemTypes)
    OBVIOUS
  <2>. QED  BY <1>1, <2>1, NewIsHonest, ComesIsHonest DEF HttpRequest, AnswerInv
<1>2. ASSUME NEW items \in ItemLists, MqttRequest(items) PROVE requests' \in Seq(HonestRequests)
  <2>1. items \in Seq(ItemTypes)
    BY ConfigurationAssumption
  <2>. QED  BY <1>2, <2>1, NewIsHonest, ComesIsHonest DEF MqttRequest, AnswerInv
<1>3. CASE Echo
  <2>1. <<"other">> \in Seq(ItemTypes)
    BY DEF ItemTypes
  <2>. QED  BY <1>3, <2>1, NewIsHonest, ComesIsHonest DEF Echo, AnswerInv
<1>4. CASE Notification
  <2>1. <<"configuration">> \in Seq(ItemTypes)
    BY DEF ItemTypes
  <2>. QED  BY <1>4, <2>1, NewIsHonest, ComesIsHonest DEF Notification, AnswerInv
<1>5. ASSUME NEW r, Step(r) PROVE requests' \in Seq(HonestRequests)
  BY <1>5, StepKeepsHonest
<1>6. ASSUME \/ \E t \in GroupTransports, e \in BOOLEAN : GroupChanges(t, e)
             \/ \E t \in DeviceTransports, e \in BOOLEAN : Edit(t, e)
             \/ Remove \/ HandlersRun \/ EditStored \/ UNCHANGED vars
      PROVE requests' \in Seq(HonestRequests)
  BY <1>6 DEF GroupChanges, Edit, Remove, HandlersRun, EditStored, vars, AnswerInv
<1>. QED  BY <1>1, <1>2, <1>3, <1>4, <1>5, <1>6 DEF Next

\* A request that is answered without an error has brought the device every value
\* it asked for, whatever its list; over HTTP none has been dropped
\* (manageConfiguration() and sendConfigurationToDevice() of the bindings).
THEOREM AnswersAreHonest == Spec => []OkMeansDelivered
<1>1. Init => FlagInv /\ AnswerInv
  BY ConfigurationAssumption, BlankFacts DEF Init, FlagInv, RegistryOK, AnswerInv, NotAhead, Matches
<1>2. FlagInv /\ AnswerInv /\ [Next]_vars => FlagInv' /\ AnswerInv'
  BY NextKeepsFlag, NextKeepsHonest DEF FlagInv, AnswerInv
<1>3. AnswerInv => OkMeansDelivered
  <2>. SUFFICES ASSUME AnswerInv, NEW r \in DOMAIN requests, requests[r].state = "ok"
                PROVE  /\ \A i \in DOMAIN requests[r].items : requests[r].items[i] = "configuration"
                             => i \in requests[r].delivered \cup requests[r].lost
                       /\ requests[r].via = "HTTP" => requests[r].lost = {}
    BY DEF OkMeansDelivered
  <2>1. requests[r] \in CalmRequests /\ Honest(requests[r])
    BY DEF AnswerInv, HonestRequests
  <2>2. \A i \in DOMAIN requests[r].items : i < Len(requests[r].items) + 1
    BY <2>1, ItemsOf
  <2>. QED  BY <2>1, <2>2 DEF Honest, ServedBefore
<1>. QED  BY <1>1, <1>2, <1>3, PTL DEF Spec
=============================================================================
