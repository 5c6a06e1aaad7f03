----------------------- MODULE BoundedTelemetryHistory -----------------------
(***************************************************************************)
(* BoundedTelemetry with what a claim of lib/README.md speaks about: the   *)
(* limits that came with the last payload of each metric that the Context  *)
(* Broker took, whether its answer arrived or not.                         *)
(***************************************************************************)
EXTENDS BoundedTelemetry

VARIABLES given,    \* limits of the payload whose update is in flight
          told      \* limits of the last payload whose update was stored

history == <<given, told>>
historyVars == <<vars, history>>

HInit ==
    /\ Init
    /\ given = [m \in Metrics |-> NoLimits]
    /\ told = [m \in Metrics |-> NoLimits]

HMessage(m, p) ==
    \/ SendUnbounded(m, p) /\ given' = [given EXCEPT ![m] = NoLimits] /\ UNCHANGED told
    \/ RejectBounded(m, p) /\ UNCHANGED history
    \/ /\ SendBounded(m, p)
       /\ given' = [given EXCEPT ![m] = p.limits]
       /\ UNCHANGED told

HUpdateStored(u) ==
    /\ UpdateSucceeds(u) \/ AnswerLost(u)
    /\ told' = [told EXCEPT ![u.metric] = given[u.metric]]
    /\ UNCHANGED given

HUpdateFails(u) == UpdateFails(u) /\ UNCHANGED history

HRestart == Restart /\ UNCHANGED history

HNext ==
    \/ \E m \in Metrics, p \in Payload : HMessage(m, p)
    \/ \E u \in inFlight : HUpdateStored(u) \/ HUpdateFails(u)
    \/ HRestart

HSpec == HInit /\ [][HNext]_historyVars

-----------------------------------------------------------------------------
\* lib/README.md: the limits "must remain available".  A valid limit in the
\* last payload that reached the Context Broker can be read there.
LimitsAvailable ==
    \A m \in Metrics, l \in Limits : Known(told[m][l]) => orion[m].limits[l] = told[m][l]

=============================================================================
