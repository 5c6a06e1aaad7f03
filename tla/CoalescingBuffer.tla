-------------------------- MODULE CoalescingBuffer --------------------------
(***************************************************************************)
(* What the telemetry queue promises its caller, without queue, scheduler, *)
(* timer or callbacks: at most one item waits for each key and it is the   *)
(* newest one; at most one item of a group, and at most Concurrency items, *)
(* are served at a time; an item that waits is lost only when a new key    *)
(* needs its room, or when the buffer has been shut.                       *)
(***************************************************************************)
EXTENDS Integers, FiniteSets

CONSTANTS Keys, Groups, GroupOf, Items, Concurrency, MaxPending

VARIABLES waiting,  \* the entries that wait, at most one for each key
          serving,  \* the entries being served
          open      \* the buffer takes entries

Init ==
    /\ waiting = {}
    /\ serving = {}
    /\ open = TRUE

Waits(k) == \E e \in waiting : e.key = k

\* The newest item of a key replaces the one that waits.
Put(k, v) ==
    /\ open
    /\ Waits(k) \/ Cardinality(waiting) < MaxPending
    /\ waiting' = {e \in waiting : e.key # k} \cup {[key |-> k, item |-> v]}
    /\ UNCHANGED <<serving, open>>

\* A new key in a full buffer takes the room of another.
PutEvicting(k, v) ==
    /\ open
    /\ ~Waits(k)
    /\ Cardinality(waiting) = MaxPending
    /\ \E victim \in waiting : waiting' = (waiting \ {victim}) \cup {[key |-> k, item |-> v]}
    /\ UNCHANGED <<serving, open>>

MayServe(e) ==
    /\ e \in waiting
    /\ Cardinality(serving) < Concurrency
    /\ \A s \in serving : GroupOf[s.key] # GroupOf[e.key]

Serve(e) ==
    /\ MayServe(e)
    /\ waiting' = waiting \ {e}
    /\ serving' = serving \cup {e}
    /\ UNCHANGED open

\* Served, and the service over, in one step.
ServeAtOnce(e) ==
    /\ MayServe(e)
    /\ waiting' = waiting \ {e}
    /\ UNCHANGED <<serving, open>>

Finish(e) ==
    /\ e \in serving
    /\ serving' = serving \ {e}
    /\ UNCHANGED <<waiting, open>>

Shut ==
    /\ open' = FALSE
    /\ UNCHANGED <<waiting, serving>>

\* A shut buffer may give up.
Discard ==
    /\ ~open
    /\ waiting' = {}
    /\ UNCHANGED <<serving, open>>

Next ==
    \/ \E k \in Keys, v \in Items : Put(k, v) \/ PutEvicting(k, v)
    \/ \E e \in waiting : Serve(e) \/ ServeAtOnce(e)
    \/ \E e \in serving : Finish(e)
    \/ Shut
    \/ Discard

Spec == Init /\ [][Next]_<<waiting, serving, open>>

\* No key waits for ever: it is served, or it is dropped.
EveryKeyLeaves == \A k \in Keys : Waits(k) ~> ~Waits(k)

=============================================================================
