------------------------------ MODULE EventLog ------------------------------
(***************************************************************************)
(* What the event store promises (README.md, "Event Sourcing"): for every  *)
(* aggregate (a payment or a subscription) one history, which only grows,  *)
(* at its end, one event at a time.                                        *)
(***************************************************************************)
EXTENDS Sequences

CONSTANTS Aggregate, EventType

VARIABLE log

Init == log = [a \in Aggregate |-> << >>]

Record(a, t) == log' = [log EXCEPT ![a] = Append(log[a], t)]

Next == \E a \in Aggregate, t \in EventType : Record(a, t)

Spec == Init /\ [][Next]_log
=============================================================================
