------------------------------ MODULE EventBus ------------------------------
(***************************************************************************)
(* EventBus.publish over the event_store table (src/events/EventBus.ts,    *)
(* src/models/repositories/EventStoreRepository.ts).                       *)
(*                                                                         *)
(* A publish is three awaits of one asynchronous call: read the latest     *)
(* version of the aggregate, INSERT the next one under the unique index    *)
(* (aggregate_id, version), run the local handlers.  Any number of calls   *)
(* run interleaved; a caller c stands for one of them.  The handlers in    *)
(* this repository belong to the payment read model, so the module that    *)
(* has that state adds their effect to Dispatch.                           *)
(***************************************************************************)
EXTENDS Integers, FiniteSets

CONSTANTS
    Caller,      \* asynchronous calls that can be in flight at once
    Aggregate,   \* order numbers and subscription ids
    EventType,
    DbFault,     \* how a MySQL statement may fail, see BusAssumption
    MaxVersion   \* bound on the history of one aggregate

(* "rejected": the statement has no effect and the await throws;           *)
(* "replyLost": the statement took effect and the await throws.            *)
ASSUME BusAssumption ==
    /\ DbFault \subseteq {"rejected", "replyLost"}
    /\ MaxVersion \in Nat

(* A process serves finitely many calls at once.                           *)
ASSUME CallerAssumption == IsFiniteSet(Caller)

VARIABLES
    eventStore,  \* the rows of event_store
    pub          \* pub[c]: the publish call of c

busVars == <<eventStore, pub>>

StoredEvent == [aggregateId : Aggregate, version : Nat, type : EventType]

PubStep == {"getLatestVersion", "append", "dispatch", "published", "error"}

NoPub == [step |-> "idle"]

PubState == {NoPub} \cup [step : PubStep, event : StoredEvent]

BusTypeOK ==
    /\ eventStore \subseteq StoredEvent
    /\ pub \in [Caller -> PubState]

-----------------------------------------------------------------------------
(* SELECT MAX(version) ... WHERE aggregate_id = a, and 0 when that is NULL. *)
Versions(a) == {e.version : e \in {r \in eventStore : r.aggregateId = a}}

MutLatestFromOne(a) ==
    {v \in Versions(a) \cup {1} : \A w \in Versions(a) : w <= v}

LatestVersion(a) ==
    {v \in Versions(a) \cup {0} : \A w \in Versions(a) : w <= v}

(* The unique index idx_aggregate_version refuses the row. *)
IsDuplicate(event) ==
    \E e \in eventStore :
        e.aggregateId = event.aggregateId /\ e.version = event.version

HasRoom(a) == \A v \in Versions(a) : v < MaxVersion

Goto(c, step) == pub' = [pub EXCEPT ![c].step = step]

-----------------------------------------------------------------------------
(* One action per await of publish. *)

Publish(c, a, t) ==
    /\ pub[c] = NoPub
    /\ pub' = [pub EXCEPT ![c] =
                  [step  |-> "getLatestVersion",
                   event |-> [aggregateId |-> a, version |-> 0, type |-> t]]]
    /\ UNCHANGED eventStore

GetLatestVersion(c) ==
    /\ pub[c].step = "getLatestVersion"
    /\ \E v \in LatestVersion(pub[c].event.aggregateId) :
          pub' = [pub EXCEPT ![c] = [step  |-> "append",
                                     event |-> [pub[c].event EXCEPT !.version = v + 1]]]
    /\ UNCHANGED eventStore

(* A bug the history must exclude: INSERT ... ON DUPLICATE KEY UPDATE. *)
MutUpsertEvent(c) ==
    /\ pub[c].step = "append"
    /\ eventStore' = {e \in eventStore : \/ e.aggregateId # pub[c].event.aggregateId
                                         \/ e.version # pub[c].event.version}
                     \cup {pub[c].event}
    /\ Goto(c, "dispatch")

AppendEvent(c) ==
    /\ pub[c].step = "append"
    /\ ~IsDuplicate(pub[c].event)
    /\ eventStore' = eventStore \cup {pub[c].event}
    /\ Goto(c, "dispatch")

AppendReplyLost(c) ==
    /\ "replyLost" \in DbFault
    /\ pub[c].step = "append"
    /\ ~IsDuplicate(pub[c].event)
    /\ eventStore' = eventStore \cup {pub[c].event}
    /\ Goto(c, "error")

(* A bug: INSERT IGNORE. *)
MutIgnoreDuplicate(c) ==
    /\ pub[c].step = "append"
    /\ IsDuplicate(pub[c].event)
    /\ Goto(c, "dispatch")
    /\ UNCHANGED eventStore

AppendIsDuplicate(c) ==
    /\ pub[c].step = "append"
    /\ IsDuplicate(pub[c].event)
    /\ Goto(c, "error")
    /\ UNCHANGED eventStore

QueryFails(c) ==
    /\ "rejected" \in DbFault
    /\ pub[c].step \in {"getLatestVersion", "append"}
    /\ Goto(c, "error")
    /\ UNCHANGED eventStore

(* Promise.allSettled over the handlers: whatever they do, publish returns. *)
Dispatch(c) ==
    /\ pub[c].step = "dispatch"
    /\ Goto(c, "published")
    /\ UNCHANGED eventStore

(* A bug: the finished publish is not cleaned up. *)
MutResumeKeepsEvent(c) ==
    /\ pub[c].step \in {"published", "error"}
    /\ Goto(c, "idle")
    /\ UNCHANGED eventStore

(* The awaiting handler resumes. *)
Resume(c) ==
    /\ pub[c].step \in {"published", "error"}
    /\ pub' = [pub EXCEPT ![c] = NoPub]
    /\ UNCHANGED eventStore

(* The Node process dies and is restarted: calls in flight are gone. *)
BusCrash ==
    /\ pub' = [c \in Caller |-> NoPub]
    /\ UNCHANGED eventStore

StoreStep(c) ==
    \/ GetLatestVersion(c)
    \/ AppendEvent(c)
    \/ AppendIsDuplicate(c)

StoreFault(c) ==
    \/ QueryFails(c)
    \/ AppendReplyLost(c)

-----------------------------------------------------------------------------
(* The bus on its own: callers publish any event about any aggregate. *)

BusInit ==
    /\ eventStore = {}
    /\ pub = [c \in Caller |-> NoPub]

BusNext ==
    \/ \E c \in Caller :
          \/ \E a \in Aggregate, t \in EventType : HasRoom(a) /\ Publish(c, a, t)
          \/ StoreStep(c)
          \/ StoreFault(c)
          \/ Dispatch(c)
          \/ Resume(c)
    \/ BusCrash

BusSpec == BusInit /\ [][BusNext]_busVars

-----------------------------------------------------------------------------
(* Properties *)

(* Every aggregate's versions are 1..n: concurrent publishes, failed       *)
(* statements and crashes leave no hole (EventBus.ts:28, MAX(version)+1).  *)
VersionsAreContiguous ==
    \A e \in eventStore : \A v \in 1 .. e.version : v \in Versions(e.aggregateId)

(* A publish that dispatches to handlers, or returns to its caller without *)
(* throwing, has its own event in the store (EventBus.ts:41 before :44).   *)
PublishedIsStored ==
    \A c \in Caller :
        pub[c].step \in {"dispatch", "published"} => pub[c].event \in eventStore

(* The rows, read ORDER BY version, are an append-only history.            *)
EventAt(a, v) == CHOOSE e \in eventStore : e.aggregateId = a /\ e.version = v

History(a) == [v \in Versions(a) |-> EventAt(a, v).type]

Log == INSTANCE EventLog WITH log <- [a \in Aggregate |-> History(a)]

(* Each step of the bus appends one event to one history or none at all.   *)
ImplementsEventLog == Log!Spec
=============================================================================
