--------------------------- MODULE EventLogProofs ---------------------------
(***************************************************************************)
(* The event bus implements the append-only log of EventLog, for any       *)
(* number of callers, aggregates and event types.                          *)
(***************************************************************************)
EXTENDS EventBusProofs, SequenceTheorems

(* A row is the one that its aggregate and version name.                   *)
LEMMA EventAtIsRow ==
    ASSUME VersionsAreUnique, NEW e \in eventStore
    PROVE  EventAt(e.aggregateId, e.version) = e
  <1>1. \E f \in eventStore : f.aggregateId = e.aggregateId /\ f.version = e.version
    OBVIOUS
  <1>2. /\ EventAt(e.aggregateId, e.version) \in eventStore
        /\ EventAt(e.aggregateId, e.version).aggregateId = e.aggregateId
        /\ EventAt(e.aggregateId, e.version).version = e.version
    BY <1>1 DEF EventAt
  <1> QED
    BY <1>2 DEF VersionsAreUnique

(* With the versions 1..n, a history is a sequence of n event types.       *)
LEMMA HistoryIsSequence ==
    ASSUME BusInv, NEW a, NEW n \in Nat, Versions(a) = 1 .. n
    PROVE  /\ History(a) \in Seq(EventType)
           /\ Len(History(a)) = n
           /\ \A i \in 1 .. n : History(a)[i] = EventAt(a, i).type
  <1>1. ASSUME NEW i \in 1 .. n PROVE EventAt(a, i).type \in EventType
    <2>1. PICK e \in eventStore : e.aggregateId = a /\ e.version = i
      BY VersionsDef
    <2>2. EventAt(a, i) = e
      BY <2>1, EventAtIsRow DEF BusInv
    <2> QED
      BY <2>2 DEF BusInv, BusTypeOK, StoredEvent
  <1>2. History(a) = [i \in 1 .. n |-> EventAt(a, i).type]
    BY DEF History
  <1>3. History(a) \in [1 .. n -> EventType]
    BY <1>1, <1>2
  <1>4. History(a) \in Seq(EventType)
    BY <1>3, SeqDef
  <1>5. Len(History(a)) = n
    BY <1>3, <1>4, LenProperties
  <1> QED
    BY <1>2, <1>4, <1>5

(* The same of the next state.                                             *)
LEMMA HistoryIsSequenceNext ==
    ASSUME NEW a, NEW n \in Nat
    PROVE  (BusInv /\ Versions(a) = 1 .. n)' =>
               (/\ History(a) \in Seq(EventType)
                /\ Len(History(a)) = n
                /\ \A i \in 1 .. n : History(a)[i] = EventAt(a, i).type)'
  <1>1. BusInv /\ Versions(a) = 1 .. n =>
               /\ History(a) \in Seq(EventType)
               /\ Len(History(a)) = n
               /\ \A i \in 1 .. n : History(a)[i] = EventAt(a, i).type
    BY HistoryIsSequence
  <1> QED
    BY <1>1, PTL

(* A history in which nothing changes stays the same value.                *)
LEMMA HistoryUnchanged ==
    ASSUME BusInv, BusInv', NEW a, eventStore \subseteq eventStore',
           Versions(a)' = Versions(a)
    PROVE  History(a)' = History(a)
  <1>1. ASSUME NEW v \in Versions(a) PROVE EventAt(a, v)' = EventAt(a, v)
    <2>1. PICK e \in eventStore : e.aggregateId = a /\ e.version = v
      BY VersionsDef
    <2>2. EventAt(a, v) = e
      BY <2>1, EventAtIsRow DEF BusInv
    <2>3. EventAt(a, v)' = e
      <3>1. e \in eventStore' /\ VersionsAreUnique'
        BY <2>1 DEF BusInv
      <3>2. \A x \in eventStore' : x.aggregateId = a /\ x.version = v => x = e
        BY <2>1, <3>1 DEF VersionsAreUnique
      <3> QED
        BY <2>1, <3>1, <3>2 DEF EventAt
    <2> QED
      BY <2>2, <2>3
  <1> QED
    BY <1>1 DEF History

(* A successful INSERT records one event at the end of one history.        *)
LEMMA AppendRecords ==
    ASSUME BusInv, BusInv', NEW new \in StoredEvent,
           ~IsDuplicate(new), Follows(new), eventStore' = eventStore \cup {new}
    PROVE  Log!Next
  <1> DEFINE a == new.aggregateId
             v == new.version
  <1>1. eventStore' = eventStore \cup {new}
    OBVIOUS
  <1>2. a \in Aggregate /\ new.type \in EventType /\ v \in Nat
    BY DEF StoredEvent
  <1>3. v >= 1 /\ \A u \in 1 .. v - 1 : u \in Versions(a)
    BY DEF Follows
  <1>4. v \notin Versions(a)
    BY DEF IsDuplicate, Versions
  <1>5. Versions(a) = 1 .. v - 1
    <2>1. ASSUME NEW u \in Versions(a) PROVE u \in 1 .. v - 1
      <3>1. PICK e \in eventStore : e.aggregateId = a /\ e.version = u
        BY VersionsDef
      <3>2. u \in Nat /\ u >= 1
        BY <3>1 DEF BusInv, BusTypeOK, StoredEvent, AppendFollows
      <3>3. \A w \in 1 .. u : w \in Versions(a)
        BY <3>1 DEF BusInv, VersionsAreContiguous
      <3>4. ~ (v <= u)
        BY <1>2, <1>3, <1>4, <3>2, <3>3
      <3> QED
        BY <1>2, <3>2, <3>4
    <2> QED
      BY <1>3, <2>1
  <1>6. Versions(a)' = Versions(a) \cup {v}
    BY <1>1 DEF Versions
  <1>7. Versions(a)' = 1 .. v
    BY <1>2, <1>3, <1>5, <1>6
  <1>8. /\ History(a) \in Seq(EventType)
        /\ Len(History(a)) = v - 1
        /\ \A i \in 1 .. v - 1 : History(a)[i] = EventAt(a, i).type
    BY <1>2, <1>3, <1>5, HistoryIsSequence
  <1>9. /\ History(a)' \in Seq(EventType)
        /\ Len(History(a)') = v
        /\ \A i \in 1 .. v : History(a)'[i] = EventAt(a, i)'.type
    BY <1>2, <1>7, HistoryIsSequenceNext
  <1>10. EventAt(a, v)' = new
    <2>1. new \in eventStore' /\ VersionsAreUnique'
      BY <1>1 DEF BusInv
    <2>2. \A x \in eventStore' : x.aggregateId = a /\ x.version = v => x = new
      BY <2>1 DEF VersionsAreUnique
    <2> QED
      BY <2>1, <2>2 DEF EventAt
  <1>11. ASSUME NEW i \in 1 .. v - 1 PROVE EventAt(a, i)' = EventAt(a, i)
    <2>1. PICK e \in eventStore : e.aggregateId = a /\ e.version = i
      BY <1>5, VersionsDef
    <2>2. EventAt(a, i) = e
      BY <2>1, EventAtIsRow DEF BusInv
    <2>3. EventAt(a, i)' = e
      <3>1. e \in eventStore' /\ VersionsAreUnique'
        BY <1>1, <2>1 DEF BusInv
      <3>2. \A x \in eventStore' : x.aggregateId = a /\ x.version = i => x = e
        BY <2>1, <3>1 DEF VersionsAreUnique
      <3> QED
        BY <2>1, <3>1, <3>2 DEF EventAt
    <2> QED
      BY <2>2, <2>3
  <1>12. History(a)' = Append(History(a), new.type)
    <2> DEFINE longer == Append(History(a), new.type)
    <2>1. /\ longer \in Seq(EventType)
          /\ Len(longer) = v
          /\ \A i \in 1 .. v - 1 : longer[i] = History(a)[i]
          /\ longer[v] = new.type
      BY <1>2, <1>3, <1>8, AppendProperties
    <2> HIDE DEF longer
    <2>2. \A i \in 1 .. v : History(a)'[i] = longer[i]
      <3> SUFFICES ASSUME NEW i \in 1 .. v PROVE History(a)'[i] = longer[i]
        OBVIOUS
      <3>1. CASE i = v
        BY <1>9, <1>10, <2>1, <3>1
      <3>2. CASE i # v
        <4>1. i \in 1 .. v - 1
          BY <1>2, <3>2
        <4> QED
          BY <1>8, <1>9, <1>11, <2>1, <4>1
      <3> QED
        BY <3>1, <3>2
    <2>3. History(a)' = longer
      BY <1>9, <2>1, <2>2, SeqEqual
    <2> QED
      BY <2>3 DEF longer
  <1>13. ASSUME NEW b \in Aggregate, b # a PROVE History(b)' = History(b)
    <2>1. Versions(b)' = Versions(b)
      BY <1>1, <1>13 DEF Versions
    <2>2. eventStore \subseteq eventStore'
      BY <1>1
    <2> QED
      BY <2>1, <2>2, HistoryUnchanged
  <1>14. Log!Record(a, new.type)
    BY <1>2, <1>12, <1>13 DEF Log!Record
  <1> QED
    BY <1>2, <1>14 DEF Log!Next

-----------------------------------------------------------------------------
(* Without a new row every history stays.                                  *)
LEMMA NoRecord ==
    ASSUME eventStore' = eventStore
    PROVE  UNCHANGED [a \in Aggregate |-> History(a)]
  <1>1. \A a : History(a)' = History(a)
    BY DEF History, Versions, EventAt
  <1> QED
    BY <1>1

LEMMA LogInitially ==
    ASSUME BusInit
    PROVE  Log!Init
  <1>1. ASSUME NEW a \in Aggregate PROVE History(a) = << >>
    <2>1. BusInv /\ Versions(a) = 1 .. 0
      BY BusInvInitially DEF BusInit, Versions
    <2>2. History(a) \in Seq(EventType) /\ Len(History(a)) = 0
      BY <2>1, HistoryIsSequence
    <2> QED
      BY <2>2, EmptySeq
  <1> QED
    BY <1>1 DEF Log!Init

(* Whatever system the bus is a part of, rows come by its appends alone.   *)
LEMMA AppendsRecord ==
    ASSUME BusInv, BusInv',
           eventStore' = eventStore \/ \E c \in Caller : AppendEvent(c) \/ AppendReplyLost(c)
    PROVE  [Log!Next]_([a \in Aggregate |-> History(a)])
  <1>1. CASE eventStore' = eventStore
    BY <1>1, NoRecord
  <1>2. ASSUME NEW c \in Caller, AppendEvent(c) \/ AppendReplyLost(c)
        PROVE  Log!Next
    <2>1. /\ pub[c].step = "append"
          /\ ~IsDuplicate(pub[c].event)
          /\ eventStore' = eventStore \cup {pub[c].event}
      BY <1>2 DEF AppendEvent, AppendReplyLost
    <2>2. PICK new \in StoredEvent : new = pub[c].event
      BY <2>1, RunningPublish DEF BusInv, PubStep
    <2>3. ~IsDuplicate(new) /\ Follows(new) /\ eventStore' = eventStore \cup {new}
      BY <2>1, <2>2 DEF BusInv, AppendFollows
    <2> QED
      BY <2>3, AppendRecords
  <1> QED
    BY <1>1, <1>2

LEMMA StoreAppends ==
    ASSUME NEW c \in Caller, StoreStep(c) \/ StoreFault(c) \/ Dispatch(c)
    PROVE  eventStore' = eventStore \/ AppendEvent(c) \/ AppendReplyLost(c)
  BY DEF StoreStep, StoreFault, GetLatestVersion, AppendIsDuplicate, QueryFails, Dispatch

LEMMA LogStep ==
    ASSUME BusInv, BusInv', [BusNext]_busVars
    PROVE  [Log!Next]_([a \in Aggregate |-> History(a)])
  <1>1. eventStore' = eventStore \/ \E c \in Caller : AppendEvent(c) \/ AppendReplyLost(c)
    BY StoreAppends DEF BusNext, busVars, Publish, Resume, BusCrash
  <1> QED
    BY <1>1, AppendsRecord

(* Each step of the bus appends one event to one history, or none at all.  *)
THEOREM BusImplementsLog == BusSpec => ImplementsEventLog
  <1>1. BusInit => Log!Init
    BY LogInitially
  <1>2. BusInv /\ BusInv' /\ [BusNext]_busVars => [Log!Next]_([a \in Aggregate |-> History(a)])
    BY LogStep
  <1> QED
    BY <1>1, <1>2, BusInvariant, PTL DEF BusSpec, ImplementsEventLog, Log!Spec
=============================================================================
