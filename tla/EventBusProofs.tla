--------------------------- MODULE EventBusProofs ---------------------------
(***************************************************************************)
(* The invariants of the event store, for any number of callers,           *)
(* aggregates and event types, and any history.                            *)
(***************************************************************************)
EXTENDS EventBus, FiniteSetTheorems, TLAPS

(* What an append relies on: the versions before its own are in the store. *)
Follows(event) ==
    /\ event.version >= 1
    /\ \A v \in 1 .. event.version - 1 : v \in Versions(event.aggregateId)

AppendFollows ==
    /\ \A e \in eventStore : e.version >= 1
    /\ \A c \in Caller : pub[c].step = "append" => Follows(pub[c].event)

(* The unique index: the loser of a race for a version throws.             *)
VersionsAreUnique ==
    \A e, f \in eventStore :
        e.aggregateId = f.aggregateId /\ e.version = f.version => e = f

(* A row at a time: the table never holds but finitely many.              *)
StoreIsFinite == IsFiniteSet(eventStore)

BusInv ==
    /\ BusTypeOK
    /\ StoreIsFinite
    /\ VersionsAreContiguous
    /\ VersionsAreUnique
    /\ PublishedIsStored
    /\ AppendFollows

-----------------------------------------------------------------------------
(* A version is in use exactly when a row has it.                          *)
LEMMA VersionsDef ==
    ASSUME NEW a, NEW v
    PROVE  v \in Versions(a) <=> \E e \in eventStore : e.aggregateId = a /\ e.version = v
  BY DEF Versions

(* The type of a caller's publish, when it is running.                     *)
LEMMA RunningPublish ==
    ASSUME BusTypeOK, NEW c \in Caller, pub[c].step \in PubStep
    PROVE  /\ pub[c] \in [step : PubStep, event : StoredEvent]
           /\ pub[c].event \in StoredEvent
  BY DEF BusTypeOK, PubState, NoPub, PubStep

(* Moving a running publish to another step leaves its type and its event. *)
LEMMA GotoProperties ==
    ASSUME BusTypeOK, NEW c \in Caller, NEW step \in PubStep,
           pub[c].step \in PubStep, Goto(c, step)
    PROVE  /\ pub' \in [Caller -> PubState]
           /\ pub'[c].step = step
           /\ pub'[c].event = pub[c].event
           /\ \A d \in Caller \ {c} : pub'[d] = pub[d]
  <1>1. pub[c] \in [step : PubStep, event : StoredEvent]
    BY RunningPublish
  <1>2. [pub[c] EXCEPT !.step = step] \in [step : PubStep, event : StoredEvent]
    BY <1>1
  <1>3. pub' = [pub EXCEPT ![c] = [pub[c] EXCEPT !.step = step]]
    BY DEF Goto
  <1> QED
    BY <1>1, <1>2, <1>3 DEF BusTypeOK, PubState

(* A step that leaves the rows alone and moves caller c anywhere but to    *)
(* "append", "dispatch" or "published" keeps the invariant.                *)
LEMMA QuietStep ==
    ASSUME BusInv, NEW c \in Caller, eventStore' = eventStore,
           pub' \in [Caller -> PubState],
           \A d \in Caller \ {c} : pub'[d] = pub[d],
           pub'[c].step \in {"append", "dispatch", "published"} =>
               pub'[c].step = "published" /\ pub[c].step = "dispatch" /\ pub'[c].event = pub[c].event
    PROVE  BusInv'
  <1>1. \A a : Versions(a)' = Versions(a)
    BY DEF Versions
  <1>2. BusTypeOK' /\ StoreIsFinite'
    BY DEF BusInv, BusTypeOK, StoreIsFinite
  <1>3. VersionsAreContiguous' /\ VersionsAreUnique'
    BY <1>1 DEF BusInv, VersionsAreContiguous, VersionsAreUnique
  <1>4. PublishedIsStored'
    BY DEF BusInv, PublishedIsStored
  <1>5. AppendFollows'
    BY <1>1 DEF BusInv, AppendFollows, Follows
  <1> QED
    BY <1>2, <1>3, <1>4, <1>5 DEF BusInv

(* The row that an append adds extends its history by the next version.    *)
LEMMA AppendStep ==
    ASSUME BusInv, NEW c \in Caller, pub[c].step = "append", ~IsDuplicate(pub[c].event),
           eventStore' = eventStore \cup {pub[c].event},
           pub' \in [Caller -> PubState],
           \A d \in Caller \ {c} : pub'[d] = pub[d],
           pub'[c].step \in {"dispatch", "error"}, pub'[c].event = pub[c].event
    PROVE  BusInv'
  <1> DEFINE new == pub[c].event
  <1>1. new \in StoredEvent
    BY RunningPublish DEF BusInv, PubStep
  <1>2. \A a, v : v \in Versions(a)' <=> v \in Versions(a) \/ (a = new.aggregateId /\ v = new.version)
    BY DEF Versions
  <1>3. BusTypeOK' /\ StoreIsFinite'
    BY <1>1, FS_AddElement DEF BusInv, BusTypeOK, StoreIsFinite
  <1>4. \A v \in 1 .. new.version - 1 : v \in Versions(new.aggregateId)
    BY DEF BusInv, AppendFollows, Follows
  <1>5. VersionsAreContiguous'
    <2> SUFFICES ASSUME NEW e \in eventStore', NEW v \in 1 .. e.version
                 PROVE  v \in Versions(e.aggregateId)'
      BY DEF VersionsAreContiguous
    <2>1. CASE e \in eventStore
      BY <1>2, <2>1 DEF BusInv, VersionsAreContiguous
    <2>2. CASE e = new
      <3>1. v = new.version \/ v \in 1 .. new.version - 1
        BY <1>1, <2>2 DEF StoredEvent
      <3> QED
        BY <1>2, <1>4, <2>2, <3>1
    <2> QED
      BY <2>1, <2>2
  <1>6. VersionsAreUnique'
    BY DEF BusInv, VersionsAreUnique, IsDuplicate
  <1>7. PublishedIsStored'
    BY DEF BusInv, PublishedIsStored
  <1>8. AppendFollows'
    <2>1. \A e \in eventStore' : e.version >= 1
      BY DEF BusInv, AppendFollows, Follows
    <2>2. ASSUME NEW event, Follows(event) PROVE Follows(event)'
      BY <1>2, <2>2 DEF Follows
    <2>3. ASSUME NEW d \in Caller, pub'[d].step = "append"
          PROVE  Follows(pub[d].event)'
      <3>1. d # c /\ pub'[d] = pub[d]
        BY <2>3
      <3>2. Follows(pub[d].event)
        BY <2>3, <3>1 DEF BusInv, AppendFollows
      <3> QED
        BY <2>2, <3>1, <3>2
    <2> QED
      BY <2>1, <2>3 DEF AppendFollows
  <1> QED
    BY <1>3, <1>5, <1>6, <1>7, <1>8 DEF BusInv

-----------------------------------------------------------------------------
(* One lemma for each operation of the bus. *)

LEMMA PublishKeeps ==
    ASSUME BusInv, NEW c \in Caller, NEW a \in Aggregate, NEW t \in EventType, Publish(c, a, t)
    PROVE  BusInv'
  <1> DEFINE started == [step |-> "getLatestVersion",
                         event |-> [aggregateId |-> a, version |-> 0, type |-> t]]
  <1>1. started \in PubState
    BY DEF PubState, PubStep, StoredEvent
  <1>2. pub' = [pub EXCEPT ![c] = started] /\ eventStore' = eventStore
    BY DEF Publish
  <1>3. pub' \in [Caller -> PubState]
    BY <1>1, <1>2 DEF BusInv, BusTypeOK
  <1>4. pub'[c].step = "getLatestVersion"
    BY <1>2 DEF BusInv, BusTypeOK
  <1>5. \A d \in Caller \ {c} : pub'[d] = pub[d]
    BY <1>2 DEF BusInv, BusTypeOK
  <1> HIDE DEF started
  <1> QED
    BY <1>2, <1>3, <1>4, <1>5, QuietStep

(* A publish that has read the latest version may append the next one.     *)
LEMMA GetLatestVersionKeeps ==
    ASSUME BusInv, NEW c \in Caller, GetLatestVersion(c)
    PROVE  BusInv'
  <1> DEFINE a == pub[c].event.aggregateId
  <1>1. pub[c] \in [step : PubStep, event : StoredEvent]
    BY RunningPublish DEF BusInv, GetLatestVersion, PubStep
  <1>2. PICK v \in LatestVersion(a) :
           pub' = [pub EXCEPT ![c] = [step  |-> "append",
                                      event |-> [pub[c].event EXCEPT !.version = v + 1]]]
    BY DEF GetLatestVersion
  <1>3. v \in Nat /\ (v = 0 \/ v \in Versions(a))
    BY DEF LatestVersion, Versions, BusInv, BusTypeOK, StoredEvent
  <1>4. \A u \in 1 .. v : u \in Versions(a)
    <2> SUFFICES ASSUME NEW u \in 1 .. v PROVE u \in Versions(a)
      OBVIOUS
    <2>1. PICK e \in eventStore : e.aggregateId = a /\ e.version = v
      BY <1>3, VersionsDef
    <2> QED
      BY <2>1 DEF BusInv, VersionsAreContiguous
  <1> DEFINE new == [pub[c].event EXCEPT !.version = v + 1]
  <1>5. new \in StoredEvent /\ new.aggregateId = a /\ new.version = v + 1
    BY <1>1, <1>3 DEF StoredEvent
  <1>6. /\ pub' \in [Caller -> PubState]
        /\ pub'[c].step = "append"
        /\ pub'[c].event = new
        /\ \A d \in Caller \ {c} : pub'[d] = pub[d]
    <2>1. [step |-> "append", event |-> new] \in PubState
      BY <1>5 DEF PubState, PubStep
    <2> HIDE DEF new
    <2> QED
      BY <1>2, <2>1 DEF BusInv, BusTypeOK, new
  <1>7. eventStore' = eventStore
    BY DEF GetLatestVersion
  <1>8. \A b : Versions(b)' = Versions(b)
    BY <1>7 DEF Versions
  <1> HIDE DEF new, a
  <1>9. /\ BusTypeOK' /\ StoreIsFinite'
        /\ VersionsAreContiguous' /\ VersionsAreUnique' /\ PublishedIsStored'
    BY <1>6, <1>7, <1>8
       DEF BusInv, BusTypeOK, StoreIsFinite, VersionsAreContiguous, VersionsAreUnique,
           PublishedIsStored
  <1>10. AppendFollows'
    <2>1. \A e \in eventStore' : e.version >= 1
      BY <1>7 DEF BusInv, AppendFollows
    <2>2. ASSUME NEW event, Follows(event) PROVE Follows(event)'
      BY <1>8, <2>2 DEF Follows
    <2>3. ASSUME NEW d \in Caller, pub'[d].step = "append"
          PROVE  Follows(pub[d].event)'
      <3>1. CASE d = c
        <4>1. Follows(new)
          BY <1>3, <1>4, <1>5 DEF Follows
        <4> QED
          BY <1>6, <2>2, <3>1, <4>1
      <3>2. CASE d # c
        <4>1. Follows(pub[d].event)
          BY <1>6, <2>3, <3>2 DEF BusInv, AppendFollows
        <4> QED
          BY <1>6, <2>2, <3>2, <4>1
      <3> QED
        BY <3>1, <3>2
    <2> QED
      BY <2>1, <2>3 DEF AppendFollows
  <1> QED
    BY <1>9, <1>10 DEF BusInv

LEMMA AppendKeeps ==
    ASSUME BusInv, NEW c \in Caller, AppendEvent(c) \/ AppendReplyLost(c)
    PROVE  BusInv'
  <1>1. pub[c].step = "append" /\ ~IsDuplicate(pub[c].event)
    BY DEF AppendEvent, AppendReplyLost
  <1>2. eventStore' = eventStore \cup {pub[c].event}
    BY DEF AppendEvent, AppendReplyLost
  <1>3. PICK step \in {"dispatch", "error"} : Goto(c, step)
    BY DEF AppendEvent, AppendReplyLost
  <1>4. /\ pub' \in [Caller -> PubState]
        /\ pub'[c].step = step
        /\ pub'[c].event = pub[c].event
        /\ \A d \in Caller \ {c} : pub'[d] = pub[d]
    BY <1>1, <1>3, GotoProperties DEF BusInv, PubStep
  <1> QED
    BY <1>1, <1>2, <1>4, AppendStep

LEMMA ThrowKeeps ==
    ASSUME BusInv, NEW c \in Caller, AppendIsDuplicate(c) \/ QueryFails(c)
    PROVE  BusInv'
  <1>1. /\ pub[c].step \in {"getLatestVersion", "append"}
        /\ Goto(c, "error")
        /\ eventStore' = eventStore
    BY DEF AppendIsDuplicate, QueryFails
  <1>2. /\ pub' \in [Caller -> PubState]
        /\ pub'[c].step = "error"
        /\ \A d \in Caller \ {c} : pub'[d] = pub[d]
    BY <1>1, GotoProperties DEF BusInv, PubStep
  <1> QED
    BY <1>1, <1>2, QuietStep

LEMMA DispatchKeeps ==
    ASSUME BusInv, NEW c \in Caller, Dispatch(c)
    PROVE  BusInv'
  <1>1. pub[c].step = "dispatch" /\ Goto(c, "published") /\ eventStore' = eventStore
    BY DEF Dispatch
  <1>2. /\ pub' \in [Caller -> PubState]
        /\ pub'[c].step = "published"
        /\ pub'[c].event = pub[c].event
        /\ \A d \in Caller \ {c} : pub'[d] = pub[d]
    BY <1>1, GotoProperties DEF BusInv, PubStep
  <1> QED
    BY <1>1, <1>2, QuietStep

LEMMA ResumeKeeps ==
    ASSUME BusInv, NEW c \in Caller, Resume(c)
    PROVE  BusInv'
  <1>1. pub' = [pub EXCEPT ![c] = NoPub] /\ eventStore' = eventStore
    BY DEF Resume
  <1>2. /\ pub' \in [Caller -> PubState]
        /\ pub'[c].step = "idle"
        /\ \A d \in Caller \ {c} : pub'[d] = pub[d]
    BY <1>1 DEF BusInv, BusTypeOK, PubState, NoPub
  <1> QED
    BY <1>1, <1>2, QuietStep

LEMMA BusCrashKeeps ==
    ASSUME BusInv, BusCrash
    PROVE  BusInv'
  <1>1. eventStore' = eventStore /\ pub' \in [Caller -> PubState]
    BY DEF BusCrash, PubState
  <1>2. \A c \in Caller : pub'[c].step = "idle"
    BY DEF BusCrash, NoPub
  <1>3. \A a : Versions(a)' = Versions(a)
    BY <1>1 DEF Versions
  <1> QED
    BY <1>1, <1>2, <1>3
       DEF BusInv, BusTypeOK, StoreIsFinite, VersionsAreContiguous, VersionsAreUnique,
           PublishedIsStored, AppendFollows, Follows

LEMMA BusStutterKeeps ==
    ASSUME BusInv, UNCHANGED busVars
    PROVE  BusInv'
  <1>1. \A a : Versions(a)' = Versions(a)
    BY DEF Versions, busVars
  <1> QED
    BY <1>1
       DEF busVars, BusInv, BusTypeOK, StoreIsFinite, VersionsAreContiguous,
           VersionsAreUnique, PublishedIsStored, AppendFollows, Follows

LEMMA StoreKeeps ==
    ASSUME BusInv, NEW c \in Caller, StoreStep(c) \/ StoreFault(c)
    PROVE  BusInv'
  BY GetLatestVersionKeeps, AppendKeeps, ThrowKeeps DEF StoreStep, StoreFault

(* Where a step inside publish leads: on, or past the one row it adds.     *)
LEMMA PublishAdvances ==
    ASSUME BusInv, NEW c \in Caller, StoreStep(c) \/ StoreFault(c) \/ Dispatch(c)
    PROVE  \/ /\ eventStore' = eventStore
              /\ pub'[c].step \in {"append", "published", "error"}
              /\ pub'[c].step = "append" => pub[c].step = "getLatestVersion"
              /\ pub'[c].step = "published" => pub[c].step = "dispatch"
           \/ /\ eventStore' = eventStore \cup {pub[c].event}
              /\ pub[c].event \notin eventStore
              /\ pub[c].step = "append"
              /\ pub'[c].step \in {"dispatch", "error"}
  <1>1. CASE GetLatestVersion(c)
    BY <1>1 DEF GetLatestVersion, BusInv, BusTypeOK
  <1>2. ASSUME NEW step \in {"dispatch", "published", "error"}, Goto(c, step),
               pub[c].step \in PubStep
        PROVE  pub'[c].step = step
    BY <1>2, GotoProperties DEF BusInv, PubStep
  <1>3. CASE AppendEvent(c) \/ AppendReplyLost(c)
    <2>1. /\ pub[c].step = "append" /\ ~IsDuplicate(pub[c].event)
          /\ eventStore' = eventStore \cup {pub[c].event}
          /\ Goto(c, "dispatch") \/ Goto(c, "error")
      BY <1>3 DEF AppendEvent, AppendReplyLost
    <2>2. pub[c].event \notin eventStore
      BY <2>1 DEF IsDuplicate
    <2>3. pub'[c].step \in {"dispatch", "error"}
      BY <1>2, <2>1 DEF PubStep
    <2> QED
      BY <2>1, <2>2, <2>3
  <1>4. CASE AppendIsDuplicate(c) \/ QueryFails(c) \/ Dispatch(c)
    BY <1>2, <1>4 DEF AppendIsDuplicate, QueryFails, Dispatch, PubStep
  <1> QED
    BY <1>1, <1>3, <1>4 DEF StoreStep, StoreFault

(* A step inside publish leaves what is published and by whom.             *)
LEMMA PublishMoves ==
    ASSUME BusInv, NEW c \in Caller, StoreStep(c) \/ StoreFault(c) \/ Dispatch(c)
    PROVE  /\ BusInv'
           /\ pub[c].step # "idle" /\ pub'[c].step # "idle"
           /\ pub'[c].event.aggregateId = pub[c].event.aggregateId
           /\ pub'[c].event.type = pub[c].event.type
           /\ \A d \in Caller \ {c} : pub'[d] = pub[d]
           /\ eventStore \subseteq eventStore'
           /\ eventStore' \subseteq eventStore \cup {pub[c].event}
  <1>1. BusInv' /\ pub'[c].step # "idle"
    BY StoreKeeps, DispatchKeeps, PublishAdvances
  <1>2. CASE GetLatestVersion(c)
    <2>1. pub[c] \in [step : PubStep, event : StoredEvent]
      BY <1>2, RunningPublish DEF BusInv, GetLatestVersion, PubStep
    <2>2. PICK v : pub' = [pub EXCEPT ![c] = [step  |-> "append",
                                               event |-> [pub[c].event EXCEPT !.version = v + 1]]]
      BY <1>2 DEF GetLatestVersion
    <2> DEFINE new == [pub[c].event EXCEPT !.version = v + 1]
    <2>3. new.aggregateId = pub[c].event.aggregateId /\ new.type = pub[c].event.type
      BY <2>1 DEF StoredEvent
    <2> HIDE DEF new
    <2>4. pub' = [pub EXCEPT ![c] = [step  |-> "append", event |-> new]]
      BY <2>2 DEF new
    <2>5. pub'[c].event = new /\ \A d \in Caller \ {c} : pub'[d] = pub[d]
      BY <2>4 DEF BusInv, BusTypeOK
    <2> QED
      BY <1>1, <1>2, <2>3, <2>5 DEF GetLatestVersion
  <1>3. CASE ~GetLatestVersion(c)
    <2>1. /\ pub[c].step \in PubStep
          /\ eventStore \subseteq eventStore'
          /\ eventStore' \subseteq eventStore \cup {pub[c].event}
      BY <1>3 DEF StoreStep, StoreFault, AppendEvent, AppendIsDuplicate, QueryFails,
                  AppendReplyLost, Dispatch, PubStep
    <2>2. PICK step \in PubStep : Goto(c, step)
      BY <1>3 DEF StoreStep, StoreFault, AppendEvent, AppendIsDuplicate, QueryFails,
                  AppendReplyLost, Dispatch, PubStep
    <2>3. pub'[c].event = pub[c].event /\ \A d \in Caller \ {c} : pub'[d] = pub[d]
      BY <2>1, <2>2, GotoProperties DEF BusInv
    <2> QED
      BY <1>1, <2>1, <2>3 DEF PubStep
  <1> QED
    BY <1>2, <1>3

-----------------------------------------------------------------------------
(* Counting the elements of finite sets *)

LEMMA Counts ==
    ASSUME NEW S, IsFiniteSet(S), NEW T, T \subseteq S
    PROVE  /\ IsFiniteSet(T)
           /\ Cardinality(S) \in Nat /\ Cardinality(T) \in Nat
           /\ Cardinality(T) <= Cardinality(S)
  BY FS_Subset, FS_CardinalityType

LEMMA CountsLess ==
    ASSUME NEW S, IsFiniteSet(S), NEW x \in S, NEW T, T \subseteq S \ {x}
    PROVE  Cardinality(T) + 1 <= Cardinality(S)
  <1>1. /\ IsFiniteSet(S \ {x})
        /\ Cardinality(S \ {x}) = Cardinality(S) - 1
        /\ Cardinality(S) \in Nat
    BY FS_RemoveElement, FS_CardinalityType
  <1> QED
    BY <1>1, Counts

LEMMA CountsMore ==
    ASSUME NEW S, IsFiniteSet(S), NEW x, NEW T, T \subseteq S \cup {x}
    PROVE  /\ IsFiniteSet(T)
           /\ Cardinality(T) <= Cardinality(S) + 1
  <1>1. /\ IsFiniteSet(S \cup {x})
        /\ Cardinality(S \cup {x}) <= Cardinality(S) + 1
        /\ Cardinality(S \cup {x}) \in Nat /\ Cardinality(S) \in Nat
    BY FS_AddElement, FS_CardinalityType
  <1>2. IsFiniteSet(T) /\ Cardinality(T) \in Nat /\ Cardinality(T) <= Cardinality(S \cup {x})
    BY <1>1, Counts
  <1> QED
    BY <1>1, <1>2

-----------------------------------------------------------------------------
LEMMA BusInvInitially ==
    ASSUME BusInit
    PROVE  BusInv
  BY FS_EmptySet
     DEF BusInit, BusInv, BusTypeOK, StoreIsFinite, VersionsAreContiguous, VersionsAreUnique,
         PublishedIsStored, AppendFollows, PubState, NoPub

LEMMA BusInvInductive ==
    ASSUME BusInv, [BusNext]_busVars
    PROVE  BusInv'
  <1>1. CASE UNCHANGED busVars
    BY <1>1, BusStutterKeeps
  <1>2. ASSUME NEW c \in Caller, NEW a \in Aggregate, NEW t \in EventType, Publish(c, a, t)
        PROVE  BusInv'
    BY <1>2, PublishKeeps
  <1>3. ASSUME NEW c \in Caller, StoreStep(c) \/ StoreFault(c)
        PROVE  BusInv'
    BY <1>3, StoreKeeps
  <1>4. ASSUME NEW c \in Caller, Dispatch(c)
        PROVE  BusInv'
    BY <1>4, DispatchKeeps
  <1>5. ASSUME NEW c \in Caller, Resume(c)
        PROVE  BusInv'
    BY <1>5, ResumeKeeps
  <1>6. CASE BusCrash
    BY <1>6, BusCrashKeeps
  <1> QED
    BY <1>1, <1>2, <1>3, <1>4, <1>5, <1>6 DEF BusNext

(* The invariant of the bus, and the properties that are parts of it.      *)
THEOREM BusInvariant == BusSpec => []BusInv
  <1>1. BusInit => BusInv
    BY BusInvInitially
  <1>2. BusInv /\ [BusNext]_busVars => BusInv'
    BY BusInvInductive
  <1> QED
    BY <1>1, <1>2, PTL DEF BusSpec

(* Every variable of the bus keeps its type.                               *)
THEOREM BusTypeCorrect == BusSpec => []BusTypeOK
  BY BusInvariant, PTL DEF BusInv

(* No interleaving of publishes, failure or crash leaves a hole in a       *)
(* history (EventBus.ts:28).                                               *)
THEOREM HistoriesContiguous == BusSpec => []VersionsAreContiguous
  BY BusInvariant, PTL DEF BusInv

(* What is dispatched or acknowledged is stored (EventBus.ts:41).          *)
THEOREM PublishDurable == BusSpec => []PublishedIsStored
  BY BusInvariant, PTL DEF BusInv
=============================================================================
