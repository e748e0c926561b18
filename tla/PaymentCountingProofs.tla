------------------------ MODULE PaymentCountingProofs ------------------------
(***************************************************************************)
(* How often a payment is announced, and what the read model counts, for   *)
(* any number of callers; and what requests that do not overlap keep.      *)
(***************************************************************************)
EXTENDS PaymentHandlerProofs

(* A step of a call is a step of no other.                                 *)
LEMMA OnlyOneMoves ==
    ASSUME PayInv, NEW c \in Caller, CallStep(c) \/ CallFault(c)
    PROVE  OthersStay(c)
  <1>1. CASE PublishStep(c) \/ PublishFault(c) \/ DispatchToProjector(c) \/ ProjectorFails(c)
    <2>1. (StoreStep(c) \/ StoreFault(c) \/ Dispatch(c)) /\ call' = call
      BY <1>1 DEF PublishStep, PublishFault, DispatchToProjector, ProjectorFails, handlerVars
    <2> QED
      BY <2>1, PublishMoves DEF PayInv, OthersStay
  <1>2. CASE ~(PublishStep(c) \/ PublishFault(c) \/ DispatchToProjector(c) \/ ProjectorFails(c))
    <2>1. PICK pc \in Pc : call[c].pc # "idle" /\ Continue(c, pc)
      BY <1>2
         DEF CallStep, CallFault, Pc, CheckKey, Insert, SetKey, Find, UpdateStatus,
             PublishReturns, Enqueue, StatementFails, InsertReplyLost, UpdateReplyLost
    <2>2. \A d \in Caller \ {c} : pub'[d] = pub[d]
      BY <1>2
         DEF CallStep, CallFault, CheckKey, Insert, SetKey, Find, UpdateStatus, PublishReturns,
             Enqueue, StatementFails, InsertReplyLost, UpdateReplyLost, Publish, Resume, busVars,
             PayInv, BusInv, BusTypeOK
    <2> QED
      BY <2>1, <2>2, ContinueProperties DEF PayInv, OthersStay
  <1> QED
    BY <1>1, <1>2

(* The calls of an operation that may still add their event to a history.  *)
Flying(o, op) ==
    {c \in Caller :
        /\ call[c].op = op
        /\ call[c].order = o
        /\ \/ call[c].pc = "update"
           \/ call[c].pc = "publish" /\ pub[c].step \in {"getLatestVersion", "append"}}

(* What a call flies for: a row that is there, and no key's creation.      *)
LEMMA FlightsMove ==
    ASSUME PayInv, [PaymentNext]_paymentVars, NEW c \in Caller, NEW o \in Order,
           NEW op \in Operation \ {"create"}, c \in Flying(o, op)'
    PROVE  \/ c \in Flying(o, op)
           \/ Find(c) /\ Admissible(op, o)
  <1>1. call'[c].op = op /\ call'[c].order = o /\ call'[c].pc \in {"update", "publish"}
    BY DEF Flying
  <1>2. CASE call'[c] = call[c] /\ pub'[c] = pub[c]
    BY <1>2 DEF Flying
  <1>3. CASE CallStep(c) \/ CallFault(c)
    <2>1. CASE PublishStep(c) \/ PublishFault(c) \/ DispatchToProjector(c) \/ ProjectorFails(c)
      <3>1. (StoreStep(c) \/ StoreFault(c) \/ Dispatch(c)) /\ call' = call
        BY <2>1 DEF PublishStep, PublishFault, DispatchToProjector, ProjectorFails, handlerVars
      <3>2. pub'[c].step \in {"getLatestVersion", "append"} => pub[c].step = "getLatestVersion"
        BY <3>1, PublishAdvances DEF PayInv
      <3> QED
        BY <3>1, <3>2 DEF Flying
    <2>2. CASE ~(PublishStep(c) \/ PublishFault(c) \/ DispatchToProjector(c) \/ ProjectorFails(c))
      <3>1. PICK pc \in Pc : call[c].pc # "idle" /\ Continue(c, pc)
        BY <1>3, <2>2
           DEF CallStep, CallFault, Pc, CheckKey, Insert, SetKey, Find, UpdateStatus,
               PublishReturns, Enqueue, StatementFails, InsertReplyLost, UpdateReplyLost
      <3>2. call'[c].pc = pc /\ call[c].op = op /\ call[c].order = o
        BY <1>1, <3>1, ContinueProperties DEF PayInv
      <3>3. CASE Find(c)
        BY <1>1, <3>2, <3>3, ContinueProperties DEF Find, PayInv, Pc
      <3>4. CASE UpdateStatus(c)
        BY <3>2, <3>4 DEF Flying, UpdateStatus
      <3>5. CASE CheckKey(c) \/ Insert(c) \/ SetKey(c) \/ Enqueue(c) \/ InsertReplyLost(c)
        BY <3>2, <3>5 DEF PayInv, CallInv, PcOfOp, CheckKey, Insert, SetKey, Enqueue, InsertReplyLost
      <3>6. CASE PublishReturns(c) \/ StatementFails(c) \/ UpdateReplyLost(c)
        <4>1. PICK to \in {"enqueue", "ok", "error"} : Continue(c, to)
          BY <3>6 DEF PublishReturns, StatementFails, UpdateReplyLost
        <4> QED
          BY <1>1, <3>1, <4>1, ContinueProperties DEF PayInv, Pc
      <3> QED
        BY <1>3, <2>2, <3>3, <3>4, <3>5, <3>6 DEF CallStep, CallFault
    <2> QED
      BY <2>1, <2>2
  <1>4. ASSUME NEW d \in Caller, d # c, CallStep(d) \/ CallFault(d)
        PROVE  call'[c] = call[c] /\ pub'[c] = pub[c]
    BY <1>4, OnlyOneMoves DEF OthersStay
  <1>5. ASSUME NEW d \in Caller, NEW p \in PaymentOp, NEW q \in Order, Begin(d, p, q)
        PROVE  call'[c] = call[c] /\ pub'[c] = pub[c]
    BY <1>1, <1>5 DEF Begin, NewCall, busVars, PayInv, PaymentTypeOK
  <1>6. ASSUME NEW d \in Caller, Return(d)
        PROVE  call'[c] = call[c] /\ pub'[c] = pub[c]
    BY <1>1, <1>6 DEF Return, NoCall, busVars, PayInv, PaymentTypeOK
  <1>7. ASSUME NEW k \in Key, ExpireKey(k)
        PROVE  call'[c] = call[c] /\ pub'[c] = pub[c]
    BY <1>7 DEF ExpireKey, busVars
  <1>8. CASE Crash
    BY <1>1, <1>8 DEF Crash, NoCall
  <1>9. CASE UNCHANGED paymentVars
    BY <1>2, <1>9 DEF paymentVars
  <1> QED
    BY <1>2, <1>3, <1>4, <1>5, <1>6, <1>7, <1>8, <1>9 DEF PaymentNext

(* A history grows by the event of a call that flies for it no more.       *)
LEMMA HistoryMoves ==
    ASSUME PayInv, [PaymentNext]_paymentVars, NEW o \in Order, NEW op \in Operation \ {"create"}
    PROVE  \/ EventsOf(o, EventOf(op))' = EventsOf(o, EventOf(op))
           \/ \E c \in Flying(o, op) :
                 /\ c \notin Flying(o, op)'
                 /\ EventsOf(o, EventOf(op))' = EventsOf(o, EventOf(op)) \cup {pub[c].event}
  <1>1. CASE eventStore' = eventStore
    BY <1>1 DEF EventsOf
  <1>2. ASSUME NEW c \in Caller, StoreStep(c) \/ StoreFault(c) \/ Dispatch(c), call' = call,
               eventStore' # eventStore
        PROVE  \/ EventsOf(o, EventOf(op))' = EventsOf(o, EventOf(op))
               \/ /\ c \in Flying(o, op) /\ c \notin Flying(o, op)'
                  /\ EventsOf(o, EventOf(op))' = EventsOf(o, EventOf(op)) \cup {pub[c].event}
    <2> DEFINE ev == pub[c].event
    <2>1. /\ eventStore' = eventStore \cup {ev}
          /\ pub[c].step = "append"
          /\ pub'[c].step \in {"dispatch", "error"}
      BY <1>2, PublishAdvances DEF PayInv
    <2>2. CASE ev.aggregateId = o /\ ev.type = EventOf(op)
      <3>1. PaymentPub(c)
        BY <2>1, <2>2, EventOfType DEF PaymentPub
      <3>2. call[c].pc = "publish" /\ call[c].order = o /\ EventOf(call[c].op) = EventOf(op)
        BY <2>2, <3>1 DEF PayInv, CallInv, PubOfCall
      <3>3. call[c].op = op
        BY <3>2, RunningCall, EventOfOne DEF PayInv
      <3>4. c \in Flying(o, op) /\ c \notin Flying(o, op)'
        BY <1>2, <2>1, <3>2, <3>3 DEF Flying
      <3> QED
        BY <2>1, <2>2, <3>4 DEF EventsOf
    <2>3. CASE ~(ev.aggregateId = o /\ ev.type = EventOf(op))
      BY <2>1, <2>3 DEF EventsOf
    <2> QED
      BY <2>2, <2>3
  <1>3. eventStore' = eventStore \/ \E c \in Caller :
           (StoreStep(c) \/ StoreFault(c) \/ Dispatch(c)) /\ call' = call
    BY DEF PaymentNext, paymentVars, busVars, handlerVars, Begin, Return, ExpireKey, Crash, BusCrash,
           CallStep, CallFault, CheckKey, Insert, SetKey, Publish, Find, UpdateStatus, PublishStep,
           DispatchToProjector, PublishReturns, Resume, Enqueue, StatementFails, InsertReplyLost,
           UpdateReplyLost, PublishFault, ProjectorFails
  <1> QED
    BY <1>1, <1>2, <1>3

(* At most one announcement for each caller, done or to come.              *)
Announced(o, op) ==
    Cardinality(EventsOf(o, EventOf(op))) + Cardinality(Flying(o, op)) <= Cardinality(Caller)

LEMMA EventsAreFinite ==
    ASSUME BusInv, NEW o, NEW type
    PROVE  IsFiniteSet(EventsOf(o, type)) /\ Cardinality(EventsOf(o, type)) \in Nat
  <1>1. EventsOf(o, type) \subseteq eventStore
    BY DEF EventsOf
  <1> QED
    BY <1>1, Counts DEF BusInv, StoreIsFinite

(* It stays so if the check an operation makes passes only while its event *)
(* is in no history.                                                       *)
LEMMA AnnouncedKept ==
    ASSUME PayInv, [PaymentNext]_paymentVars, NEW o \in Order, NEW op \in Operation \ {"create"},
           Announced(o, op), Admissible(op, o) => EventsOf(o, EventOf(op)) = {}
    PROVE  Announced(o, op)'
  <1> DEFINE old == EventsOf(o, EventOf(op))
             new == EventsOf(o, EventOf(op))'
             fly == Flying(o, op)
             flyNew == Flying(o, op)'
  <1>1. fly \subseteq Caller /\ flyNew \subseteq Caller
    BY DEF Flying
  <1>2. /\ IsFiniteSet(fly) /\ IsFiniteSet(flyNew) /\ IsFiniteSet(old)
        /\ Cardinality(fly) \in Nat /\ Cardinality(flyNew) \in Nat /\ Cardinality(old) \in Nat
        /\ Cardinality(Caller) \in Nat /\ Cardinality(flyNew) <= Cardinality(Caller)
    BY <1>1, CallerAssumption, Counts, EventsAreFinite DEF PayInv
  <1>3. CASE flyNew \subseteq fly /\ new = old
    <2>1. Cardinality(flyNew) <= Cardinality(fly)
      BY <1>2, <1>3, Counts
    <2> QED
      BY <1>2, <1>3, <2>1 DEF Announced
  <1>4. ASSUME flyNew \subseteq fly, NEW c \in fly, c \notin flyNew,
               new = old \cup {pub[c].event}
        PROVE  Announced(o, op)'
    <2>1. Cardinality(flyNew) + 1 <= Cardinality(fly)
      BY <1>2, <1>4, CountsLess
    <2>2. IsFiniteSet(new) /\ Cardinality(new) <= Cardinality(old) + 1
      BY <1>2, <1>4, CountsMore
    <2>3. Cardinality(new) \in Nat
      BY <2>2, FS_CardinalityType
    <2> QED
      BY <1>2, <2>1, <2>2, <2>3 DEF Announced
  <1>5. ASSUME NEW c \in flyNew, c \notin fly
        PROVE  Announced(o, op)'
    <2>1. c \in Caller /\ Find(c) /\ Admissible(op, o)
      BY <1>1, <1>5, FlightsMove
    <2>2. new = {}
      BY <2>1 DEF Find, busVars, EventsOf
    <2>3. Cardinality(new) = 0
      BY <2>2, FS_EmptySet
    <2> QED
      BY <1>2, <2>3 DEF Announced
  <1>6. new = old \/ \E c \in fly : c \notin flyNew /\ new = old \cup {pub[c].event}
    BY HistoryMoves
  <1> QED
    BY <1>3, <1>4, <1>5, <1>6

-----------------------------------------------------------------------------
(* Completions *)

(* What a step does to the rows: nothing, or one statement of one call.    *)
LEMMA RowsMove ==
    ASSUME PayInv, [PaymentNext]_paymentVars
    PROVE  \/ payments' = payments
           \/ \E c \in Caller :
                 /\ call[c].pc = "insert" /\ call[c].order \in Order
                 /\ ~Exists(call[c].order)
                 /\ payments' = [payments EXCEPT ![call[c].order] = Pending]
           \/ \E c \in Caller :
                 /\ call[c].pc = "update" /\ call[c].order \in Order
                 /\ call[c].op \in Operation \ {"create"}
                 /\ payments' = [payments EXCEPT ![call[c].order] =
                                     Updated(payments[call[c].order], call[c].op)]
  <1>1. ASSUME NEW c \in Caller, Insert(c) \/ InsertReplyLost(c)
        PROVE  /\ call[c].pc = "insert" /\ call[c].order \in Order
               /\ ~Exists(call[c].order)
               /\ payments' = [payments EXCEPT ![call[c].order] = Pending]
    BY <1>1, RunningCall DEF Insert, InsertReplyLost, PayInv, OrdersAreFresh, Inserting
  <1>2. ASSUME NEW c \in Caller, UpdateStatus(c) \/ UpdateReplyLost(c)
        PROVE  /\ call[c].pc = "update" /\ call[c].order \in Order
               /\ call[c].op \in Operation \ {"create"}
               /\ payments' = [payments EXCEPT ![call[c].order] =
                                   Updated(payments[call[c].order], call[c].op)]
    BY <1>2, RunningCall DEF UpdateStatus, UpdateReplyLost, PayInv, CallInv, PcOfOp
  <1>3. payments' = payments \/ \E c \in Caller : \/ Insert(c) \/ InsertReplyLost(c)
                                                  \/ UpdateStatus(c) \/ UpdateReplyLost(c)
    BY DEF PaymentNext, CallStep, CallFault, paymentVars, handlerVars, Begin, Return, CheckKey,
           SetKey, Find, PublishStep, DispatchToProjector, PublishReturns, Enqueue,
           StatementFails, PublishFault, ProjectorFails, ExpireKey, Crash
  <1> QED
    BY <1>1, <1>2, <1>3

(* A payment is not paid before it is completed.                           *)
PendingIsUnpaid ==
    \A o \in Order : payments[o].status \in {"none", "PENDING"} => ~payments[o].paid

LEMMA PendingStaysUnpaid ==
    ASSUME PayInv, PendingIsUnpaid, [PaymentNext]_paymentVars
    PROVE  PendingIsUnpaid'
  <1>1. CASE payments' = payments
    BY <1>1 DEF PendingIsUnpaid
  <1>2. ASSUME NEW o \in Order, payments' = [payments EXCEPT ![o] = Pending]
        PROVE  PendingIsUnpaid'
    BY <1>2 DEF PendingIsUnpaid, Pending, PayInv, PaymentTypeOK
  <1>3. ASSUME NEW o \in Order, NEW op \in Operation \ {"create"},
               payments' = [payments EXCEPT ![o] = Updated(payments[o], op)]
        PROVE  PendingIsUnpaid'
    <2>1. Updated(payments[o], op).status \notin {"none", "PENDING"}
      BY DEF Updated, Target, Operation
    <2> QED
      BY <1>3, <2>1 DEF PendingIsUnpaid, PayInv, PaymentTypeOK
  <1> QED
    BY <1>1, <1>2, <1>3, RowsMove

(* An event of a history has left its mark on the row.                     *)
LEMMA EventMarksRow ==
    ASSUME PayInv, NEW o \in Order, NEW op \in Operation, EventsOf(o, EventOf(op)) # {}
    PROVE  RowShows(o, op)
  BY DEF PayInv, EventsShow, EventsOf

CompletionInv ==
    PendingIsUnpaid /\ \A o \in Order : Announced(o, "complete")

LEMMA AnnouncedInitially ==
    ASSUME PaymentInit, NEW o, NEW op
    PROVE  Announced(o, op)
  <1>1. EventsOf(o, EventOf(op)) = {} /\ Flying(o, op) = {}
    BY DEF PaymentInit, BusInit, EventsOf, Flying, NoCall
  <1> QED
    BY <1>1, FS_EmptySet, CallerAssumption, FS_CardinalityType DEF Announced

LEMMA CompletionInvInductive ==
    ASSUME PayInv, CompletionInv, [PaymentNext]_paymentVars
    PROVE  CompletionInv'
  <1>1. ASSUME NEW o \in Order, Admissible("complete", o)
        PROVE  EventsOf(o, EventOf("complete")) = {}
    <2>1. ~RowShows(o, "complete") /\ "complete" \in Operation
      BY <1>1 DEF CompletionInv, PendingIsUnpaid, Admissible, RowShows, Operation
    <2> QED
      BY <2>1, EventMarksRow
  <1>2. "complete" \in Operation \ {"create"}
    BY DEF Operation
  <1>3. ASSUME NEW o \in Order
        PROVE  Announced(o, "complete")'
    BY <1>1, <1>2, AnnouncedKept DEF CompletionInv
  <1> QED
    BY <1>3, PendingStaysUnpaid DEF CompletionInv

LEMMA CompletionSays ==
    ASSUME PayInv, CompletionInv
    PROVE  RepeatsOnlyByOverlap
  <1> SUFFICES ASSUME NEW o \in Order
               PROVE  Cardinality(EventsOf(o, "PAYMENT_COMPLETED")) <= Cardinality(Caller)
    BY DEF RepeatsOnlyByOverlap
  <1>1. Flying(o, "complete") \subseteq Caller
    BY DEF Flying
  <1>2. Cardinality(Flying(o, "complete")) \in Nat /\ Cardinality(Caller) \in Nat
    BY <1>1, CallerAssumption, Counts
  <1>3. Cardinality(EventsOf(o, "PAYMENT_COMPLETED")) \in Nat
    BY EventsAreFinite DEF PayInv
  <1>4. EventOf("complete") = "PAYMENT_COMPLETED"
    BY DEF EventOf
  <1> QED
    BY <1>2, <1>3, <1>4 DEF CompletionInv, Announced

LEMMA CompletionInvariant == PaymentSpec => []CompletionInv
  <1>1. PaymentInit => CompletionInv
    <2>1. PaymentInit => PendingIsUnpaid
      BY DEF PaymentInit, PendingIsUnpaid, NoPayment
    <2> QED
      BY <2>1, AnnouncedInitially DEF CompletionInv
  <1>2. PayInv /\ CompletionInv /\ [PaymentNext]_paymentVars => CompletionInv'
    BY CompletionInvInductive
  <1> QED
    BY <1>1, <1>2, PaymentInvariant, PTL DEF PaymentSpec

(* A payment is announced as completed once for each caller at most: a     *)
(* completion repeats only in requests that overlap the first              *)
(* (PaymentHandler.ts:82).                                                 *)
THEOREM CompletionsOverlap == PaymentSpec => []RepeatsOnlyByOverlap
  BY CompletionSays, CompletionInvariant, PaymentInvariant, PTL

(* Requests that do not overlap complete a payment once.                   *)
THEOREM CompletedAtMostOnce ==
    ASSUME NEW CONSTANT c, Caller = {c}
    PROVE  PaymentSpec => []CompletedOnce
  <1>1. Cardinality(Caller) = 1
    BY FS_Singleton
  <1>2. RepeatsOnlyByOverlap => CompletedOnce
    BY <1>1 DEF RepeatsOnlyByOverlap, CompletedOnce
  <1> QED
    BY <1>2, CompletionsOverlap, PTL

-----------------------------------------------------------------------------
(* Requests that do not overlap *)

(* How a call moves: it begins, ends or fails, or goes on by one step.     *)
LEMMA CallsMove ==
    ASSUME PayInv, [PaymentNext]_paymentVars, NEW c \in Caller
    PROVE  \/ call'[c] = call[c]
           \/ call'[c].pc \in {"idle", "checkKey", "find"}
           \/ /\ call[c].pc # "idle"
              /\ call'[c].op = call[c].op
              /\ call'[c].order = call[c].order
              /\ \/ call'[c].pc = "error"
                 \/ CheckKey(c) /\ call'[c].pc = "insert" /\ idempotency[KeyOf[call[c].order]] = NoOrder
                 \/ Insert(c) /\ call'[c].pc = "setKey"
                 \/ SetKey(c) /\ call'[c].pc = "publish"
                 \/ /\ Find(c) /\ call'[c].pc = "update"
                    /\ Admissible(call[c].op, call[c].order)
                 \/ UpdateStatus(c) /\ call'[c].pc = "publish"
                 \/ /\ PublishReturns(c) /\ call'[c].pc \in {"enqueue", "ok"}
                    /\ pub[c].step = "published"
                 \/ Enqueue(c) /\ call'[c].pc = "ok"
  <1> DEFINE Goes(pc) == /\ call[c].pc # "idle"
                         /\ call'[c].op = call[c].op
                         /\ call'[c].order = call[c].order
                         /\ call'[c].pc = pc
  <1>1. ASSUME NEW pc \in Pc, call[c].pc # "idle", Continue(c, pc)
        PROVE  Goes(pc)
    BY <1>1, ContinueProperties DEF PayInv
  <1> HIDE DEF Goes
  <1>2. CASE CheckKey(c)
    <2>1. \/ Goes("error")
          \/ Goes("insert") /\ idempotency[KeyOf[call[c].order]] = NoOrder
      BY <1>1, <1>2 DEF CheckKey, Pc
    <2> QED
      BY <1>2, <2>1 DEF Goes
  <1>3. CASE Insert(c) \/ SetKey(c) \/ UpdateStatus(c) \/ Enqueue(c)
    <2>1. Insert(c) => Goes("setKey")
      BY <1>1 DEF Insert, Pc
    <2>2. SetKey(c) => Goes("publish")
      BY <1>1 DEF SetKey, Pc
    <2>3. UpdateStatus(c) => Goes("publish")
      BY <1>1 DEF UpdateStatus, Pc
    <2>4. Enqueue(c) => Goes("ok")
      BY <1>1 DEF Enqueue, Pc
    <2> QED
      BY <1>3, <2>1, <2>2, <2>3, <2>4 DEF Goes
  <1>4. CASE Find(c)
    <2>1. call[c].pc # "idle"
      BY <1>4 DEF Find
    <2>2. CASE Admissible(call[c].op, call[c].order)
      <3>1. Goes("update")
        BY <1>1, <1>4, <2>1, <2>2 DEF Find, Pc
      <3> QED
        BY <1>4, <2>2, <3>1 DEF Goes
    <2>3. CASE ~Admissible(call[c].op, call[c].order)
      <3>1. Goes("error")
        BY <1>1, <1>4, <2>1, <2>3 DEF Find, Pc
      <3> QED
        BY <3>1 DEF Goes
    <2> QED
      BY <2>2, <2>3
  <1>5. CASE PublishReturns(c)
    <2>1. \/ Goes("error")
          \/ (Goes("enqueue") \/ Goes("ok")) /\ pub[c].step = "published"
      BY <1>1, <1>5 DEF PublishReturns, Resume, Pc
    <2> QED
      BY <1>5, <2>1 DEF Goes
  <1>6. CASE StatementFails(c) \/ InsertReplyLost(c) \/ UpdateReplyLost(c)
    <2>1. Goes("error")
      BY <1>1, <1>6 DEF StatementFails, InsertReplyLost, UpdateReplyLost, Pc
    <2> QED
      BY <2>1 DEF Goes
  <1>7. CASE PublishStep(c) \/ DispatchToProjector(c) \/ PublishFault(c) \/ ProjectorFails(c)
    BY <1>7 DEF PublishStep, DispatchToProjector, PublishFault, ProjectorFails, handlerVars
  <1>8. ASSUME NEW d \in Caller, d # c, CallStep(d) \/ CallFault(d)
        PROVE  call'[c] = call[c]
    BY <1>8, OnlyOneMoves DEF OthersStay
  <1>9. ASSUME NEW d \in Caller, NEW p \in PaymentOp, NEW q \in Order, Begin(d, p, q)
        PROVE  call'[c] = call[c] \/ call'[c].pc \in {"checkKey", "find"}
    BY <1>9 DEF Begin, NewCall, PayInv, PaymentTypeOK
  <1>10. ASSUME NEW d \in Caller, Return(d)
         PROVE  call'[c] = call[c] \/ call'[c].pc = "idle"
    BY <1>10 DEF Return, NoCall, PayInv, PaymentTypeOK
  <1>11. CASE (\E k \in Key : ExpireKey(k)) \/ UNCHANGED paymentVars
    BY <1>11 DEF ExpireKey, paymentVars
  <1>12. CASE Crash
    BY <1>12 DEF Crash, NoCall
  <1>13. CASE CallStep(c) \/ CallFault(c)
    BY <1>2, <1>3, <1>4, <1>5, <1>6, <1>7, <1>13 DEF CallStep, CallFault
  <1> QED
    BY <1>8, <1>9, <1>10, <1>11, <1>12, <1>13 DEF PaymentNext

(* A sole caller's row stays as its check found it until its UPDATE, so no *)
(* refund is followed by a completion.                                     *)
StillAdmissible(c) ==
    call[c].pc = "update" => Admissible(call[c].op, call[c].order)

RefundStands ==
    \A o \in Order : payments[o].status \in {"none", "PENDING", "COMPLETED"} => ~payments[o].refunded

RefundInv(c) ==
    /\ StillAdmissible(c)
    /\ RefundStands
    /\ \A o \in Order : Announced(o, "refund")

LEMMA SoleCheckHolds ==
    ASSUME PayInv, [PaymentNext]_paymentVars, NEW c, Caller = {c}, StillAdmissible(c)
    PROVE  StillAdmissible(c)'
  <1> SUFFICES ASSUME call'[c].pc = "update"
               PROVE  Admissible(call[c].op, call[c].order)'
    BY DEF StillAdmissible
  <1>1. payments' = payments
    <2> SUFFICES ASSUME payments' # payments
                 PROVE  FALSE
      OBVIOUS
    <2>1. PICK pc \in {"setKey", "publish", "error"} : call[c].pc # "idle" /\ Continue(c, pc)
      BY DEF PaymentNext, CallStep, CallFault, paymentVars, handlerVars, Begin, Return, CheckKey,
             SetKey, Find, PublishStep, DispatchToProjector, PublishReturns, Enqueue,
             StatementFails, PublishFault, ProjectorFails, ExpireKey, Crash, Insert,
             InsertReplyLost, UpdateStatus, UpdateReplyLost
    <2> QED
      BY <2>1, ContinueProperties DEF PayInv, Pc
  <1>2. /\ call'[c].op = call[c].op /\ call'[c].order = call[c].order
        /\ Admissible(call[c].op, call[c].order)
    BY CallsMove DEF StillAdmissible
  <1> QED
    BY <1>1, <1>2 DEF Admissible, Exists

LEMMA RefundStaysStanding ==
    ASSUME PayInv, [PaymentNext]_paymentVars, NEW c, Caller = {c}, StillAdmissible(c), RefundStands
    PROVE  RefundStands'
  <1>1. CASE payments' = payments
    BY <1>1 DEF RefundStands
  <1>2. CASE /\ call[c].pc = "insert" /\ call[c].order \in Order
             /\ payments' = [payments EXCEPT ![call[c].order] = Pending]
    BY <1>2 DEF RefundStands, Pending, PayInv, PaymentTypeOK
  <1>3. CASE /\ call[c].pc = "update" /\ call[c].order \in Order
             /\ call[c].op \in Operation \ {"create"}
             /\ payments' = [payments EXCEPT ![call[c].order] =
                                 Updated(payments[call[c].order], call[c].op)]
    <2> DEFINE old == payments[call[c].order]
               new == Updated(old, call[c].op)
    <2>1. call[c].op = "complete" => old.status = "PENDING"
      BY <1>3 DEF StillAdmissible, Admissible
    <2>2. new.status \in {"none", "PENDING", "COMPLETED"} => call[c].op = "complete"
      BY <1>3 DEF Updated, Target, Operation
    <2>3. call[c].op = "complete" => ~new.refunded
      BY <1>3, <2>1 DEF RefundStands, Updated
    <2> HIDE DEF new
    <2>4. payments' = [payments EXCEPT ![call[c].order] = new]
      BY <1>3 DEF new
    <2> QED
      BY <1>3, <2>2, <2>3, <2>4 DEF RefundStands, PayInv, PaymentTypeOK
  <1> QED
    BY <1>1, <1>2, <1>3, RowsMove

LEMMA RefundInvariant ==
    ASSUME NEW CONSTANT c, Caller = {c}
    PROVE  PaymentSpec => []RefundInv(c)
  <1>1. PaymentInit => RefundInv(c)
    <2> SUFFICES ASSUME PaymentInit PROVE RefundInv(c)
      OBVIOUS
    <2>1. StillAdmissible(c) /\ RefundStands
      BY DEF PaymentInit, StillAdmissible, NoCall, RefundStands, NoPayment
    <2> QED
      BY <2>1, AnnouncedInitially DEF RefundInv
  <1>2. PayInv /\ RefundInv(c) /\ [PaymentNext]_paymentVars => RefundInv(c)'
    <2> SUFFICES ASSUME PayInv, RefundInv(c), [PaymentNext]_paymentVars
                 PROVE  RefundInv(c)'
      OBVIOUS
    <2>1. ASSUME NEW o \in Order, Admissible("refund", o)
          PROVE  EventsOf(o, EventOf("refund")) = {}
      <3>1. ~RowShows(o, "refund") /\ "refund" \in Operation
        BY <2>1 DEF RefundInv, RefundStands, Admissible, RowShows, Operation
      <3> QED
        BY <3>1, EventMarksRow
    <2>2. "refund" \in Operation \ {"create"}
      BY DEF Operation
    <2>3. ASSUME NEW o \in Order
          PROVE  Announced(o, "refund")'
      BY <2>1, <2>2, AnnouncedKept DEF RefundInv
    <2> QED
      BY <2>3, SoleCheckHolds, RefundStaysStanding DEF RefundInv
  <1> QED
    BY <1>1, <1>2, PaymentInvariant, PTL DEF PaymentSpec

(* Requests that do not overlap refund a payment once                      *)
(* (PaymentHandler.ts:118).                                                *)
THEOREM RefundedAtMostOnce ==
    ASSUME NEW CONSTANT c, Caller = {c}
    PROVE  PaymentSpec => []RefundedOnce
  <1>1. PayInv /\ RefundInv(c) => RefundedOnce
    <2> SUFFICES ASSUME PayInv, RefundInv(c), NEW o \in Order
                 PROVE  Cardinality(EventsOf(o, "PAYMENT_REFUNDED")) <= 1
      BY DEF RefundedOnce
    <2>1. Flying(o, "refund") \subseteq Caller /\ Cardinality(Caller) = 1
      BY FS_Singleton DEF Flying
    <2>2. Cardinality(Flying(o, "refund")) \in Nat
      BY <2>1, CallerAssumption, Counts
    <2>3. Cardinality(EventsOf(o, "PAYMENT_REFUNDED")) \in Nat
      BY EventsAreFinite DEF PayInv
    <2>4. EventOf("refund") = "PAYMENT_REFUNDED"
      BY DEF EventOf
    <2> QED
      BY <2>1, <2>2, <2>3, <2>4 DEF RefundInv, Announced
  <1> QED
    BY <1>1, RefundInvariant, PaymentInvariant, PTL

(* A sole caller's creation finds no key, and holds the key it has set     *)
(* until its job is added; a job's order then stays under its key.         *)
KeyHeld(c) ==
    /\ \A o \in processing : idempotency[KeyOf[o]] = o
    /\ call[c].pc \in {"insert", "setKey"} => idempotency[KeyOf[call[c].order]] = NoOrder
    /\ call[c].pc \in {"publish", "enqueue"} /\ call[c].op = "create"
          => idempotency[KeyOf[call[c].order]] = call[c].order

(* What a step does to the keys and the jobs.                              *)
LEMMA KeysMove ==
    ASSUME ~KeyExpires, [PaymentNext]_paymentVars, NEW c, Caller = {c}
    PROVE  /\ idempotency' = idempotency \/ SetKey(c)
           /\ processing' = processing \/ Enqueue(c)
  BY DEF PaymentNext, CallStep, CallFault, paymentVars, handlerVars, Begin, Return, CheckKey,
         Find, PublishStep, DispatchToProjector, PublishReturns, Insert, UpdateStatus,
         InsertReplyLost, UpdateReplyLost, StatementFails, PublishFault, ProjectorFails,
         ExpireKey, Crash, SetKey, Enqueue

LEMMA KeyStaysHeld ==
    ASSUME ~KeyExpires, PayInv, [PaymentNext]_paymentVars, NEW c, Caller = {c}, KeyHeld(c)
    PROVE  KeyHeld(c)'
  <1>1. CASE SetKey(c)
    <2>1. PICK o \in Order : o = call[c].order
      BY <1>1, RunningCall DEF PayInv, SetKey
    <2>2. /\ idempotency' = [idempotency EXCEPT ![KeyOf[o]] = o]
          /\ idempotency[KeyOf[o]] = NoOrder
          /\ processing' = processing
          /\ Continue(c, "publish")
      BY <1>1, <2>1 DEF SetKey, KeyHeld
    <2>3. call'[c].pc = "publish" /\ call'[c].order = o
      BY <1>1, <2>1, <2>2, ContinueProperties DEF PayInv, Pc, SetKey
    <2>4. KeyOf[o] \in Key /\ NoOrder \notin Order /\ processing \subseteq Order
      BY PaymentAssumption DEF PayInv, PaymentTypeOK
    <2>5. idempotency'[KeyOf[o]] = o
      BY <2>2, <2>4 DEF PayInv, PaymentTypeOK
    <2>6. ASSUME NEW p \in processing
          PROVE  idempotency'[KeyOf[p]] = p
      <3>1. idempotency[KeyOf[p]] = p /\ p # NoOrder /\ KeyOf[p] \in Key
        BY <2>4, PaymentAssumption DEF KeyHeld
      <3>2. KeyOf[p] # KeyOf[o]
        BY <2>2, <3>1
      <3> QED
        BY <2>2, <3>1, <3>2 DEF PayInv, PaymentTypeOK
    <2> QED
      BY <2>2, <2>3, <2>5, <2>6 DEF KeyHeld
  <1>2. CASE Enqueue(c)
    <2>1. /\ call[c].pc = "enqueue" /\ idempotency' = idempotency
          /\ processing' = processing \cup {call[c].order}
          /\ Continue(c, "ok")
      BY <1>2 DEF Enqueue
    <2>2. call[c].op = "create"
      BY <2>1 DEF PayInv, CallInv, PcOfOp
    <2>3. call'[c].pc = "ok"
      BY <2>1, ContinueProperties DEF PayInv, Pc
    <2> QED
      BY <2>1, <2>2, <2>3 DEF KeyHeld
  <1>3. CASE ~SetKey(c) /\ ~Enqueue(c)
    <2>1. idempotency' = idempotency /\ processing' = processing
      BY <1>3, KeysMove
    <2>2. CASE call'[c] = call[c]
      BY <2>1, <2>2 DEF KeyHeld
    <2>3. CASE call'[c].pc \in {"idle", "checkKey", "find", "error", "update", "ok"}
      BY <2>1, <2>3 DEF KeyHeld
    <2>4. CASE /\ call'[c].op = call[c].op
               /\ call'[c].order = call[c].order
               /\ \/ CheckKey(c) /\ call'[c].pc = "insert" /\ idempotency[KeyOf[call[c].order]] = NoOrder
                  \/ Insert(c) /\ call'[c].pc = "setKey"
                  \/ UpdateStatus(c) /\ call'[c].pc = "publish"
                  \/ PublishReturns(c) /\ call'[c].pc = "enqueue"
      <3>1. UpdateStatus(c) => call[c].op # "create"
        BY DEF UpdateStatus, PayInv, CallInv, PcOfOp
      <3>2. PublishReturns(c) => call[c].pc = "publish"
        BY DEF PublishReturns
      <3>3. Insert(c) => call[c].pc = "insert"
        BY DEF Insert
      <3> QED
        BY <2>1, <2>4, <3>1, <3>2, <3>3 DEF KeyHeld
    <2> QED
      BY <1>3, <2>2, <2>3, <2>4, CallsMove
  <1> QED
    BY <1>1, <1>2, <1>3

(* While its key lives, a user and product have one job, however many      *)
(* creations failed or were cut off half way before (PaymentHandler.ts:29).*)
THEOREM OneJobForEachKey ==
    ASSUME NEW CONSTANT c, Caller = {c}, ~KeyExpires
    PROVE  PaymentSpec => []OneJobPerKey
  <1>1. PaymentInit => KeyHeld(c)
    BY DEF PaymentInit, KeyHeld, NoCall
  <1>2. PayInv /\ KeyHeld(c) /\ [PaymentNext]_paymentVars => KeyHeld(c)'
    BY KeyStaysHeld
  <1>3. KeyHeld(c) => OneJobPerKey
    BY DEF KeyHeld, OneJobPerKey
  <1> QED
    BY <1>1, <1>2, <1>3, PaymentInvariant, PTL DEF PaymentSpec

-----------------------------------------------------------------------------
(* The read model *)

(* What a step of one publish does to the deliveries under way.            *)
LEMMA DeliveriesMove ==
    ASSUME NEW c \in Caller, \A d \in Caller \ {c} : pub'[d] = pub[d], NEW type
    PROVE  Delivering(type)' = IF pub'[c].step = "dispatch" /\ pub'[c].event.type = type
                               THEN Delivering(type) \cup {c}
                               ELSE Delivering(type) \ {c}
  BY DEF Delivering

(* The three terms of Missed are numbers.                                  *)
LEMMA MissedType ==
    ASSUME PayInv, NEW type \in ProjectedType
    PROVE  /\ IsFiniteSet(Stored(type)) /\ Cardinality(Stored(type)) \in Nat
           /\ IsFiniteSet(Delivering(type)) /\ Cardinality(Delivering(type)) \in Nat
           /\ Counted(summary, type) \in Nat
           /\ Missed(type) \in Int
  <1>1. Stored(type) \subseteq eventStore /\ Delivering(type) \subseteq Caller
    BY DEF Stored, Delivering
  <1>2. IsFiniteSet(Stored(type)) /\ Cardinality(Stored(type)) \in Nat
    BY <1>1, Counts DEF PayInv, BusInv, StoreIsFinite
  <1>3. IsFiniteSet(Delivering(type)) /\ Cardinality(Delivering(type)) \in Nat
    BY <1>1, Counts, CallerAssumption
  <1>4. Counted(summary, type) \in Nat
    BY DEF PayInv, PaymentTypeOK, SummaryRow, Counted, ProjectedType
  <1> QED
    BY <1>2, <1>3, <1>4 DEF Missed

LEMMA ProjectCounts ==
    ASSUME NEW row \in SummaryRow, NEW type \in ProjectedType, NEW t
    PROVE  Counted(Project(row, t), type) = Counted(row, type) + (IF t = type THEN 1 ELSE 0)
  <1>1. CASE t \notin ProjectedType
    BY <1>1 DEF Project, Counted, ProjectedType, SummaryRow
  <1>2. CASE t = "PAYMENT_COMPLETED"
    <2>1. /\ Project(row, t).successfulTransactions = row.successfulTransactions + 1
          /\ Project(row, t).refundCount = row.refundCount
          /\ Project(row, t).failedTransactions = row.failedTransactions
      BY <1>2 DEF Project, OnPaymentCompleted, SummaryRow
    <2> QED
      BY <1>2, <2>1 DEF Counted, ProjectedType, SummaryRow
  <1>3. CASE t = "PAYMENT_REFUNDED"
    <2>1. /\ Project(row, t).successfulTransactions = row.successfulTransactions
          /\ Project(row, t).refundCount = row.refundCount + 1
          /\ Project(row, t).failedTransactions = row.failedTransactions
      BY <1>3 DEF Project, OnPaymentRefunded, SummaryRow
    <2> QED
      BY <1>3, <2>1 DEF Counted, ProjectedType, SummaryRow
  <1>4. CASE t = "PAYMENT_FAILED"
    <2>1. /\ Project(row, t).successfulTransactions = row.successfulTransactions
          /\ Project(row, t).refundCount = row.refundCount
          /\ Project(row, t).failedTransactions = row.failedTransactions + 1
      BY <1>4 DEF Project, OnPaymentFailed, SummaryRow
    <2> QED
      BY <1>4, <2>1 DEF Counted, ProjectedType, SummaryRow
  <1> QED
    BY <1>1, <1>2, <1>3, <1>4 DEF ProjectedType

(* An event is stored as its delivery begins, and counted as that ends.    *)
LEMMA AppendMisses ==
    ASSUME PayInv, NEW c \in Caller, NEW type \in ProjectedType,
           AppendEvent(c) \/ AppendReplyLost(c), UNCHANGED handlerVars
    PROVE  /\ AppendEvent(c) => Missed(type)' = Missed(type)
           /\ Missed(type)' >= Missed(type)
  <1> DEFINE ev == pub[c].event
  <1>1. /\ eventStore' = eventStore \cup {ev} /\ ev \notin eventStore
        /\ pub[c].step = "append"
        /\ pub'[c].event.type = ev.type
        /\ \A d \in Caller \ {c} : pub'[d] = pub[d]
    <2>1. /\ eventStore' = eventStore \cup {ev}
          /\ pub[c].step = "append" /\ ~IsDuplicate(ev)
      BY DEF AppendEvent, AppendReplyLost
    <2>2. ev \notin eventStore
      BY <2>1 DEF IsDuplicate
    <2> QED
      BY <2>1, <2>2, PublishMoves DEF PayInv, StoreStep, StoreFault
  <1>2. /\ AppendEvent(c) => pub'[c].step = "dispatch"
        /\ ~AppendEvent(c) => pub'[c].step = "error"
    BY <1>1, GotoProperties DEF AppendEvent, AppendReplyLost, PayInv, BusInv, PubStep
  <1>3. c \notin Delivering(type) /\ Counted(summary, type)' = Counted(summary, type)
    BY <1>1 DEF Delivering, handlerVars
  <1>4. Stored(type)' = IF ev.type = type THEN Stored(type) \cup {ev} ELSE Stored(type)
    BY <1>1 DEF Stored
  <1>5. ev \notin Stored(type)
    BY <1>1 DEF Stored
  <1>6. Delivering(type)' = IF AppendEvent(c) /\ ev.type = type
                            THEN Delivering(type) \cup {c} ELSE Delivering(type)
    BY <1>1, <1>2, <1>3, DeliveriesMove
  <1>7. /\ Cardinality(Stored(type) \cup {ev}) = Cardinality(Stored(type)) + 1
        /\ Cardinality(Delivering(type) \cup {c}) = Cardinality(Delivering(type)) + 1
    BY <1>3, <1>5, MissedType, FS_AddElement
  <1> HIDE DEF ev
  <1> QED
    BY <1>3, <1>4, <1>6, <1>7, MissedType DEF Missed

LEMMA DispatchMisses ==
    ASSUME PayInv, NEW c \in Caller, NEW type \in ProjectedType,
           DispatchToProjector(c) \/ ProjectorFails(c)
    PROVE  /\ DispatchToProjector(c) => Missed(type)' = Missed(type)
           /\ Missed(type)' >= Missed(type)
  <1>1. Dispatch(c) /\ pub[c].step = "dispatch" /\ eventStore' = eventStore
    BY DEF DispatchToProjector, ProjectorFails, Dispatch
  <1>2. pub'[c].step = "published"
    BY <1>1, GotoProperties DEF Dispatch, PayInv, BusInv, PubStep
  <1>3. \A d \in Caller \ {c} : pub'[d] = pub[d]
    BY <1>1, PublishMoves DEF PayInv
  <1>4. Delivering(type)' = Delivering(type) \ {c} /\ Stored(type)' = Stored(type)
    BY <1>1, <1>2, <1>3, DeliveriesMove DEF Stored
  <1>5. c \in Delivering(type) <=> pub[c].event.type = type
    BY <1>1 DEF Delivering
  <1>6. Cardinality(Delivering(type) \ {c})
            = IF pub[c].event.type = type THEN Cardinality(Delivering(type)) - 1
                                          ELSE Cardinality(Delivering(type))
    BY <1>5, MissedType, FS_RemoveElement
  <1>7. CASE DispatchToProjector(c)
    <2>1. Counted(summary, type)' = Counted(summary, type)
                                        + (IF pub[c].event.type = type THEN 1 ELSE 0)
      BY <1>7, ProjectCounts DEF DispatchToProjector, PayInv, PaymentTypeOK
    <2> QED
      BY <1>4, <1>6, <2>1, MissedType DEF Missed
  <1>8. CASE ~DispatchToProjector(c)
    <2>1. Counted(summary, type)' = Counted(summary, type)
      BY <1>8 DEF ProjectorFails, handlerVars
    <2> QED
      BY <1>4, <1>6, <1>8, <2>1, MissedType DEF Missed
  <1> QED
    BY <1>7, <1>8

(* A step that appends nothing and delivers nothing misses nothing.        *)
LEMMA QuietMisses ==
    ASSUME NEW c \in Caller, NEW type, UNCHANGED <<eventStore, summary>>,
           \A d \in Caller \ {c} : pub'[d] = pub[d],
           pub[c].step # "dispatch", pub'[c].step # "dispatch"
    PROVE  Missed(type)' = Missed(type)
  <1>1. Delivering(type)' = Delivering(type)
    BY DEF Delivering
  <1> QED
    BY <1>1 DEF Missed, Stored

LEMMA MissedMoves ==
    ASSUME PayInv, [PaymentNext]_paymentVars, NEW type \in ProjectedType
    PROVE  /\ Missed(type)' >= Missed(type)
           /\ Missed(type)' = Missed(type) \/ Crash \/ \E c \in Caller : CallFault(c)
  <1> USE MissedType
  <1>1. ASSUME pub' = pub, UNCHANGED <<eventStore, summary>>
        PROVE  Missed(type)' = Missed(type)
    BY <1>1 DEF Missed, Stored, Delivering
  <1>2. ASSUME NEW c \in Caller, PublishStep(c) \/ PublishFault(c)
        PROVE  /\ Missed(type)' >= Missed(type)
               /\ Missed(type)' = Missed(type) \/ CallFault(c)
    <2>1. (StoreStep(c) \/ StoreFault(c)) /\ UNCHANGED handlerVars
      BY <1>2 DEF PublishStep, PublishFault
    <2>2. CASE AppendEvent(c) \/ AppendReplyLost(c)
      <3>1. AppendReplyLost(c) => CallFault(c)
        BY <2>1 DEF CallFault, PublishFault, StoreFault
      <3> QED
        BY <2>1, <2>2, <3>1, AppendMisses
    <2>3. CASE GetLatestVersion(c) \/ AppendIsDuplicate(c) \/ QueryFails(c)
      <3>1. pub[c].step \in {"getLatestVersion", "append"} /\ eventStore' = eventStore
        BY <2>3 DEF GetLatestVersion, AppendIsDuplicate, QueryFails
      <3>2. \A d \in Caller \ {c} : pub'[d] = pub[d]
        BY <2>1, PublishMoves DEF PayInv
      <3>3. pub'[c].step \in {"append", "error"}
        <4>1. CASE GetLatestVersion(c)
          BY <4>1 DEF GetLatestVersion, PayInv, BusInv, BusTypeOK
        <4>2. CASE Goto(c, "error")
          BY <3>1, <4>2, GotoProperties DEF PayInv, BusInv, PubStep
        <4> QED
          BY <2>3, <4>1, <4>2 DEF AppendIsDuplicate, QueryFails
      <3>4. Missed(type)' = Missed(type)
        BY <2>1, <3>1, <3>2, <3>3, QuietMisses DEF handlerVars
      <3> QED
        BY <3>4
    <2> QED
      BY <2>1, <2>2, <2>3 DEF StoreStep, StoreFault
  <1>3. ASSUME NEW c \in Caller, DispatchToProjector(c) \/ ProjectorFails(c)
        PROVE  /\ Missed(type)' >= Missed(type)
               /\ Missed(type)' = Missed(type) \/ CallFault(c)
    BY <1>3, DispatchMisses DEF CallFault
  <1>4. ASSUME NEW c \in Caller, SetKey(c) \/ UpdateStatus(c)
        PROVE  Missed(type)' = Missed(type)
    <2>1. PICK new : /\ pub[c] = NoPub /\ pub' = [pub EXCEPT ![c] = new]
                     /\ new.step = "getLatestVersion"
                     /\ UNCHANGED <<eventStore, summary>>
      BY <1>4 DEF SetKey, UpdateStatus, Publish
    <2>2. pub[c].step # "dispatch" /\ pub'[c].step # "dispatch"
      BY <2>1 DEF NoPub, PayInv, BusInv, BusTypeOK
    <2>3. \A d \in Caller \ {c} : pub'[d] = pub[d]
      BY <2>1 DEF PayInv, BusInv, BusTypeOK
    <2> QED
      BY <2>1, <2>2, <2>3, QuietMisses
  <1>5. ASSUME NEW c \in Caller, PublishReturns(c)
        PROVE  Missed(type)' = Missed(type)
    <2>1. /\ pub[c].step \in {"published", "error"} /\ pub' = [pub EXCEPT ![c] = NoPub]
          /\ UNCHANGED <<eventStore, summary>>
      BY <1>5 DEF PublishReturns, Resume
    <2>2. pub'[c].step # "dispatch" /\ \A d \in Caller \ {c} : pub'[d] = pub[d]
      BY <2>1 DEF NoPub, PayInv, BusInv, BusTypeOK
    <2> QED
      BY <2>1, <2>2, QuietMisses
  <1>6. CASE Crash
    <2>1. UNCHANGED <<eventStore, summary>> /\ Delivering(type)' = {}
      BY <1>6 DEF Crash, BusCrash, Delivering, NoPub
    <2>2. Cardinality(Delivering(type)') = 0
      BY <2>1, FS_EmptySet
    <2> QED
      BY <1>6, <2>1, <2>2 DEF Missed, Stored
  <1>7. ASSUME NEW c \in Caller,
               \/ CheckKey(c) \/ Insert(c) \/ Find(c) \/ Enqueue(c) \/ Return(c)
               \/ StatementFails(c) \/ InsertReplyLost(c) \/ UpdateReplyLost(c)
               \/ \E op \in PaymentOp, o \in Order : Begin(c, op, o)
        PROVE  Missed(type)' = Missed(type)
    BY <1>1, <1>7
       DEF CheckKey, Insert, Find, Enqueue, Return, StatementFails, InsertReplyLost,
           UpdateReplyLost, Begin, busVars
  <1>8. CASE (\E k \in Key : ExpireKey(k)) \/ UNCHANGED paymentVars
    BY <1>1, <1>8 DEF ExpireKey, busVars, paymentVars
  <1>9. ASSUME NEW c \in Caller, CallStep(c) \/ CallFault(c)
        PROVE  /\ Missed(type)' >= Missed(type)
               /\ Missed(type)' = Missed(type) \/ CallFault(c)
    BY <1>2, <1>3, <1>4, <1>5, <1>7, <1>9 DEF CallStep, CallFault
  <1> QED
    BY <1>6, <1>7, <1>8, <1>9 DEF PaymentNext

(* What is counted or on its way is stored.                                *)
Trails == \A type \in ProjectedType : Missed(type) >= 0

LEMMA TrailsInitially ==
    ASSUME PaymentInit
    PROVE  Trails
  <1> SUFFICES ASSUME NEW type \in ProjectedType
               PROVE  Missed(type) >= 0
    BY DEF Trails
  <1>1. Stored(type) = {} /\ Delivering(type) = {} /\ Counted(summary, type) = 0
    BY DEF PaymentInit, BusInit, Stored, Delivering, NoPub, Counted, NoSummary, ProjectedType
  <1> QED
    BY <1>1, FS_EmptySet DEF Missed

LEMMA TrailsSays ==
    ASSUME PayInv, Trails
    PROVE  ReadModelNeverAhead
  BY MissedType DEF Trails, ReadModelNeverAhead, Missed

(* The read model counts no event twice, and none that is not stored, in   *)
(* any interleaving, with any fault (PaymentSummaryProjector.ts:24).       *)
THEOREM ReadModelTrailsStore == PaymentSpec => []ReadModelNeverAhead
  <1>1. PaymentInit => Trails
    BY TrailsInitially
  <1>2. PayInv => \A type \in ProjectedType : Missed(type) \in Int
    BY MissedType
  <1>3. PayInv' => (\A type \in ProjectedType : Missed(type) \in Int)'
    BY <1>2, PTL
  <1>4. PayInv /\ Trails /\ [PaymentNext]_paymentVars => Trails'
    <2> SUFFICES ASSUME PayInv, PayInv', Trails, [PaymentNext]_paymentVars,
                        NEW type \in ProjectedType
                 PROVE  Missed(type)' >= 0
      BY PayInvInductive DEF Trails
    <2>1. Missed(type) \in Int /\ Missed(type)' >= Missed(type)
      BY MissedType, MissedMoves
    <2>2. Missed(type)' \in Int
      BY <1>3
    <2> QED
      BY <2>1, <2>2 DEF Trails
  <1>5. PayInv /\ Trails => ReadModelNeverAhead
    BY TrailsSays
  <1> QED
    BY <1>1, <1>4, <1>5, PaymentInvariant, PTL DEF PaymentSpec

(* It falls behind for good only where a statement fails or the process    *)
(* dies (EventBus.ts:44-49).                                               *)
THEOREM CountsLostByFaults == PaymentSpec => LostOnlyByFault
  <1>1. PayInv /\ [PaymentNext]_paymentVars
            => [\A type \in ProjectedType :
                   Missed(type)' > Missed(type) => Crash \/ \E c \in Caller : CallFault(c)]_paymentVars
    <2> SUFFICES ASSUME PayInv, [PaymentNext]_paymentVars, NEW type \in ProjectedType,
                        Missed(type)' > Missed(type)
                 PROVE  Crash \/ \E c \in Caller : CallFault(c)
      OBVIOUS
    <2> QED
      BY MissedMoves, MissedType
  <1> QED
    BY <1>1, PaymentInvariant, PTL DEF PaymentSpec, LostOnlyByFault

TotalsInv ==
    /\ TotalsMissAtMostOne
    /\ ~summary.exists => summary = NoSummary

LEMMA ProjectKeepsTotals ==
    ASSUME summary \in SummaryRow, TotalsInv, NEW t, summary' = Project(summary, t)
    PROVE  TotalsInv'
  <1>1. CASE t \notin ProjectedType
    BY <1>1 DEF Project, ProjectedType, TotalsInv, TotalsMissAtMostOne
  <1>2. CASE t = "PAYMENT_COMPLETED"
    <2>1. /\ summary'.exists = TRUE
          /\ summary'.totalTransactions = summary.totalTransactions + 1
          /\ summary'.successfulTransactions = summary.successfulTransactions + 1
          /\ summary'.failedTransactions = summary.failedTransactions
      BY <1>2 DEF Project, OnPaymentCompleted, SummaryRow
    <2> QED
      BY <2>1 DEF TotalsInv, TotalsMissAtMostOne, SummaryRow
  <1>3. CASE t = "PAYMENT_REFUNDED"
    <2>1. /\ summary'.exists = TRUE
          /\ summary'.totalTransactions = summary.totalTransactions
          /\ summary'.successfulTransactions = summary.successfulTransactions
          /\ summary'.failedTransactions = summary.failedTransactions
      BY <1>3 DEF Project, OnPaymentRefunded, SummaryRow
    <2> QED
      BY <2>1 DEF TotalsInv, TotalsMissAtMostOne, SummaryRow
  <1>4. CASE t = "PAYMENT_FAILED"
    <2>1. /\ summary'.exists = TRUE
          /\ summary'.totalTransactions = IF summary.exists THEN summary.totalTransactions + 1 ELSE 0
          /\ summary'.successfulTransactions = summary.successfulTransactions
          /\ summary'.failedTransactions = summary.failedTransactions + 1
      BY <1>4 DEF Project, OnPaymentFailed, SummaryRow
    <2> QED
      BY <2>1 DEF TotalsInv, TotalsMissAtMostOne, SummaryRow, NoSummary
  <1> QED
    BY <1>1, <1>2, <1>3, <1>4 DEF ProjectedType

LEMMA TotalsInitially ==
    ASSUME PaymentInit
    PROVE  TotalsInv
  BY DEF PaymentInit, TotalsInv, TotalsMissAtMostOne, NoSummary

LEMMA TotalsInvInductive ==
    ASSUME PayInv, TotalsInv, [PaymentNext]_paymentVars
    PROVE  TotalsInv'
  <1>1. summary' = summary \/ \E t : summary' = Project(summary, t)
    BY DEF PaymentNext, CallStep, CallFault, paymentVars, handlerVars, Begin, Return, CheckKey,
           Insert, SetKey, Find, UpdateStatus, PublishStep, DispatchToProjector, PublishReturns,
           Enqueue, StatementFails, InsertReplyLost, UpdateReplyLost, PublishFault,
           ProjectorFails, ExpireKey, Crash
  <1>2. summary \in SummaryRow
    BY DEF PayInv, PaymentTypeOK
  <1> QED
    BY <1>1, <1>2, ProjectKeepsTotals DEF TotalsInv, TotalsMissAtMostOne

(* Whatever the order of events, a day's transactions are its successes    *)
(* and failures but for one (PaymentSummaryProjector.ts:60).               *)
THEOREM TotalsAreShortByOne == PaymentSpec => []TotalsMissAtMostOne
  <1>1. PaymentInit => TotalsInv
    BY TotalsInitially
  <1>2. PayInv /\ TotalsInv /\ [PaymentNext]_paymentVars => TotalsInv'
    BY TotalsInvInductive
  <1> QED
    BY <1>1, <1>2, PaymentInvariant, PTL DEF PaymentSpec, TotalsInv

-----------------------------------------------------------------------------
(* What an event history says, when requests do not overlap *)

(* The event of a sole publish is the last of its history.                 *)
PublishesLast(c) ==
    pub[c].step \in {"append", "dispatch", "published"} =>
        \A v \in Versions(pub[c].event.aggregateId) : v <= pub[c].event.version

(* The row shows the operation whose event is to be published.             *)
StatusStands(c) ==
    call[c].pc \in {"setKey", "publish"} =>
        payments[call[c].order].status = Target(call[c].op)

ReplayInv(c) ==
    /\ pub[c].step # "idle" => PaymentPub(c)
    /\ PublishesLast(c)
    /\ StatusStands(c)

(* What a step does to the publish of a sole caller.                       *)
LEMMA SolePublishMoves ==
    ASSUME PayInv, [PaymentNext]_paymentVars, NEW c, Caller = {c}
    PROVE  \/ UNCHANGED busVars
           \/ /\ SetKey(c) \/ UpdateStatus(c)
              /\ pub'[c].step = "getLatestVersion" /\ pub'[c].event.type \in PaymentEvent
              /\ eventStore' = eventStore
           \/ (StoreStep(c) \/ StoreFault(c) \/ Dispatch(c)) /\ UNCHANGED <<call, payments>>
           \/ pub'[c] = NoPub /\ eventStore' = eventStore
  <1>1. ASSUME SetKey(c) \/ UpdateStatus(c)
        PROVE  /\ pub'[c].step = "getLatestVersion" /\ pub'[c].event.type \in PaymentEvent
               /\ eventStore' = eventStore
    <2>1. PICK op \in Operation : Publish(c, call[c].order, EventOf(op))
      <3>1. CASE SetKey(c)
        BY <3>1 DEF SetKey, EventOf, Operation
      <3>2. CASE UpdateStatus(c)
        BY <3>2, RunningCall DEF UpdateStatus, PayInv
      <3> QED
        BY <1>1, <3>1, <3>2
    <2>2. EventOf(op) \in PaymentEvent
      BY EventOfType
    <2> QED
      BY <2>1, <2>2 DEF Publish, PayInv, BusInv, BusTypeOK
  <1>2. CASE PublishReturns(c)
    BY <1>2 DEF PublishReturns, Resume, PayInv, BusInv, BusTypeOK
  <1>3. CASE PublishStep(c) \/ PublishFault(c) \/ DispatchToProjector(c) \/ ProjectorFails(c)
    BY <1>3 DEF PublishStep, PublishFault, DispatchToProjector, ProjectorFails, handlerVars
  <1>4. CASE Crash
    BY <1>4 DEF Crash, BusCrash
  <1>5. CASE CheckKey(c) \/ Insert(c) \/ Find(c) \/ Enqueue(c) \/ StatementFails(c)
             \/ InsertReplyLost(c) \/ UpdateReplyLost(c) \/ Return(c)
             \/ (\E op \in PaymentOp, o \in Order : Begin(c, op, o))
             \/ (\E k \in Key : ExpireKey(k)) \/ UNCHANGED paymentVars
    BY <1>5 DEF CheckKey, Insert, Find, Enqueue, StatementFails, InsertReplyLost,
                UpdateReplyLost, Return, Begin, ExpireKey, paymentVars, busVars
  <1> QED
    BY <1>1, <1>2, <1>3, <1>4, <1>5 DEF PaymentNext, CallStep, CallFault

LEMMA StillPublishesLast ==
    ASSUME PayInv, [PaymentNext]_paymentVars, NEW c, Caller = {c}, PublishesLast(c)
    PROVE  PublishesLast(c)'
  <1>1. CASE UNCHANGED busVars
    BY <1>1 DEF busVars, PublishesLast, Versions
  <1>2. CASE pub'[c].step = "getLatestVersion" \/ pub'[c] = NoPub
    BY <1>2 DEF PublishesLast, NoPub
  <1>3. CASE StoreStep(c) \/ StoreFault(c) \/ Dispatch(c)
    <2>1. CASE GetLatestVersion(c)
      <3>1. pub[c] \in [step : PubStep, event : StoredEvent]
        BY <2>1, RunningPublish DEF PayInv, BusInv, GetLatestVersion, PubStep
      <3>2. PICK v \in LatestVersion(pub[c].event.aggregateId) :
                pub' = [pub EXCEPT ![c] = [step  |-> "append",
                                           event |-> [pub[c].event EXCEPT !.version = v + 1]]]
        BY <2>1 DEF GetLatestVersion
      <3> DEFINE new == [pub[c].event EXCEPT !.version = v + 1]
      <3>3. new.version = v + 1 /\ new.aggregateId = pub[c].event.aggregateId
        BY <3>1 DEF StoredEvent
      <3> HIDE DEF new
      <3>4. pub'[c].event = new
        BY <3>2 DEF new, PayInv, BusInv, BusTypeOK
      <3>5. \A w \in Versions(pub[c].event.aggregateId) : w <= v /\ w \in Nat
        BY <3>2 DEF LatestVersion, Versions, PayInv, BusInv, BusTypeOK, StoredEvent
      <3>6. v \in Nat
        BY <3>2 DEF LatestVersion, Versions, PayInv, BusInv, BusTypeOK, StoredEvent
      <3>8. eventStore' = eventStore
        BY <2>1 DEF GetLatestVersion
      <3>9. \A w \in Versions(new.aggregateId) : w <= new.version
        BY <3>3, <3>5, <3>6
      <3> QED
        BY <3>4, <3>8, <3>9 DEF PublishesLast, Versions
    <2>2. CASE ~GetLatestVersion(c)
      <3>1. /\ pub'[c].event = pub[c].event
            /\ eventStore' = eventStore \/ eventStore' = eventStore \cup {pub[c].event}
            /\ pub'[c].step \in {"dispatch", "published"} => pub[c].step \in {"append", "dispatch"}
            /\ pub'[c].step # "append"
        <4>1. PICK step \in {"dispatch", "published", "error"} :
                 /\ Goto(c, step)
                 /\ pub[c].step \in PubStep
                 /\ step # "error" => pub[c].step \in {"append", "dispatch"}
                 /\ eventStore' = eventStore \/ eventStore' = eventStore \cup {pub[c].event}
          BY <1>3, <2>2 DEF StoreStep, StoreFault, AppendEvent, AppendReplyLost,
                            AppendIsDuplicate, QueryFails, Dispatch, PubStep
        <4>2. pub'[c].step = step /\ pub'[c].event = pub[c].event
          BY <4>1, GotoProperties DEF PayInv, BusInv, PubStep
        <4> QED
          BY <4>1, <4>2
      <3>2. ASSUME pub'[c].step \in {"dispatch", "published"},
                   NEW w \in Versions(pub[c].event.aggregateId)'
            PROVE  w <= pub[c].event.version
        <4>1. pub[c].event.version \in Nat
          BY <3>1, <3>2, RunningPublish DEF PayInv, BusInv, StoredEvent, PubStep
        <4>2. w \in Versions(pub[c].event.aggregateId) \/ w = pub[c].event.version
          BY <3>1, <3>2 DEF Versions
        <4> QED
          BY <3>1, <3>2, <4>1, <4>2 DEF PublishesLast
      <3> QED
        BY <3>1, <3>2 DEF PublishesLast, Versions
    <2> QED
      BY <2>1, <2>2
  <1> QED
    BY <1>1, <1>2, <1>3, SolePublishMoves

LEMMA StatusStillStands ==
    ASSUME PayInv, [PaymentNext]_paymentVars, NEW c, Caller = {c}, StatusStands(c)
    PROVE  StatusStands(c)'
  <1> SUFFICES ASSUME call'[c].pc \in {"setKey", "publish"}
               PROVE  payments'[call'[c].order].status = Target(call'[c].op)
    BY DEF StatusStands
  <1>1. CASE Insert(c)
    <2>1. call'[c].order = call[c].order /\ call'[c].op = call[c].op
      BY <1>1, ContinueProperties DEF Insert, PayInv, Pc
    <2>2. call[c].op = "create" /\ call[c].order \in Order
      BY <1>1, RunningCall DEF Insert, PayInv, CallInv, PcOfOp
    <2> QED
      BY <1>1, <2>1, <2>2 DEF Insert, Pending, Target, PayInv, PaymentTypeOK
  <1>2. CASE UpdateStatus(c)
    <2>1. call'[c].order = call[c].order /\ call'[c].op = call[c].op
      BY <1>2, ContinueProperties DEF UpdateStatus, PayInv, Pc
    <2>2. call[c].order \in Order
      BY <1>2, RunningCall DEF UpdateStatus, PayInv
    <2> DEFINE new == Updated(payments[call[c].order], call[c].op)
    <2>3. new.status = Target(call[c].op)
      BY DEF Updated
    <2> HIDE DEF new
    <2>4. payments' = [payments EXCEPT ![call[c].order] = new]
      BY <1>2 DEF UpdateStatus, new
    <2>5. payments'[call[c].order] = new
      BY <2>2, <2>4 DEF PayInv, PaymentTypeOK
    <2> QED
      BY <2>1, <2>3, <2>5
  <1>3. CASE ~Insert(c) /\ ~UpdateStatus(c)
    <2>1. call'[c].op = call[c].op /\ call'[c].order = call[c].order /\ call[c].pc \in {"setKey", "publish"}
      <3>1. \/ call'[c] = call[c]
               \/ /\ SetKey(c)
                  /\ call'[c].op = call[c].op
                  /\ call'[c].order = call[c].order
        BY <1>3, CallsMove
      <3> QED
        BY <3>1 DEF SetKey
    <2>2. payments' = payments
      BY <2>1, RowsMove
    <2> QED
      BY <2>1, <2>2 DEF StatusStands
  <1> QED
    BY <1>1, <1>2, <1>3

LEMMA ReplayInvariant ==
    ASSUME NEW CONSTANT sole, Caller = {sole}
    PROVE  PaymentSpec => []ReplayInv(sole)
  <1>1. PaymentInit => ReplayInv(sole)
    BY DEF PaymentInit, BusInit, ReplayInv, PublishesLast, StatusStands, NoPub, NoCall
  <1>2. PayInv /\ ReplayInv(sole) /\ [PaymentNext]_paymentVars => ReplayInv(sole)'
    <2> SUFFICES ASSUME PayInv, ReplayInv(sole), [PaymentNext]_paymentVars
                 PROVE  ReplayInv(sole)'
      OBVIOUS
    <2>1. pub'[sole].step # "idle" => PaymentPub(sole)'
      <3>1. CASE UNCHANGED busVars
        BY <3>1 DEF busVars, ReplayInv, PaymentPub
      <3>2. CASE pub'[sole].step = "getLatestVersion" /\ pub'[sole].event.type \in PaymentEvent
        BY <3>2 DEF PaymentPub
      <3>3. CASE StoreStep(sole) \/ StoreFault(sole) \/ Dispatch(sole)
        <4>1. pub[sole].step # "idle" /\ pub'[sole].event.type = pub[sole].event.type
          BY <3>3, PublishMoves DEF PayInv
        <4> QED
          BY <4>1 DEF ReplayInv, PaymentPub
      <3>4. CASE pub'[sole] = NoPub
        BY <3>4 DEF NoPub
      <3> QED
        BY <3>1, <3>2, <3>3, <3>4, SolePublishMoves
    <2> QED
      BY <2>1, StillPublishesLast, StatusStillStands DEF ReplayInv
  <1> QED
    BY <1>1, <1>2, PaymentInvariant, PTL DEF PaymentSpec

(* Answered with an error.                                                 *)
Throws(c) == call[c].pc # "error" /\ call'[c].pc = "error"

(* A row that a step changes has a call at work on it, or one that threw.  *)
LEMMA ChangedIsBetween ==
    ASSUME PayInv, [PaymentNext]_paymentVars, NEW c, Caller = {c}, NEW o \in Order,
           payments'[o] # payments[o]
    PROVE  Between(o)' \/ Throws(c)
  <1>1. /\ call[c].pc \in {"insert", "update"} /\ o = call[c].order
    BY RowsMove DEF PayInv, PaymentTypeOK
  <1>2. Insert(c) \/ InsertReplyLost(c) \/ UpdateStatus(c) \/ UpdateReplyLost(c)
    BY DEF PaymentNext, CallStep, CallFault, paymentVars, handlerVars, Begin, Return, CheckKey,
           SetKey, Find, PublishStep, DispatchToProjector, PublishReturns, Enqueue,
           StatementFails, PublishFault, ProjectorFails, ExpireKey, Crash
  <1>3. PICK pc \in {"setKey", "publish", "error"} : Continue(c, pc)
    BY <1>2 DEF Insert, InsertReplyLost, UpdateStatus, UpdateReplyLost
  <1>4. call'[c].pc = pc /\ call'[c].order = o
    BY <1>1, <1>3, ContinueProperties DEF PayInv, Pc
  <1> QED
    BY <1>1, <1>4 DEF Between, Throws

(* Another aggregate's event leaves a history as it is.                    *)
LEMMA ForeignEventLeaves ==
    ASSUME NEW o, NEW e, e.aggregateId # o, eventStore' = eventStore \cup {e},
           NEW op, LastIs(o, op)
    PROVE  LastIs(o, op)'
  BY DEF LastIs, EventsOf, Versions

(* A history of a payment that no call is at work on stays as it is.       *)
LEMMA QuietHistoryStays ==
    ASSUME NEW c, Caller = {c}, PayInv, ReplayInv(c), [PaymentNext]_paymentVars,
           NEW o \in Order, ~Between(o), NEW op \in Operation, LastIs(o, op)
    PROVE  LastIs(o, op)'
  <1>1. CASE eventStore' = eventStore
    BY <1>1 DEF LastIs, EventsOf, Versions
  <1>2. CASE eventStore' # eventStore
    <2>1. StoreStep(c) \/ StoreFault(c) \/ Dispatch(c)
      BY <1>2, SolePublishMoves DEF busVars
    <2>2. eventStore' = eventStore \cup {pub[c].event} /\ pub[c].step = "append"
      BY <1>2, <2>1, PublishAdvances DEF PayInv
    <2>3. call[c].pc = "publish" /\ pub[c].event.aggregateId = call[c].order
      BY <2>2 DEF ReplayInv, PayInv, CallInv, PubOfCall
    <2>4. pub[c].event.aggregateId # o
      BY <2>3 DEF Between
    <2> QED
      BY <2>2, <2>4, ForeignEventLeaves
  <1> QED
    BY <1>1, <1>2

(* A call that leaves its publish without a throw leaves its event last.   *)
LEMMA FinishedCallReplays ==
    ASSUME NEW c, Caller = {c}, PayInv, ReplayInv(c), [PaymentNext]_paymentVars,
           NEW o \in Order, Between(o), ~Between(o)', ~Crash, ~Throws(c)
    PROVE  \E op \in Operation : Target(op) = payments[o].status /\ LastIs(o, op)'
  <1>1. call[c].pc \in {"setKey", "publish"} /\ call[c].order = o
    BY DEF Between
  <1>2. ~(call'[c] = call[c]) /\ ~(call'[c].pc = "error")
    BY <1>1 DEF Between, Throws
  <1>3. ~(call'[c].pc \in {"idle", "checkKey", "find"})
    <2>1. call' = call \/ \E pc \in Pc \ {"checkKey", "find"} : Continue(c, pc)
      BY <1>1
         DEF PaymentNext, CallStep, CallFault, paymentVars, handlerVars, Begin, Return, NoCall,
             ExpireKey, CheckKey, Insert, SetKey, Find, UpdateStatus, PublishStep,
             DispatchToProjector, PublishReturns, Enqueue, StatementFails, InsertReplyLost,
             UpdateReplyLost, PublishFault, ProjectorFails, Pc
    <2> QED
      BY <1>1, <2>1, ContinueProperties DEF PayInv, Pc
  <1>4. /\ call'[c].order = call[c].order
        /\ \/ SetKey(c) /\ call'[c].pc = "publish"
           \/ PublishReturns(c) /\ pub[c].step = "published"
    BY <1>1, <1>2, <1>3, CallsMove DEF CheckKey, Insert, Find, UpdateStatus, Enqueue
  <1>5. PublishReturns(c) /\ pub[c].step = "published" /\ call[c].pc = "publish"
    BY <1>1, <1>4 DEF Between, PublishReturns
  <1>6. PICK op \in Operation : op = call[c].op /\ Target(op) = payments[o].status
    BY <1>1, <1>5, RunningCall DEF PayInv, ReplayInv, StatusStands
  <1>7. /\ pub[c].event \in eventStore
        /\ pub[c].event.aggregateId = o /\ pub[c].event.type = EventOf(op)
        /\ \A v \in Versions(o) : v <= pub[c].event.version
    BY <1>1, <1>5, <1>6
       DEF PayInv, BusInv, PublishedIsStored, CallInv, PubOfCall, ReplayInv, PublishesLast
  <1>8. LastIs(o, op)
    BY <1>7 DEF LastIs, EventsOf
  <1>9. eventStore' = eventStore
    BY <1>5 DEF PublishReturns, Resume
  <1>10. LastIs(o, op)'
    BY <1>8, <1>9 DEF LastIs, EventsOf, Versions
  <1> QED
    BY <1>6, <1>10

(* Requests that do not overlap leave a payment's history at odds with its *)
(* row only by a crash, or in a call that answers with an error; what was  *)
(* refused, repeated or done keeps it true (PaymentHandler.ts:86, :98).    *)
THEOREM HistoryReplays ==
    ASSUME NEW CONSTANT sole, Caller = {sole}
    PROVE  PaymentSpec => ReplayBrokenOnlyByFault
  <1>1. PayInv /\ ReplayInv(sole) /\ [PaymentNext]_paymentVars
            => [\A o \in Order : Replays(o) /\ ~Replays(o)' => Crash \/ Throws(sole)]_paymentVars
    <2> SUFFICES ASSUME PayInv, ReplayInv(sole), [PaymentNext]_paymentVars, NEW o \in Order,
                        Replays(o), ~Crash, ~Throws(sole), Exists(o)', ~Between(o)'
                 PROVE  \E op \in Operation : Target(op) = payments'[o].status /\ LastIs(o, op)'
      BY DEF Replays
    <2>1. payments'[o] = payments[o] /\ Exists(o)
      BY ChangedIsBetween DEF Exists
    <2>2. CASE Between(o)
      BY <2>1, <2>2, FinishedCallReplays
    <2>3. CASE ~Between(o)
      BY <2>1, <2>3, QuietHistoryStays DEF Replays
    <2> QED
      BY <2>2, <2>3
  <1>2. Throws(sole) => \E c \in Caller : call[c].pc # "error" /\ call'[c].pc = "error"
    BY DEF Throws
  <1>3. PayInv /\ ReplayInv(sole) /\ [PaymentNext]_paymentVars
            => [\A o \in Order : Replays(o) /\ ~Replays(o)' =>
                   Crash \/ \E c \in Caller : call[c].pc # "error" /\ call'[c].pc = "error"]_paymentVars
    BY <1>1, <1>2
  <1> QED
    BY <1>3, ReplayInvariant, PaymentInvariant, PTL DEF PaymentSpec, ReplayBrokenOnlyByFault
=============================================================================
