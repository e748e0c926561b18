--------------------------- MODULE PaymentHandler ---------------------------
(***************************************************************************)
(* The payment operations (src/handlers/PaymentHandler.ts) over the        *)
(* payments table, the Redis idempotency keys, the event bus, the payment  *)
(* read model and the payment-processing queue.                            *)
(*                                                                         *)
(* An operation is an asynchronous function: a step of it runs from one    *)
(* await to the next, and between two steps any other call may run.  The   *)
(* amounts are left out; a row keeps whether paidAt and refundedAt are     *)
(* set, which is what later operations and the read model depend on.       *)
(***************************************************************************)
EXTENDS EventBus, PaymentSummaryProjector, FiniteSets

CONSTANTS
    Order,       \* the order numbers createPayment may draw
    Key,         \* payment:idempotency:{userId}:{productId}
    KeyOf,       \* the user and product an order is for
    PaymentOp,   \* the operations that clients call, see PaymentAssumption
    KeyExpires,  \* TRUE: the TTL of a key may run out during the behaviour
    CanCrash,    \* TRUE: the Node process may die and be restarted
    NoOrder

PaymentEvent == {"PAYMENT_CREATED", "PAYMENT_COMPLETED", "PAYMENT_FAILED", "PAYMENT_REFUNDED"}

ASSUME PaymentAssumption ==
    /\ Order \subseteq Aggregate
    /\ KeyOf \in [Order -> Key]
    /\ PaymentOp \subseteq {"create", "complete", "fail", "refund"}
    /\ PaymentEvent \subseteq EventType
    /\ KeyExpires \in BOOLEAN
    /\ CanCrash \in BOOLEAN
    /\ NoOrder \notin Order

VARIABLES
    payments,     \* the rows of payments, by order number
    idempotency,  \* the order number stored under each key
    call,         \* call[c]: the operation that caller c runs
    summary,      \* the row of payment_summary
    processing    \* the orders of the jobs added to payment-processing

handlerVars == <<payments, idempotency, call, summary, processing>>

paymentVars == <<eventStore, pub, payments, idempotency, call, summary, processing>>

Operation == {"create", "complete", "fail", "refund"}

Status == {"PENDING", "COMPLETED", "FAILED", "REFUNDED"}

Row == [status : Status, paid : BOOLEAN, refunded : BOOLEAN]

NoPayment == [status |-> "none", paid |-> FALSE, refunded |-> FALSE]

Pc == {"checkKey", "insert", "setKey", "enqueue", "find", "update", "publish", "ok", "error"}

NoCall == [pc |-> "idle"]

CallState == {NoCall} \cup [pc : Pc, op : Operation, order : Order]

PaymentTypeOK ==
    /\ payments \in [Order -> Row \cup {NoPayment}]
    /\ idempotency \in [Key -> Order \cup {NoOrder}]
    /\ call \in [Caller -> CallState]
    /\ summary \in SummaryRow
    /\ processing \subseteq Order

-----------------------------------------------------------------------------
(* What each operation does to a row, and the event it announces. *)

(* A bug: a failed payment is made payable again, whatever it was.         *)
MutFailLeavesPending(op) ==
    CASE op \in {"create", "fail"} -> "PENDING"
      [] op = "complete"           -> "COMPLETED"
      [] op = "refund"             -> "REFUNDED"

Target(op) ==
    CASE op = "create"   -> "PENDING"
      [] op = "complete" -> "COMPLETED"
      [] op = "fail"     -> "FAILED"
      [] op = "refund"   -> "REFUNDED"

EventOf(op) ==
    CASE op = "create"   -> "PAYMENT_CREATED"
      [] op = "complete" -> "PAYMENT_COMPLETED"
      [] op = "fail"     -> "PAYMENT_FAILED"
      [] op = "refund"   -> "PAYMENT_REFUNDED"

Pending == [status |-> "PENDING", paid |-> FALSE, refunded |-> FALSE]

(* UPDATE payments SET status = ?, ...: no condition on the row's state. *)
Updated(row, op) ==
    [status   |-> Target(op),
     paid     |-> row.paid \/ op = "complete",
     refunded |-> row.refunded \/ op = "refund"]

Exists(o) == payments[o] # NoPayment

(* Bugs: a refund of whatever row there is, a completion of any row. *)
MutRefundAnything(op, o) ==
    Exists(o) /\ (op = "complete" => payments[o].status = "PENDING")

MutCompleteAgain(op, o) ==
    Exists(o) /\ (op = "refund" => payments[o].status = "COMPLETED")

(* The checks of the row an operation reads; failPayment has none. *)
Admissible(op, o) ==
    /\ Exists(o)
    /\ op = "complete" => payments[o].status = "PENDING"
    /\ op = "refund"   => payments[o].status = "COMPLETED"

Continue(c, pc) == call' = [call EXCEPT ![c].pc = pc]

(* uuidv4: an order number nobody has drawn, or asked for, before. *)
Fresh(o) ==
    /\ ~Exists(o)
    /\ \A d \in Caller : call[d] # NoCall => call[d].order # o

-----------------------------------------------------------------------------
(* A client calls the API, and later gets the answer. *)

NewCall(op, o) ==
    [pc |-> IF op = "create" THEN "checkKey" ELSE "find", op |-> op, order |-> o]

Begin(c, op, o) ==
    /\ call[c] = NoCall
    /\ op \in PaymentOp
    /\ op = "create" => Fresh(o)
    /\ HasRoom(o)
    /\ call' = [call EXCEPT ![c] = NewCall(op, o)]
    /\ UNCHANGED <<busVars, payments, idempotency, summary, processing>>

(* A bug: the finished call is not cleaned up.                             *)
MutReturnKeepsOrder(c) ==
    /\ call[c].pc \in {"ok", "error"}
    /\ Continue(c, "idle")
    /\ UNCHANGED <<busVars, payments, idempotency, summary, processing>>

Return(c) ==
    /\ call[c].pc \in {"ok", "error"}
    /\ call' = [call EXCEPT ![c] = NoCall]
    /\ UNCHANGED <<busVars, payments, idempotency, summary, processing>>

-----------------------------------------------------------------------------
(* createPayment up to its publish *)

(* A bug: the key is taken, as with SET NX, before there is a row.         *)
MutReserveKey(c) ==
    /\ call[c].pc = "checkKey"
    /\ LET k == KeyOf[call[c].order]
       IN  IF idempotency[k] # NoOrder
           THEN Continue(c, "error") /\ UNCHANGED idempotency
           ELSE /\ Continue(c, "insert")
                /\ idempotency' = [idempotency EXCEPT ![k] = call[c].order]
    /\ UNCHANGED <<busVars, payments, summary, processing>>

CheckKey(c) ==
    /\ call[c].pc = "checkKey"
    /\ Continue(c, IF idempotency[KeyOf[call[c].order]] # NoOrder THEN "error" ELSE "insert")
    /\ UNCHANGED <<busVars, payments, idempotency, summary, processing>>

Insert(c) ==
    /\ call[c].pc = "insert"
    /\ payments' = [payments EXCEPT ![call[c].order] = Pending]
    /\ Continue(c, "setKey")
    /\ UNCHANGED <<busVars, idempotency, summary, processing>>

InsertReplyLost(c) ==
    /\ "replyLost" \in DbFault
    /\ call[c].pc = "insert"
    /\ payments' = [payments EXCEPT ![call[c].order] = Pending]
    /\ Continue(c, "error")
    /\ UNCHANGED <<busVars, idempotency, summary, processing>>

(* Bugs: no key is set; the job is added before the event is stored.       *)
MutForgetKey(c) ==
    /\ call[c].pc = "setKey"
    /\ Continue(c, "publish")
    /\ Publish(c, call[c].order, "PAYMENT_CREATED")
    /\ UNCHANGED <<payments, idempotency, summary, processing>>

MutEnqueueFirst(c) ==
    LET o == call[c].order
    IN  /\ call[c].pc = "setKey"
        /\ idempotency' = [idempotency EXCEPT ![KeyOf[o]] = o]
        /\ processing' = processing \cup {o}
        /\ Continue(c, "publish")
        /\ Publish(c, o, "PAYMENT_CREATED")
        /\ UNCHANGED <<payments, summary>>

(* SET idempotencyKey orderNumber EX 3600: last writer wins. *)
SetKey(c) ==
    LET o == call[c].order
    IN  /\ call[c].pc = "setKey"
        /\ idempotency' = [idempotency EXCEPT ![KeyOf[o]] = o]
        /\ Continue(c, "publish")
        /\ Publish(c, o, "PAYMENT_CREATED")
        /\ UNCHANGED <<payments, summary, processing>>

(* The TTL of one hour runs out. *)
ExpireKey(k) ==
    /\ KeyExpires
    /\ idempotency[k] # NoOrder
    /\ idempotency' = [idempotency EXCEPT ![k] = NoOrder]
    /\ UNCHANGED <<busVars, payments, call, summary, processing>>

-----------------------------------------------------------------------------
(* completePayment, failPayment, refundPayment up to their publish *)

Find(c) ==
    /\ call[c].pc = "find"
    /\ Continue(c, IF Admissible(call[c].op, call[c].order) THEN "update" ELSE "error")
    /\ UNCHANGED <<busVars, payments, idempotency, summary, processing>>

(* A bug: failures are not announced.                                      *)
MutSilentFailure(c) ==
    LET o  == call[c].order
        op == call[c].op
    IN  /\ call[c].pc = "update"
        /\ payments' = [payments EXCEPT ![o] = Updated(payments[o], op)]
        /\ IF op = "fail"
           THEN Continue(c, "ok") /\ UNCHANGED busVars
           ELSE Continue(c, "publish") /\ Publish(c, o, EventOf(op))
        /\ UNCHANGED <<idempotency, summary, processing>>

UpdateStatus(c) ==
    LET o  == call[c].order
        op == call[c].op
    IN  /\ call[c].pc = "update"
        /\ payments' = [payments EXCEPT ![o] = Updated(payments[o], op)]
        /\ Continue(c, "publish")
        /\ Publish(c, o, EventOf(op))
        /\ UNCHANGED <<idempotency, summary, processing>>

UpdateReplyLost(c) ==
    LET o == call[c].order
    IN  /\ "replyLost" \in DbFault
        /\ call[c].pc = "update"
        /\ payments' = [payments EXCEPT ![o] = Updated(payments[o], call[c].op)]
        /\ Continue(c, "error")
        /\ UNCHANGED <<busVars, idempotency, summary, processing>>

(* A statement on payments throws without effect. *)
StatementFails(c) ==
    /\ "rejected" \in DbFault
    /\ call[c].pc \in {"insert", "find", "update"}
    /\ Continue(c, "error")
    /\ UNCHANGED <<busVars, payments, idempotency, summary, processing>>

-----------------------------------------------------------------------------
(* publish, and what follows it *)

PublishStep(c) ==
    /\ StoreStep(c)
    /\ UNCHANGED handlerVars

PublishFault(c) ==
    /\ StoreFault(c)
    /\ UNCHANGED handlerVars

DispatchToProjector(c) ==
    /\ Dispatch(c)
    /\ summary' = Project(summary, pub[c].event.type)
    /\ UNCHANGED <<payments, idempotency, call, processing>>

(* The projector's statement fails, and allSettled swallows that. *)
ProjectorFails(c) ==
    /\ "rejected" \in DbFault
    /\ Dispatch(c)
    /\ pub[c].event.type \in ProjectedType
    /\ UNCHANGED handlerVars

(* A bug: publish is not awaited, or its error is swallowed.               *)
MutPublishErrorSwallowed(c) ==
    /\ call[c].pc = "publish"
    /\ Resume(c)
    /\ Continue(c, IF call[c].op = "create" THEN "enqueue" ELSE "ok")
    /\ UNCHANGED <<payments, idempotency, summary, processing>>

PublishReturns(c) ==
    /\ call[c].pc = "publish"
    /\ Resume(c)
    /\ Continue(c, IF pub[c].step = "error" THEN "error"
                   ELSE IF call[c].op = "create" THEN "enqueue" ELSE "ok")
    /\ UNCHANGED <<payments, idempotency, summary, processing>>

(* A bug: the call waits for the job, which no worker takes.               *)
MutAwaitJob(c) ==
    /\ call[c].pc = "enqueue"
    /\ call[c].order \notin processing
    /\ processing' = processing \cup {call[c].order}
    /\ UNCHANGED <<busVars, payments, idempotency, call, summary>>

Enqueue(c) ==
    /\ call[c].pc = "enqueue"
    /\ processing' = processing \cup {call[c].order}
    /\ Continue(c, "ok")
    /\ UNCHANGED <<busVars, payments, idempotency, summary>>

(* MySQL and Redis keep what they have. *)
Crash ==
    /\ CanCrash
    /\ BusCrash
    /\ call' = [c \in Caller |-> NoCall]
    /\ UNCHANGED <<payments, idempotency, summary, processing>>

-----------------------------------------------------------------------------
PaymentInit ==
    /\ BusInit
    /\ payments = [o \in Order |-> NoPayment]
    /\ idempotency = [k \in Key |-> NoOrder]
    /\ call = [c \in Caller |-> NoCall]
    /\ summary = NoSummary
    /\ processing = {}

(* The steps the runtime takes by itself once a call has begun. *)
CallStep(c) ==
    \/ CheckKey(c)
    \/ Insert(c)
    \/ SetKey(c)
    \/ Find(c)
    \/ UpdateStatus(c)
    \/ PublishStep(c)
    \/ DispatchToProjector(c)
    \/ PublishReturns(c)
    \/ Enqueue(c)

CallFault(c) ==
    \/ StatementFails(c)
    \/ InsertReplyLost(c)
    \/ UpdateReplyLost(c)
    \/ PublishFault(c)
    \/ ProjectorFails(c)

PaymentNext ==
    \/ \E c \in Caller :
          \/ \E op \in PaymentOp, o \in Order : Begin(c, op, o)
          \/ CallStep(c)
          \/ CallFault(c)
          \/ Return(c)
    \/ \E k \in Key : ExpireKey(k)
    \/ Crash

PaymentSpec == PaymentInit /\ [][PaymentNext]_paymentVars

PaymentFairSpec == PaymentSpec /\ \A c \in Caller : WF_paymentVars(CallStep(c))

-----------------------------------------------------------------------------
(* Properties of any number of overlapping calls, with faults and crashes *)

HasEvent(o, type) == \E e \in eventStore : e.aggregateId = o /\ e.type = type

EventsOf(o, type) == {e \in eventStore : e.aggregateId = o /\ e.type = type}

(* Nothing is announced that did not happen.  A stale completion, or a     *)
(* failure, may overwrite the status that an event announced; but what the *)
(* event leaves for good is in the row, in whatever order calls that       *)
(* overlap write rows and events: a creation the row, a completion paidAt, *)
(* a refund refundedAt, each of them and a failure that the payment is no  *)
(* longer PENDING.  Nor does the row say more than happened: COMPLETED is  *)
(* paid, REFUNDED is refunded, and what is refunded was paid               *)
(* (PaymentHandler.ts:82, :104, :122).                                     *)
Settled(o) == payments[o].status \in {"COMPLETED", "FAILED", "REFUNDED"}

EventsFollowRows ==
    \A o \in Order :
        /\ HasEvent(o, "PAYMENT_CREATED") => Exists(o)
        /\ HasEvent(o, "PAYMENT_COMPLETED") => payments[o].paid /\ Settled(o)
        /\ HasEvent(o, "PAYMENT_FAILED") => Settled(o)
        /\ HasEvent(o, "PAYMENT_REFUNDED") => payments[o].refunded /\ Settled(o)
        /\ payments[o].status = "COMPLETED" => payments[o].paid
        /\ payments[o].status = "REFUNDED" => payments[o].refunded
        /\ payments[o].refunded => payments[o].paid

(* What a client was told has happened has its row, its event and its job, *)
(* whatever crashed or was retried before (PaymentHandler.ts:71, :98).     *)
AcknowledgedIsDurable ==
    \A c \in Caller :
        call[c].pc = "ok" =>
            /\ HasEvent(call[c].order, EventOf(call[c].op))
            /\ Exists(call[c].order)
            /\ call[c].op = "create" => call[c].order \in processing

(* The order number a rejected duplicate is told of (PaymentHandler.ts:29) *)
(* names a payment of that user and product, not one that was lost between *)
(* the key and the row.                                                    *)
KeyNamesItsOrder ==
    \A k \in Key :
        LET o == idempotency[k]
        IN  o # NoOrder => Exists(o) /\ KeyOf[o] = k

(* A job stands for a payment whose creation is in the event store.        *)
JobsAreLogged == \A o \in processing : HasEvent(o, "PAYMENT_CREATED")

(* A payment leaves PENDING once and for all: no overlap of calls, failed  *)
(* statement or retry makes it payable a second time.                      *)
PendingIsLeftForGood ==
    [][\A o \in Order :
          Exists(o) /\ payments[o].status # "PENDING" => payments'[o].status # "PENDING"]_payments

(* A payment is announced as completed once for each caller at most: only  *)
(* requests that overlap the first completion can repeat it.               *)
RepeatsOnlyByOverlap ==
    \A o \in Order : Cardinality(EventsOf(o, "PAYMENT_COMPLETED")) <= Cardinality(Caller)

(* The read model counts no event that is not in the store, and no event   *)
(* twice: the counts trail the store by the events still to be dispatched. *)
Delivering(type) ==
    {c \in Caller : pub[c].step = "dispatch" /\ pub[c].event.type = type}

Stored(type) == {e \in eventStore : e.type = type}

ReadModelNeverAhead ==
    \A type \in ProjectedType :
        Counted(summary, type) + Cardinality(Delivering(type)) <= Cardinality(Stored(type))

(* The read model falls short of the store only where a statement fails or *)
(* the process dies; no order of events, handlers and calls loses a count  *)
(* (EventBus.ts:44-49, PaymentSummaryProjector.ts:24).                     *)
Missed(type) ==
    Cardinality(Stored(type)) - Cardinality(Delivering(type)) - Counted(summary, type)

LostOnlyByFault ==
    [][\A type \in ProjectedType :
          Missed(type)' > Missed(type) => Crash \/ \E c \in Caller : CallFault(c)]_paymentVars

(* The transactions of a day are its successes and failures but for one at *)
(* most: only the event that makes the row can be a failure that is not    *)
(* counted (PaymentSummaryProjector.ts:60), in any order of events.        *)
TotalsMissAtMostOne ==
    LET n == summary.successfulTransactions + summary.failedTransactions
    IN  \/ summary.totalTransactions = n
        \/ summary.failedTransactions > 0 /\ summary.totalTransactions + 1 = n

-----------------------------------------------------------------------------
(* Properties of requests that do not overlap *)

(* A payment is announced as completed, and as refunded, once at most.     *)
CompletedOnce == \A o \in Order : Cardinality(EventsOf(o, "PAYMENT_COMPLETED")) <= 1

RefundedOnce == \A o \in Order : Cardinality(EventsOf(o, "PAYMENT_REFUNDED")) <= 1

(* While the key of a user and product lives, they have one payment.       *)
OnePaymentPerKey ==
    \A o, p \in Order : Exists(o) /\ Exists(p) /\ KeyOf[o] = KeyOf[p] => o = p

(* While the key lives they have one job, however many creations failed    *)
(* half way, lost their reply or were cut off before, and were retried.    *)
OneJobPerKey == \A o, p \in processing : KeyOf[o] = KeyOf[p] => o = p

(* An event history says how its payment stands: replaying the last event  *)
(* gives the row's status, except while a call is between UPDATE and INSERT. *)
LastIs(o, op) ==
    \E e \in EventsOf(o, EventOf(op)) : \A v \in Versions(o) : v <= e.version

Between(o) ==
    \E c \in Caller :
        call[c].pc \in {"setKey", "publish"} /\ call[c].order = o

Replays(o) ==
    Exists(o) /\ ~Between(o) =>
        \E op \in Operation : Target(op) = payments[o].status /\ LastIs(o, op)

(* A history that replays stops doing so only by a crash or in a call that *)
(* answers with an error: a refused, repeated or successful one keeps it.  *)
ReplayBrokenOnlyByFault ==
    [][\A o \in Order :
          Replays(o) /\ ~Replays(o)' =>
              Crash \/ \E c \in Caller : call[c].pc # "error" /\ call'[c].pc = "error"]_paymentVars

(* A call that has begun is answered, with an error if need be, or gone in *)
(* a crash: no failure of a statement or of publish leaves it waiting.     *)
CallsReturn ==
    \A c \in Caller :
        call[c].pc \notin {"idle", "ok", "error"} ~> call[c].pc \in {"idle", "ok", "error"}
=============================================================================
