------------------------ MODULE PaymentHandlerProofs ------------------------
(***************************************************************************)
(* The invariants of the payment operations, for any number of callers,    *)
(* orders and keys, with failed statements, crashes and expiring keys.     *)
(***************************************************************************)
EXTENDS PaymentHandler, EventLogProofs

(* A row bears what an operation has done to it.                           *)
RowShows(o, op) ==
    /\ Exists(o)
    /\ op = "complete" => payments[o].paid
    /\ op = "refund" => payments[o].refunded
    /\ op # "create" => payments[o].status # "PENDING"

(* Each place of a call belongs to one kind of operation.                  *)
PcOfOp(c) ==
    /\ call[c].pc \in {"checkKey", "insert", "setKey", "enqueue"} => call[c].op = "create"
    /\ call[c].pc \in {"find", "update"} => call[c].op # "create"

(* A caller publishes a payment event, and no other, at the publish of a   *)
(* payment operation, and it is the event of that operation.               *)
PaymentPub(c) == pub[c].step # "idle" /\ pub[c].event.type \in PaymentEvent

PubOfCall(c) ==
    /\ PaymentPub(c) <=> call[c].pc = "publish"
    /\ PaymentPub(c) =>
          /\ pub[c].event.aggregateId = call[c].order
          /\ pub[c].event.type = EventOf(call[c].op)

(* A call that goes on after its statement finds what it did in the row.   *)
CallFollowsRow(c) ==
    /\ call[c].pc \in {"setKey", "publish", "enqueue", "ok"} => RowShows(call[c].order, call[c].op)
    /\ call[c].pc = "update" => Exists(call[c].order)
    /\ call[c].pc = "update" /\ call[c].op = "refund" => payments[call[c].order].paid

(* A call is past its publish only when the event is in the store.         *)
CallIsLogged(c) ==
    /\ call[c].pc \in {"enqueue", "ok"} => HasEvent(call[c].order, EventOf(call[c].op))
    /\ call[c].pc = "ok" /\ call[c].op = "create" => call[c].order \in processing

CallInv(c) == PcOfOp(c) /\ PubOfCall(c) /\ CallFollowsRow(c) /\ CallIsLogged(c)

(* An order number that is to be inserted is one call's alone.             *)
Inserting(c) == call[c].pc \in {"checkKey", "insert"}

OrdersAreFresh ==
    \A c \in Caller :
        Inserting(c) =>
            /\ ~Exists(call[c].order)
            /\ \A d \in Caller \ {c} : Inserting(d) => call[d].order # call[c].order

RowsAreEarned ==
    \A o \in Order :
        /\ payments[o].status = "COMPLETED" => payments[o].paid
        /\ payments[o].status = "REFUNDED" => payments[o].refunded
        /\ payments[o].refunded => payments[o].paid

EventsShow ==
    \A e \in eventStore : \A op \in Operation :
        e.type = EventOf(op) /\ e.aggregateId \in Order => RowShows(e.aggregateId, op)

PayInv ==
    /\ BusInv
    /\ PaymentTypeOK
    /\ \A c \in Caller : CallInv(c)
    /\ OrdersAreFresh
    /\ RowsAreEarned
    /\ EventsShow
    /\ KeyNamesItsOrder
    /\ JobsAreLogged

-----------------------------------------------------------------------------
(* What no step undoes: rows, what they bear, events and jobs.             *)
Grows ==
    /\ \A o \in Order :
          /\ Exists(o) => Exists(o)'
          /\ payments[o].paid => payments'[o].paid
          /\ payments[o].refunded => payments'[o].refunded
          /\ Exists(o) /\ payments[o].status # "PENDING" => payments'[o].status # "PENDING"
    /\ eventStore \subseteq eventStore'
    /\ processing \subseteq processing'

(* Caller c alone moves.                                                   *)
OthersStay(c) == \A d \in Caller \ {c} : call'[d] = call[d] /\ pub'[d] = pub[d]

LEMMA EventOfOne ==
    ASSUME NEW op \in Operation, NEW other \in Operation, EventOf(op) = EventOf(other)
    PROVE  op = other
  BY DEF Operation, EventOf

LEMMA EventOfType ==
    ASSUME NEW op \in Operation
    PROVE  EventOf(op) \in EventType /\ EventOf(op) \in PaymentEvent
  BY PaymentAssumption DEF Operation, EventOf, PaymentEvent

(* The type of a call that is running.                                     *)
LEMMA RunningCall ==
    ASSUME PaymentTypeOK, NEW c \in Caller, call[c].pc # "idle"
    PROVE  /\ call[c] \in [pc : Pc, op : Operation, order : Order]
           /\ call[c].op \in Operation /\ call[c].order \in Order
  BY DEF PaymentTypeOK, CallState, NoCall

LEMMA ContinueProperties ==
    ASSUME PaymentTypeOK, NEW c \in Caller, NEW pc \in Pc, call[c].pc # "idle", Continue(c, pc)
    PROVE  /\ call' \in [Caller -> CallState]
           /\ call'[c].pc = pc
           /\ call'[c].op = call[c].op
           /\ call'[c].order = call[c].order
           /\ \A d \in Caller \ {c} : call'[d] = call[d]
  <1>1. call[c] \in [pc : Pc, op : Operation, order : Order]
    BY RunningCall
  <1>2. [call[c] EXCEPT !.pc = pc] \in [pc : Pc, op : Operation, order : Order]
    BY <1>1
  <1>3. call' = [call EXCEPT ![c] = [call[c] EXCEPT !.pc = pc]]
    BY DEF Continue
  <1> QED
    BY <1>1, <1>2, <1>3 DEF PaymentTypeOK, CallState

(* A call that does not move keeps what holds of it.                       *)
LEMMA OtherCallKept ==
    ASSUME PayInv, Grows, NEW d \in Caller, call'[d] = call[d], pub'[d] = pub[d]
    PROVE  CallInv(d)'
  <1>1. CallInv(d)
    BY DEF PayInv
  <1>2. PcOfOp(d)' /\ PubOfCall(d)'
    BY <1>1 DEF CallInv, PcOfOp, PubOfCall, PaymentPub
  <1>3. CallFollowsRow(d)'
    <2>1. CASE call[d].pc = "idle"
      BY <2>1 DEF CallFollowsRow
    <2>2. CASE call[d].pc # "idle"
      <3>1. call[d].order \in Order
        BY <2>2, RunningCall DEF PayInv
      <3> QED
        BY <1>1, <3>1 DEF CallInv, CallFollowsRow, RowShows, Grows, Exists
    <2> QED
      BY <2>1, <2>2
  <1>4. CallIsLogged(d)'
    BY <1>1 DEF CallInv, CallIsLogged, HasEvent, Grows
  <1> QED
    BY <1>2, <1>3, <1>4 DEF CallInv
LEMMA OtherCallsKept ==
    ASSUME PayInv, Grows, NEW c \in Caller, OthersStay(c), CallInv(c)'
    PROVE  \A d \in Caller : CallInv(d)'
  BY OtherCallKept DEF OthersStay

(* An order number stays fresh when no order but those a call stops        *)
(* inserting gets a row, and no other call begins to insert.               *)
LEMMA FreshKept ==
    ASSUME PayInv, NEW c \in Caller, OthersStay(c),
           Inserting(c)' => Inserting(c) /\ call'[c].order = call[c].order,
           \A o \in Order : Exists(o)' => Exists(o) \/ (Inserting(c) /\ ~Inserting(c)' /\ o = call[c].order)
    PROVE  OrdersAreFresh'
  <1> SUFFICES ASSUME NEW d \in Caller, Inserting(d)'
               PROVE  /\ ~Exists(call[d].order)'
                      /\ \A e \in Caller \ {d} : Inserting(e)' => call'[e].order # call'[d].order
    BY DEF OrdersAreFresh
  <1>1. \A e \in Caller : Inserting(e)' => Inserting(e) /\ call'[e].order = call[e].order
    BY DEF OthersStay, Inserting
  <1>2. call[d].order \in Order
    BY <1>1, RunningCall DEF Inserting, PayInv
  <1>3. ~Exists(call[d].order)'
    BY <1>1, <1>2 DEF PayInv, OrdersAreFresh, Exists
  <1>4. ASSUME NEW e \in Caller \ {d}, Inserting(e)'
        PROVE  call'[e].order # call'[d].order
    BY <1>1, <1>4 DEF PayInv, OrdersAreFresh
  <1> QED
    BY <1>3, <1>4

(* A job, or an event about a payment, stands for what stays.              *)
LEMMA JobsKept ==
    ASSUME PayInv, Grows, processing' = processing
    PROVE  JobsAreLogged'
  BY DEF PayInv, Grows, JobsAreLogged, HasEvent

LEMMA KeysKept ==
    ASSUME PayInv, Grows, idempotency' = idempotency
    PROVE  KeyNamesItsOrder'
  BY DEF PayInv, Grows, KeyNamesItsOrder, PaymentTypeOK, Exists

LEMMA EventsKept ==
    ASSUME PayInv, Grows, eventStore' = eventStore
    PROVE  EventsShow'
  <1> SUFFICES ASSUME NEW e \in eventStore, NEW op \in Operation,
                      e.type = EventOf(op), e.aggregateId \in Order
               PROVE  RowShows(e.aggregateId, op)'
    BY DEF EventsShow
  <1>1. RowShows(e.aggregateId, op)
    BY DEF PayInv, EventsShow
  <1> QED
    BY <1>1 DEF RowShows, Grows, Exists
-----------------------------------------------------------------------------
(* Steps that change nothing but the place of a call. *)

LEMMA CallMoves ==
    ASSUME PayInv, NEW c \in Caller, call' \in [Caller -> CallState], OthersStay(c),
           UNCHANGED <<busVars, payments, idempotency, summary, processing>>,
           CallInv(c)', OrdersAreFresh'
    PROVE  PayInv'
  <1>1. Grows
    BY DEF Grows, busVars, Exists
  <1>2. BusInv'
    BY BusStutterKeeps DEF PayInv
  <1>3. PaymentTypeOK'
    BY DEF PayInv, PaymentTypeOK
  <1>4. \A d \in Caller : CallInv(d)'
    BY <1>1, OtherCallsKept
  <1>5. RowsAreEarned'
    BY DEF PayInv, RowsAreEarned
  <1>6. EventsShow' /\ KeyNamesItsOrder' /\ JobsAreLogged'
    BY <1>1, EventsKept, KeysKept, JobsKept DEF busVars
  <1> QED
    BY <1>2, <1>3, <1>4, <1>5, <1>6 DEF PayInv

(* A call that is not at its publish has no payment event under way.       *)
LEMMA NotPublishing ==
    ASSUME PayInv, NEW c \in Caller, call[c].pc # "publish", pub'[c] = pub[c]
    PROVE  ~PaymentPub(c)'
  BY DEF PayInv, CallInv, PubOfCall, PaymentPub

(* A caller that has no call, or one that ended, begins another.           *)
LEMMA CallBegins ==
    ASSUME PayInv, NEW c \in Caller, NEW op \in Operation, NEW o \in Order,
           call[c].pc \in {"idle", "ok", "error"}, op = "create" => Fresh(o),
           call' = [call EXCEPT ![c] = NewCall(op, o)],
           UNCHANGED <<busVars, payments, idempotency, summary, processing>>
    PROVE  PayInv'
  <1> DEFINE new == NewCall(op, o)
  <1>2. new \in CallState /\ new.op = op /\ new.order = o
    BY DEF NewCall, CallState, Pc
  <1>3. new.pc = IF op = "create" THEN "checkKey" ELSE "find"
    BY DEF NewCall
  <1> HIDE DEF new
  <1>4. call' = [call EXCEPT ![c] = new]
    BY DEF new
  <1>5. call' \in [Caller -> CallState] /\ call'[c] = new
    BY <1>2, <1>4 DEF PayInv, PaymentTypeOK
  <1>6. pub' = pub /\ payments' = payments
    BY DEF busVars
  <1>7. OthersStay(c)
    BY <1>4, <1>6 DEF OthersStay, PayInv, PaymentTypeOK
  <1>8. CallInv(c)'
    <2>1. ~PaymentPub(c)'
      BY <1>6, NotPublishing
    <2> QED
      BY <1>2, <1>3, <1>5, <2>1 DEF CallInv, PcOfOp, PubOfCall, CallFollowsRow, CallIsLogged
  <1>9. OrdersAreFresh'
    <2>1. Inserting(c)' => ~Exists(o) /\ \A d \in Caller : Inserting(d) => call[d].order # o
      BY <1>2, <1>3, <1>5 DEF Fresh, Inserting, NoCall
    <2>2. \A d \in Caller \ {c} : Inserting(d)' = Inserting(d) /\ call'[d].order = call[d].order
      BY <1>7 DEF OthersStay, Inserting
    <2>3. call'[c].order = o
      BY <1>2, <1>5
    <2> SUFFICES ASSUME NEW d \in Caller, Inserting(d)'
                 PROVE  /\ ~Exists(call[d].order)'
                        /\ \A e \in Caller \ {d} : Inserting(e)' => call'[e].order # call'[d].order
      BY DEF OrdersAreFresh
    <2>4. CASE d = c
      BY <1>6, <2>1, <2>2, <2>3, <2>4 DEF Exists
    <2>5. CASE d # c
      BY <1>6, <2>1, <2>2, <2>3, <2>5 DEF Exists, PayInv, OrdersAreFresh
    <2> QED
      BY <2>4, <2>5
  <1> QED
    BY <1>5, <1>7, <1>8, <1>9, CallMoves

LEMMA BeginKeeps ==
    ASSUME PayInv, NEW c \in Caller, NEW op \in PaymentOp, NEW o \in Order, Begin(c, op, o)
    PROVE  PayInv'
  <1>1. op \in Operation /\ call[c].pc = "idle"
    BY PaymentAssumption DEF Operation, Begin, NoCall
  <1> QED
    BY <1>1, CallBegins DEF Begin

(* A call that has ended is over.                                          *)
LEMMA CallEnds ==
    ASSUME PayInv, NEW c \in Caller, call[c].pc \in {"ok", "error"},
           call' = [call EXCEPT ![c] = NoCall],
           UNCHANGED <<busVars, payments, idempotency, summary, processing>>
    PROVE  PayInv'
  <1>1. pub' = pub /\ payments' = payments
    BY DEF busVars
  <1>2. call' \in [Caller -> CallState] /\ call'[c].pc = "idle"
    BY <1>1 DEF PayInv, PaymentTypeOK, CallState, NoCall
  <1>3. OthersStay(c)
    BY <1>1 DEF OthersStay, PayInv, PaymentTypeOK
  <1>4. CallInv(c)'
    <2>1. ~PaymentPub(c)'
      BY <1>1, NotPublishing
    <2> QED
      BY <1>2, <2>1 DEF CallInv, PcOfOp, PubOfCall, CallFollowsRow, CallIsLogged
  <1>5. OrdersAreFresh'
    BY <1>1, <1>2, <1>3, FreshKept DEF Inserting, Exists
  <1> QED
    BY <1>2, <1>3, <1>4, <1>5, CallMoves

LEMMA ReturnKeeps ==
    ASSUME PayInv, NEW c \in Caller, Return(c)
    PROVE  PayInv'
  BY CallEnds DEF Return

(* A call that checks, finds or throws before its publish.                 *)
LEMMA GoesOn ==
    ASSUME PayInv, NEW c \in Caller, NEW pc \in {"insert", "update", "error"}, Continue(c, pc),
           UNCHANGED <<busVars, payments, idempotency, summary, processing>>,
           call[c].pc \in {"checkKey", "insert", "find", "update"},
           pc = "insert" => call[c].pc = "checkKey",
           pc = "update" => call[c].pc = "find" /\ Admissible(call[c].op, call[c].order)
    PROVE  PayInv'
  <1>1. /\ call' \in [Caller -> CallState]
        /\ call'[c].pc = pc
        /\ call'[c].op = call[c].op
        /\ call'[c].order = call[c].order
        /\ \A d \in Caller \ {c} : call'[d] = call[d]
    BY ContinueProperties DEF PayInv, Pc
  <1>2. OthersStay(c) /\ pub' = pub /\ payments' = payments
    BY <1>1 DEF OthersStay, busVars
  <1>3. call[c].order \in Order
    BY RunningCall DEF PayInv
  <1>4. CallInv(c)'
    <2>1. ~PaymentPub(c)'
      BY <1>2, NotPublishing
    <2>2. PcOfOp(c)'
      BY <1>1 DEF PayInv, CallInv, PcOfOp
    <2>3. CallFollowsRow(c)'
      BY <1>1, <1>2, <1>3 DEF CallFollowsRow, Admissible, Exists, PayInv, RowsAreEarned
    <2> QED
      BY <1>1, <2>1, <2>2, <2>3 DEF CallInv, PubOfCall, CallIsLogged
  <1>5. OrdersAreFresh'
    BY <1>1, <1>2, FreshKept DEF Inserting, Exists
  <1> QED
    BY <1>1, <1>2, <1>4, <1>5, CallMoves

LEMMA CheckKeyKeeps ==
    ASSUME PayInv, NEW c \in Caller, CheckKey(c)
    PROVE  PayInv'
  <1>1. PICK pc \in {"insert", "error"} : Continue(c, pc)
    BY DEF CheckKey
  <1> QED
    BY <1>1, GoesOn DEF CheckKey

LEMMA FindKeeps ==
    ASSUME PayInv, NEW c \in Caller, Find(c)
    PROVE  PayInv'
  <1>1. CASE Admissible(call[c].op, call[c].order)
    BY <1>1, GoesOn DEF Find
  <1>2. CASE ~Admissible(call[c].op, call[c].order)
    BY <1>2, GoesOn DEF Find
  <1> QED
    BY <1>1, <1>2

LEMMA StatementFailsKeeps ==
    ASSUME PayInv, NEW c \in Caller, StatementFails(c)
    PROVE  PayInv'
  BY GoesOn DEF StatementFails
-----------------------------------------------------------------------------
(* Statements on payments: a row is new, or updated by its operation.      *)

LEMMA UpdatedType ==
    ASSUME NEW row \in Row, NEW op \in Operation
    PROVE  Updated(row, op) \in Row
  BY DEF Row, Operation, Updated, Target, Status

LEMMA InsertsRow ==
    ASSUME PayInv, NEW c \in Caller, call[c].pc = "insert",
           NEW o \in Order, o = call[c].order,
           payments' = [payments EXCEPT ![o] = Pending],
           eventStore \subseteq eventStore', processing' = processing
    PROVE  /\ payments' \in [Order -> Row \cup {NoPayment}]
           /\ Grows
           /\ Exists(o)'
           /\ RowsAreEarned'
           /\ \A p \in Order : Exists(p)' => Exists(p) \/ p = o
  <1>1. payments[o] = NoPayment
    BY DEF PayInv, OrdersAreFresh, Inserting, Exists
  <1>2. Pending \in Row /\ Pending # NoPayment
    BY DEF Pending, Row, Status, NoPayment
  <1>3. payments' \in [Order -> Row \cup {NoPayment}]
    BY <1>2 DEF PayInv, PaymentTypeOK
  <1>4. /\ payments'[o] = Pending
        /\ \A p \in Order \ {o} : payments'[p] = payments[p]
    BY DEF PayInv, PaymentTypeOK
  <1>5. Grows
    BY <1>1, <1>2, <1>4 DEF Grows, Exists, NoPayment
  <1>6. RowsAreEarned'
    BY <1>4 DEF PayInv, RowsAreEarned, Pending
  <1> QED
    BY <1>2, <1>3, <1>4, <1>5, <1>6 DEF Exists

LEMMA UpdatesRow ==
    ASSUME PayInv, NEW c \in Caller, call[c].pc = "update",
           NEW o \in Order, o = call[c].order,
           NEW op \in Operation, op = call[c].op,
           payments' = [payments EXCEPT ![o] = Updated(payments[o], op)],
           eventStore \subseteq eventStore', processing' = processing
    PROVE  /\ payments' \in [Order -> Row \cup {NoPayment}]
           /\ Grows
           /\ RowShows(o, op)'
           /\ RowsAreEarned'
           /\ \A p \in Order : Exists(p)' => Exists(p)
  <1> DEFINE old == payments[o]
             new == Updated(old, op)
  <1>1. old \in Row /\ Exists(o)
    BY DEF PayInv, CallInv, CallFollowsRow, Exists, PaymentTypeOK
  <1>2. new \in Row
    BY <1>1, UpdatedType
  <1>3. new # NoPayment
    BY <1>2 DEF Row, Status, NoPayment
  <1>4. /\ new.paid = (old.paid \/ op = "complete")
        /\ new.refunded = (old.refunded \/ op = "refund")
    BY DEF Updated
  <1>5. /\ new.status = "COMPLETED" => op = "complete"
        /\ new.status = "REFUNDED" => op = "refund"
        /\ op # "create" => new.status # "PENDING"
    BY DEF Updated, Target, Operation
  <1>15. op # "create"
    BY DEF PayInv, CallInv, PcOfOp
  <1>6. op = "refund" => old.paid
    BY DEF PayInv, CallInv, CallFollowsRow
  <1>7. old.refunded => old.paid
    BY DEF PayInv, RowsAreEarned
  <1> HIDE DEF new
  <1>8. payments' = [payments EXCEPT ![o] = new]
    BY DEF new
  <1>9. /\ payments'[o] = new
        /\ \A p \in Order \ {o} : payments'[p] = payments[p]
    BY <1>8 DEF PayInv, PaymentTypeOK
  <1>10. payments' \in [Order -> Row \cup {NoPayment}]
    BY <1>2, <1>8 DEF PayInv, PaymentTypeOK
  <1>11. Grows
    BY <1>3, <1>4, <1>5, <1>9, <1>15 DEF Grows, Exists
  <1>12. RowShows(o, op)'
    BY <1>3, <1>4, <1>5, <1>9 DEF RowShows, Exists
  <1>13. RowsAreEarned'
    BY <1>4, <1>5, <1>6, <1>7, <1>9 DEF PayInv, RowsAreEarned
  <1>14. \A p \in Order : Exists(p)' => Exists(p)
    BY <1>1, <1>9 DEF Exists
  <1> QED
    BY <1>10, <1>11, <1>12, <1>13, <1>14
(* The INSERT, whether or not its reply arrives.                           *)
LEMMA InsertKeeps ==
    ASSUME PayInv, NEW c \in Caller, Insert(c) \/ InsertReplyLost(c)
    PROVE  PayInv'
  <1>1. PICK o \in Order : o = call[c].order
    BY RunningCall DEF PayInv, Insert, InsertReplyLost
  <1>2. PICK pc \in {"setKey", "error"} : Continue(c, pc)
    BY DEF Insert, InsertReplyLost
  <1>3. /\ call[c].pc = "insert"
        /\ payments' = [payments EXCEPT ![o] = Pending]
        /\ UNCHANGED <<busVars, idempotency, summary, processing>>
    BY <1>1 DEF Insert, InsertReplyLost
  <1>4. /\ payments' \in [Order -> Row \cup {NoPayment}]
        /\ Grows
        /\ Exists(o)'
        /\ RowsAreEarned'
        /\ \A p \in Order : Exists(p)' => Exists(p) \/ p = o
    BY <1>1, <1>3, InsertsRow DEF busVars
  <1>5. /\ call' \in [Caller -> CallState]
        /\ call'[c].pc = pc
        /\ call'[c].op = call[c].op
        /\ call'[c].order = o
        /\ \A d \in Caller \ {c} : call'[d] = call[d]
    BY <1>1, <1>2, <1>3, ContinueProperties DEF PayInv, Pc
  <1>6. OthersStay(c)
    BY <1>3, <1>5 DEF OthersStay, busVars
  <1>7. CallInv(c)'
    <2>1. call[c].op = "create"
      BY <1>3 DEF PayInv, CallInv, PcOfOp
    <2>2. ~PaymentPub(c)'
      BY <1>3, NotPublishing DEF busVars
    <2>3. CallFollowsRow(c)'
      BY <1>4, <1>5, <2>1 DEF CallFollowsRow, RowShows, Exists
    <2> QED
      BY <1>5, <2>1, <2>2, <2>3 DEF CallInv, PcOfOp, PubOfCall, CallIsLogged
  <1>8. OrdersAreFresh'
    BY <1>1, <1>3, <1>4, <1>5, <1>6, FreshKept DEF Inserting
  <1>9. BusInv' /\ PaymentTypeOK'
    BY <1>3, <1>4, <1>5, BusStutterKeeps DEF PayInv, PaymentTypeOK
  <1>10. \A d \in Caller : CallInv(d)'
    BY <1>4, <1>6, <1>7, OtherCallsKept
  <1>11. EventsShow' /\ KeyNamesItsOrder' /\ JobsAreLogged'
    BY <1>3, <1>4, EventsKept, KeysKept, JobsKept DEF busVars
  <1> QED
    BY <1>4, <1>8, <1>9, <1>10, <1>11 DEF PayInv

LEMMA UpdateReplyLostKeeps ==
    ASSUME PayInv, NEW c \in Caller, UpdateReplyLost(c)
    PROVE  PayInv'
  <1>1. PICK o \in Order, op \in Operation : o = call[c].order /\ op = call[c].op
    BY RunningCall DEF PayInv, UpdateReplyLost
  <1>2. /\ call[c].pc = "update"
        /\ payments' = [payments EXCEPT ![o] = Updated(payments[o], op)]
        /\ Continue(c, "error")
        /\ UNCHANGED <<busVars, idempotency, summary, processing>>
    BY <1>1 DEF UpdateReplyLost
  <1>3. /\ payments' \in [Order -> Row \cup {NoPayment}]
        /\ Grows
        /\ RowsAreEarned'
        /\ \A p \in Order : Exists(p)' => Exists(p)
    BY <1>1, <1>2, UpdatesRow DEF busVars
  <1>4. /\ call' \in [Caller -> CallState]
        /\ call'[c].pc = "error"
        /\ \A d \in Caller \ {c} : call'[d] = call[d]
    BY <1>2, ContinueProperties DEF PayInv, Pc
  <1>5. OthersStay(c)
    BY <1>2, <1>4 DEF OthersStay, busVars
  <1>6. CallInv(c)'
    <2>1. ~PaymentPub(c)'
      BY <1>2, NotPublishing DEF busVars
    <2> QED
      BY <1>4, <2>1 DEF CallInv, PcOfOp, PubOfCall, CallFollowsRow, CallIsLogged
  <1>7. OrdersAreFresh'
    BY <1>3, <1>4, <1>5, FreshKept DEF Inserting
  <1>8. BusInv' /\ PaymentTypeOK'
    BY <1>2, <1>3, <1>4, BusStutterKeeps DEF PayInv, PaymentTypeOK
  <1>9. \A d \in Caller : CallInv(d)'
    BY <1>3, <1>5, <1>6, OtherCallsKept
  <1>10. EventsShow' /\ KeyNamesItsOrder' /\ JobsAreLogged'
    BY <1>2, <1>3, EventsKept, KeysKept, JobsKept DEF busVars
  <1> QED
    BY <1>3, <1>7, <1>8, <1>9, <1>10 DEF PayInv

(* A call that starts to publish the event of its operation.               *)
LEMMA StartsPublishing ==
    ASSUME PayInv, NEW c \in Caller, NEW o \in Order, o = call[c].order,
           NEW op \in Operation, op = call[c].op,
           call[c].pc \in {"setKey", "update"}, Continue(c, "publish"), Publish(c, o, EventOf(op)),
           Grows, RowShows(o, op)'
    PROVE  /\ BusInv'
           /\ call' \in [Caller -> CallState]
           /\ OthersStay(c)
           /\ ~Inserting(c)'
           /\ \A d \in Caller : CallInv(d)'
  <1>1. /\ call' \in [Caller -> CallState]
        /\ call'[c].pc = "publish"
        /\ call'[c].op = op
        /\ call'[c].order = o
        /\ \A d \in Caller \ {c} : call'[d] = call[d]
    BY ContinueProperties DEF PayInv, Pc
  <1> DEFINE t == EventOf(op)
  <1>2. t \in EventType /\ t \in PaymentEvent
    BY EventOfType
  <1> HIDE DEF t
  <1>3. Publish(c, o, t)
    BY DEF t
  <1>4. BusInv'
    BY <1>2, <1>3, PaymentAssumption, PublishKeeps DEF PayInv
  <1>5. /\ pub'[c].step # "idle"
        /\ pub'[c].event.aggregateId = o
        /\ pub'[c].event.type = t
        /\ \A d \in Caller \ {c} : pub'[d] = pub[d]
    BY <1>3 DEF Publish, PayInv, BusInv, BusTypeOK
  <1>6. OthersStay(c)
    BY <1>1, <1>5 DEF OthersStay
  <1>7. CallInv(c)'
    <2>1. PubOfCall(c)'
      BY <1>1, <1>2, <1>5 DEF PubOfCall, PaymentPub, t
    <2>2. CallFollowsRow(c)'
      BY <1>1 DEF CallFollowsRow, RowShows, Exists
    <2> QED
      BY <1>1, <2>1, <2>2 DEF CallInv, PcOfOp, CallIsLogged
  <1>8. \A d \in Caller : CallInv(d)'
    BY <1>6, <1>7, OtherCallsKept
  <1> QED
    BY <1>1, <1>4, <1>6, <1>8 DEF Inserting
LEMMA SetKeyKeeps ==
    ASSUME PayInv, NEW c \in Caller, SetKey(c)
    PROVE  PayInv'
  <1>1. PICK o \in Order : o = call[c].order
    BY RunningCall DEF PayInv, SetKey
  <1>2. /\ call[c].pc = "setKey"
        /\ idempotency' = [idempotency EXCEPT ![KeyOf[o]] = o]
        /\ Continue(c, "publish")
        /\ Publish(c, o, "PAYMENT_CREATED")
        /\ UNCHANGED <<eventStore, payments, summary, processing>>
    BY <1>1 DEF SetKey, Publish
  <1>3. call[c].op = "create" /\ RowShows(o, "create")
    BY <1>1, <1>2 DEF PayInv, CallInv, PcOfOp, CallFollowsRow
  <1>4. "create" \in Operation /\ EventOf("create") = "PAYMENT_CREATED"
    BY DEF Operation, EventOf
  <1>5. Grows
    BY <1>2 DEF Grows, Exists
  <1>6. RowShows(o, "create")'
    BY <1>2, <1>3 DEF RowShows, Exists
  <1>7. /\ BusInv'
        /\ call' \in [Caller -> CallState]
        /\ OthersStay(c)
        /\ ~Inserting(c)'
        /\ \A d \in Caller : CallInv(d)'
    BY <1>1, <1>2, <1>3, <1>4, <1>5, <1>6, StartsPublishing
  <1>8. KeyOf[o] \in Key
    BY PaymentAssumption
  <1>9. PaymentTypeOK'
    BY <1>2, <1>7, <1>8 DEF PayInv, PaymentTypeOK
  <1>10. OrdersAreFresh'
    BY <1>2, <1>7, FreshKept DEF Exists
  <1>11. RowsAreEarned'
    BY <1>2 DEF PayInv, RowsAreEarned
  <1>12. EventsShow' /\ JobsAreLogged'
    BY <1>2, <1>5, EventsKept, JobsKept
  <1>13. KeyNamesItsOrder'
    BY <1>2, <1>3, <1>8 DEF PayInv, PaymentTypeOK, KeyNamesItsOrder, RowShows, Exists
  <1> QED
    BY <1>7, <1>9, <1>10, <1>11, <1>12, <1>13 DEF PayInv

LEMMA UpdateStatusKeeps ==
    ASSUME PayInv, NEW c \in Caller, UpdateStatus(c)
    PROVE  PayInv'
  <1>1. PICK o \in Order, op \in Operation : o = call[c].order /\ op = call[c].op
    BY RunningCall DEF PayInv, UpdateStatus
  <1>2. /\ call[c].pc = "update"
        /\ payments' = [payments EXCEPT ![o] = Updated(payments[o], op)]
        /\ Continue(c, "publish")
        /\ Publish(c, o, EventOf(op))
        /\ UNCHANGED <<eventStore, idempotency, summary, processing>>
    BY <1>1 DEF UpdateStatus, Publish
  <1>3. /\ payments' \in [Order -> Row \cup {NoPayment}]
        /\ Grows
        /\ RowShows(o, op)'
        /\ RowsAreEarned'
        /\ \A p \in Order : Exists(p)' => Exists(p)
    BY <1>1, <1>2, UpdatesRow
  <1>4. /\ BusInv'
        /\ call' \in [Caller -> CallState]
        /\ OthersStay(c)
        /\ ~Inserting(c)'
        /\ \A d \in Caller : CallInv(d)'
    BY <1>1, <1>2, <1>3, StartsPublishing
  <1>5. PaymentTypeOK'
    BY <1>2, <1>3, <1>4 DEF PayInv, PaymentTypeOK
  <1>6. OrdersAreFresh'
    BY <1>3, <1>4, FreshKept
  <1>7. EventsShow' /\ KeyNamesItsOrder' /\ JobsAreLogged'
    BY <1>2, <1>3, EventsKept, KeysKept, JobsKept
  <1> QED
    BY <1>3, <1>4, <1>5, <1>6, <1>7 DEF PayInv

-----------------------------------------------------------------------------
(* The publish itself *)

LEMMA ProjectType ==
    ASSUME NEW row \in SummaryRow, NEW type
    PROVE  Project(row, type) \in SummaryRow
  <1> DEFINE total == row.totalTransactions + 1
             good == row.successfulTransactions + 1
             bad == row.failedTransactions + 1
             back == row.refundCount + 1
             fallback == IF row.exists THEN total ELSE 0
  <1>1. total \in Nat /\ good \in Nat /\ bad \in Nat /\ back \in Nat /\ fallback \in Nat
    BY DEF SummaryRow
  <1> HIDE DEF total, good, bad, back, fallback
  <1>2. [row EXCEPT !.exists = TRUE, !.totalTransactions = total, !.successfulTransactions = good]
            \in SummaryRow
    BY <1>1 DEF SummaryRow
  <1>3. [row EXCEPT !.exists = TRUE, !.refundCount = back] \in SummaryRow
    BY <1>1 DEF SummaryRow
  <1>4. [row EXCEPT !.exists = TRUE, !.totalTransactions = fallback, !.failedTransactions = bad]
            \in SummaryRow
    BY <1>1 DEF SummaryRow
  <1> QED
    BY <1>2, <1>3, <1>4
       DEF Project, OnPaymentCompleted, OnPaymentRefunded, OnPaymentFailed,
           total, good, bad, back, fallback

(* A step of a publish, of this component's events or of others.           *)
LEMMA BusAdvances ==
    ASSUME PayInv, NEW c \in Caller, StoreStep(c) \/ StoreFault(c) \/ Dispatch(c),
           UNCHANGED <<payments, idempotency, call, processing>>, summary' \in SummaryRow
    PROVE  PayInv'
  <1>2. /\ BusInv'
        /\ pub[c].step # "idle" /\ pub'[c].step # "idle"
        /\ pub'[c].event.aggregateId = pub[c].event.aggregateId
        /\ pub'[c].event.type = pub[c].event.type
        /\ \A d \in Caller \ {c} : pub'[d] = pub[d]
        /\ eventStore \subseteq eventStore'
        /\ eventStore' \subseteq eventStore \cup {pub[c].event}
    BY PublishMoves DEF PayInv
  <1>3. Grows
    BY <1>2 DEF Grows, Exists
  <1>4. OthersStay(c)
    BY <1>2 DEF OthersStay
  <1>5. CallInv(c)
    BY DEF PayInv
  <1>6. PaymentPub(c)' <=> PaymentPub(c)
    BY <1>2 DEF PaymentPub
  <1>7. CallInv(c)'
    <2>1. PcOfOp(c)' /\ PubOfCall(c)'
      BY <1>2, <1>5, <1>6 DEF CallInv, PcOfOp, PubOfCall
    <2>2. CallFollowsRow(c)' /\ CallIsLogged(c)'
      BY <1>2, <1>5 DEF CallInv, CallFollowsRow, RowShows, Exists, CallIsLogged, HasEvent
    <2> QED
      BY <2>1, <2>2 DEF CallInv
  <1>8. \A d \in Caller : CallInv(d)'
    BY <1>3, <1>4, <1>7, OtherCallsKept
  <1>9. PaymentTypeOK'
    BY DEF PayInv, PaymentTypeOK
  <1>10. OrdersAreFresh' /\ RowsAreEarned'
    BY DEF PayInv, OrdersAreFresh, Inserting, Exists, RowsAreEarned
  <1>11. EventsShow'
    <2> SUFFICES ASSUME NEW e \in eventStore', NEW op \in Operation,
                        e.type = EventOf(op), e.aggregateId \in Order
                 PROVE  RowShows(e.aggregateId, op)'
      BY DEF EventsShow
    <2>1. RowShows(e.aggregateId, op)
      <3>1. CASE e \in eventStore
        BY <3>1 DEF PayInv, EventsShow
      <3>2. CASE e = pub[c].event
        <4>1. PaymentPub(c)
          BY <1>2, <3>2, EventOfType DEF PaymentPub
        <4>2. call[c].pc = "publish"
          BY <1>5, <4>1 DEF CallInv, PubOfCall
        <4>3. call[c].op \in Operation
          BY <4>2, RunningCall DEF PayInv
        <4>4. e.aggregateId = call[c].order /\ op = call[c].op
          BY <1>5, <3>2, <4>1, <4>3, EventOfOne DEF CallInv, PubOfCall
        <4> QED
          BY <1>5, <4>2, <4>4 DEF CallInv, CallFollowsRow
      <3> QED
        BY <1>2, <3>1, <3>2
    <2> QED
      BY <2>1 DEF RowShows, Exists
  <1>12. KeyNamesItsOrder' /\ JobsAreLogged'
    BY <1>3, KeysKept, JobsKept
  <1> QED
    BY <1>2, <1>8, <1>9, <1>10, <1>11, <1>12 DEF PayInv

LEMMA PublishingKeeps ==
    ASSUME PayInv, NEW c \in Caller,
           PublishStep(c) \/ PublishFault(c) \/ DispatchToProjector(c) \/ ProjectorFails(c)
    PROVE  PayInv'
  <1>1. /\ StoreStep(c) \/ StoreFault(c) \/ Dispatch(c)
        /\ UNCHANGED <<payments, idempotency, call, processing>>
        /\ summary' \in SummaryRow
    BY ProjectType
       DEF PublishStep, PublishFault, DispatchToProjector, ProjectorFails, handlerVars,
           PayInv, PaymentTypeOK
  <1> QED
    BY <1>1, BusAdvances

(* Publishes of other components begin and end beside the payments.        *)
LEMMA OtherPublishKeeps ==
    ASSUME PayInv, NEW c \in Caller, BusInv', UNCHANGED <<eventStore, handlerVars>>,
           ~PaymentPub(c), ~PaymentPub(c)', \A d \in Caller \ {c} : pub'[d] = pub[d]
    PROVE  PayInv'
  <1>1. Grows /\ OthersStay(c) /\ CallInv(c)
    BY DEF Grows, Exists, OthersStay, handlerVars, PayInv
  <1>2. CallInv(c)'
    <2>1. PcOfOp(c)' /\ PubOfCall(c)'
      BY <1>1 DEF CallInv, PcOfOp, PubOfCall, handlerVars
    <2>2. CallFollowsRow(c)' /\ CallIsLogged(c)'
      BY <1>1 DEF CallInv, CallFollowsRow, RowShows, Exists, CallIsLogged, HasEvent, handlerVars
    <2> QED
      BY <2>1, <2>2 DEF CallInv
  <1>3. \A d \in Caller : CallInv(d)'
    BY <1>1, <1>2, OtherCallsKept
  <1>4. PaymentTypeOK' /\ OrdersAreFresh' /\ RowsAreEarned'
    BY DEF PayInv, PaymentTypeOK, OrdersAreFresh, Inserting, Exists, RowsAreEarned, handlerVars
  <1>5. EventsShow' /\ KeyNamesItsOrder' /\ JobsAreLogged'
    BY <1>1, EventsKept, KeysKept, JobsKept DEF handlerVars
  <1> QED
    BY <1>3, <1>4, <1>5 DEF PayInv

LEMMA PublishReturnsKeeps ==
    ASSUME PayInv, NEW c \in Caller, PublishReturns(c)
    PROVE  PayInv'
  <1>1. /\ call[c].pc = "publish"
        /\ pub[c].step \in {"published", "error"}
        /\ Resume(c)
        /\ UNCHANGED <<eventStore, payments, idempotency, summary, processing>>
    BY DEF PublishReturns, Resume
  <1>2. PICK o \in Order, op \in Operation : o = call[c].order /\ op = call[c].op
    BY <1>1, RunningCall DEF PayInv
  <1>3. PICK pc \in {"error", "enqueue", "ok"} :
           /\ Continue(c, pc)
           /\ pc # "error" => pub[c].step = "published"
           /\ pc = "enqueue" <=> pub[c].step # "error" /\ op = "create"
    <2>1. CASE pub[c].step = "error"
      BY <2>1 DEF PublishReturns
    <2>2. CASE pub[c].step # "error" /\ op = "create"
      BY <1>1, <1>2, <2>2 DEF PublishReturns
    <2>3. CASE pub[c].step # "error" /\ op # "create"
      BY <1>1, <1>2, <2>3 DEF PublishReturns
    <2> QED
      BY <2>1, <2>2, <2>3
  <1>4. /\ call' \in [Caller -> CallState]
        /\ call'[c].pc = pc
        /\ call'[c].op = op
        /\ call'[c].order = o
        /\ \A d \in Caller \ {c} : call'[d] = call[d]
    BY <1>1, <1>2, <1>3, ContinueProperties DEF PayInv, Pc
  <1>5. BusInv'
    BY <1>1, ResumeKeeps DEF PayInv
  <1>6. ~PaymentPub(c)' /\ \A d \in Caller \ {c} : pub'[d] = pub[d]
    BY <1>1 DEF Resume, NoPub, PayInv, BusInv, BusTypeOK, PaymentPub
  <1>7. OthersStay(c)
    BY <1>4, <1>6 DEF OthersStay
  <1>8. Grows
    BY <1>1 DEF Grows, Exists
  <1>9. CallInv(c)'
    <2>1. CallInv(c)
      BY DEF PayInv
    <2>2. CallFollowsRow(c)'
      BY <1>1, <1>2, <1>4, <2>1 DEF CallInv, CallFollowsRow, RowShows, Exists
    <2>3. pc # "error" => HasEvent(o, EventOf(op))
      BY <1>1, <1>2, <1>3, <2>1
         DEF PayInv, BusInv, PublishedIsStored, CallInv, PubOfCall, HasEvent
    <2>4. CallIsLogged(c)'
      BY <1>1, <1>3, <1>4, <2>3 DEF CallIsLogged, HasEvent
    <2> QED
      BY <1>3, <1>4, <1>6, <2>2, <2>4 DEF CallInv, PcOfOp, PubOfCall
  <1>10. \A d \in Caller : CallInv(d)'
    BY <1>7, <1>8, <1>9, OtherCallsKept
  <1>11. PaymentTypeOK'
    BY <1>1, <1>4 DEF PayInv, PaymentTypeOK
  <1>12. OrdersAreFresh'
    BY <1>1, <1>4, <1>7, FreshKept DEF Inserting, Exists
  <1>13. RowsAreEarned'
    BY <1>1 DEF PayInv, RowsAreEarned
  <1>14. EventsShow' /\ KeyNamesItsOrder' /\ JobsAreLogged'
    BY <1>1, <1>8, EventsKept, KeysKept, JobsKept
  <1> QED
    BY <1>5, <1>10, <1>11, <1>12, <1>13, <1>14 DEF PayInv

LEMMA EnqueueKeeps ==
    ASSUME PayInv, NEW c \in Caller, Enqueue(c)
    PROVE  PayInv'
  <1>1. PICK o \in Order : o = call[c].order
    BY RunningCall DEF PayInv, Enqueue
  <1>2. /\ call[c].pc = "enqueue"
        /\ processing' = processing \cup {o}
        /\ Continue(c, "ok")
        /\ UNCHANGED <<busVars, payments, idempotency, summary>>
    BY <1>1 DEF Enqueue
  <1>3. /\ call' \in [Caller -> CallState]
        /\ call'[c].pc = "ok"
        /\ call'[c].op = call[c].op
        /\ call'[c].order = o
        /\ \A d \in Caller \ {c} : call'[d] = call[d]
    BY <1>1, <1>2, ContinueProperties DEF PayInv, Pc
  <1>4. OthersStay(c)
    BY <1>2, <1>3 DEF OthersStay, busVars
  <1>5. Grows
    BY <1>2 DEF Grows, Exists, busVars
  <1>6. call[c].op = "create" /\ CallInv(c)
    BY <1>2 DEF PayInv, CallInv, PcOfOp
  <1>7. HasEvent(o, "PAYMENT_CREATED") /\ EventOf(call[c].op) = "PAYMENT_CREATED"
    BY <1>1, <1>2, <1>6 DEF CallInv, CallIsLogged, EventOf
  <1>8. CallInv(c)'
    <2>1. ~PaymentPub(c)'
      BY <1>2, NotPublishing DEF busVars
    <2>2. CallFollowsRow(c)'
      BY <1>1, <1>2, <1>3, <1>6 DEF CallInv, CallFollowsRow, RowShows, Exists
    <2>3. CallIsLogged(c)'
      BY <1>2, <1>3, <1>7 DEF CallIsLogged, HasEvent, busVars
    <2> QED
      BY <1>3, <2>1, <2>2, <2>3 DEF CallInv, PcOfOp, PubOfCall
  <1>9. \A d \in Caller : CallInv(d)'
    BY <1>4, <1>5, <1>8, OtherCallsKept
  <1>10. BusInv' /\ PaymentTypeOK'
    BY <1>2, <1>3, BusStutterKeeps DEF PayInv, PaymentTypeOK
  <1>11. OrdersAreFresh'
    BY <1>2, <1>3, <1>4, FreshKept DEF Inserting, Exists
  <1>12. RowsAreEarned'
    BY <1>2 DEF PayInv, RowsAreEarned
  <1>13. EventsShow' /\ KeyNamesItsOrder'
    BY <1>2, <1>5, EventsKept, KeysKept DEF busVars
  <1>14. JobsAreLogged'
    BY <1>2, <1>7 DEF PayInv, JobsAreLogged, HasEvent, busVars
  <1> QED
    BY <1>9, <1>10, <1>11, <1>12, <1>13, <1>14 DEF PayInv
-----------------------------------------------------------------------------
(* Steps of no call *)

LEMMA ExpireKeyKeeps ==
    ASSUME PayInv, NEW k \in Key, ExpireKey(k)
    PROVE  PayInv'
  <1>1. /\ idempotency' = [idempotency EXCEPT ![k] = NoOrder]
        /\ UNCHANGED <<busVars, payments, call, summary, processing>>
    BY DEF ExpireKey
  <1>2. BusInv' /\ PaymentTypeOK'
    BY <1>1, BusStutterKeeps DEF PayInv, PaymentTypeOK
  <1>3. Grows /\ \A d \in Caller : call'[d] = call[d] /\ pub'[d] = pub[d]
    BY <1>1 DEF Grows, Exists, busVars
  <1>4. \A d \in Caller : CallInv(d)'
    BY <1>3, OtherCallKept
  <1>5. OrdersAreFresh' /\ RowsAreEarned'
    BY <1>1 DEF PayInv, OrdersAreFresh, Inserting, Exists, RowsAreEarned
  <1>6. EventsShow' /\ JobsAreLogged'
    BY <1>1, <1>3, EventsKept, JobsKept DEF busVars
  <1>7. KeyNamesItsOrder'
    BY <1>1 DEF PayInv, PaymentTypeOK, KeyNamesItsOrder, Exists
  <1> QED
    BY <1>2, <1>4, <1>5, <1>6, <1>7 DEF PayInv

LEMMA RestartKeeps ==
    ASSUME PayInv, BusCrash, call' = [c \in Caller |-> NoCall],
           UNCHANGED <<payments, idempotency, summary, processing>>
    PROVE  PayInv'
  <1>1. pub' = [c \in Caller |-> NoPub] /\ eventStore' = eventStore
    BY DEF BusCrash
  <1>2. BusInv' /\ PaymentTypeOK'
    BY BusCrashKeeps DEF PayInv, PaymentTypeOK, CallState
  <1>3. Grows
    BY <1>1 DEF Grows, Exists
  <1>4. \A c \in Caller : call'[c].pc = "idle" /\ pub'[c].step = "idle"
    BY <1>1 DEF NoCall, NoPub
  <1>5. \A c \in Caller : CallInv(c)'
    BY <1>4 DEF CallInv, PcOfOp, PubOfCall, PaymentPub, CallFollowsRow, CallIsLogged
  <1>6. OrdersAreFresh'
    BY <1>4 DEF OrdersAreFresh, Inserting
  <1>7. RowsAreEarned'
    BY <1>1 DEF PayInv, RowsAreEarned
  <1>8. EventsShow' /\ KeyNamesItsOrder' /\ JobsAreLogged'
    BY <1>1, <1>3, EventsKept, KeysKept, JobsKept
  <1> QED
    BY <1>2, <1>5, <1>6, <1>7, <1>8 DEF PayInv

LEMMA CrashKeeps ==
    ASSUME PayInv, Crash
    PROVE  PayInv'
  BY RestartKeeps DEF Crash

LEMMA PaymentStutterKeeps ==
    ASSUME PayInv, UNCHANGED paymentVars
    PROVE  PayInv'
  <1>1. UNCHANGED <<busVars, payments, idempotency, call, summary, processing>>
    BY DEF paymentVars, busVars
  <1>2. BusInv' /\ PaymentTypeOK'
    BY <1>1, BusStutterKeeps DEF PayInv, PaymentTypeOK
  <1>3. Grows /\ \A d \in Caller : call'[d] = call[d] /\ pub'[d] = pub[d]
    BY <1>1 DEF Grows, Exists, busVars
  <1>4. \A d \in Caller : CallInv(d)'
    BY <1>3, OtherCallKept
  <1>5. OrdersAreFresh' /\ RowsAreEarned'
    BY <1>1 DEF PayInv, OrdersAreFresh, Inserting, Exists, RowsAreEarned
  <1>6. EventsShow' /\ KeyNamesItsOrder' /\ JobsAreLogged'
    BY <1>1, <1>3, EventsKept, KeysKept, JobsKept DEF busVars
  <1> QED
    BY <1>2, <1>4, <1>5, <1>6 DEF PayInv

-----------------------------------------------------------------------------
LEMMA PayInvInitially ==
    ASSUME PaymentInit
    PROVE  PayInv
  <1>1. BusInv
    BY BusInvInitially DEF PaymentInit
  <1>2. NoSummary \in SummaryRow
    BY DEF NoSummary, SummaryRow
  <1>3. PaymentTypeOK
    BY <1>2 DEF PaymentInit, PaymentTypeOK, CallState
  <1>4. \A c \in Caller : call[c].pc = "idle" /\ pub[c].step = "idle"
    BY DEF PaymentInit, BusInit, NoCall, NoPub
  <1>5. \A c \in Caller : CallInv(c)
    BY <1>4 DEF CallInv, PcOfOp, PubOfCall, PaymentPub, CallFollowsRow, CallIsLogged
  <1>6. OrdersAreFresh
    BY <1>4 DEF OrdersAreFresh, Inserting
  <1>7. RowsAreEarned /\ EventsShow /\ KeyNamesItsOrder /\ JobsAreLogged
    BY DEF PaymentInit, BusInit, RowsAreEarned, NoPayment, EventsShow, KeyNamesItsOrder, JobsAreLogged
  <1> QED
    BY <1>1, <1>3, <1>5, <1>6, <1>7 DEF PayInv

LEMMA PayInvInductive ==
    ASSUME PayInv, [PaymentNext]_paymentVars
    PROVE  PayInv'
  <1>1. ASSUME NEW c \in Caller, NEW op \in PaymentOp, NEW o \in Order, Begin(c, op, o)
        PROVE  PayInv'
    BY <1>1, BeginKeeps
  <1>2. ASSUME NEW c \in Caller, CallStep(c)
        PROVE  PayInv'
    BY <1>2, CheckKeyKeeps, InsertKeeps, SetKeyKeeps, FindKeeps, UpdateStatusKeeps,
       PublishingKeeps, PublishReturnsKeeps, EnqueueKeeps
       DEF CallStep
  <1>3. ASSUME NEW c \in Caller, CallFault(c)
        PROVE  PayInv'
    BY <1>3, StatementFailsKeeps, InsertKeeps, UpdateReplyLostKeeps, PublishingKeeps DEF CallFault
  <1>4. ASSUME NEW c \in Caller, Return(c)
        PROVE  PayInv'
    BY <1>4, ReturnKeeps
  <1>5. ASSUME NEW k \in Key, ExpireKey(k)
        PROVE  PayInv'
    BY <1>5, ExpireKeyKeeps
  <1>6. CASE Crash
    BY <1>6, CrashKeeps
  <1>7. CASE UNCHANGED paymentVars
    BY <1>7, PaymentStutterKeeps
  <1> QED
    BY <1>1, <1>2, <1>3, <1>4, <1>5, <1>6, <1>7 DEF PaymentNext

(* The inductive invariant of the payment operations.                      *)
THEOREM PaymentInvariant == PaymentSpec => []PayInv
  <1>1. PaymentInit => PayInv
    BY PayInvInitially
  <1>2. PayInv /\ [PaymentNext]_paymentVars => PayInv'
    BY PayInvInductive
  <1> QED
    BY <1>1, <1>2, PTL DEF PaymentSpec

(* Every variable of the payment operations keeps its type.                *)
THEOREM PaymentTypeCorrect == PaymentSpec => []PaymentTypeOK
  BY PaymentInvariant, PTL DEF PayInv

(* What the inductive invariant says to the clients of the operations.     *)
LEMMA PayInvSays ==
    ASSUME PayInv
    PROVE  EventsFollowRows /\ AcknowledgedIsDurable /\ KeyNamesItsOrder /\ JobsAreLogged
  <1>1. ASSUME NEW o \in Order
        PROVE  /\ HasEvent(o, "PAYMENT_CREATED") => Exists(o)
               /\ HasEvent(o, "PAYMENT_COMPLETED") => payments[o].paid /\ Settled(o)
               /\ HasEvent(o, "PAYMENT_FAILED") => Settled(o)
               /\ HasEvent(o, "PAYMENT_REFUNDED") => payments[o].refunded /\ Settled(o)
               /\ payments[o].status = "COMPLETED" => payments[o].paid
               /\ payments[o].status = "REFUNDED" => payments[o].refunded
               /\ payments[o].refunded => payments[o].paid
    <2>1. ASSUME NEW op \in Operation, HasEvent(o, EventOf(op))
          PROVE  RowShows(o, op)
      BY <2>1 DEF PayInv, EventsShow, HasEvent
    <2>2. /\ EventOf("create") = "PAYMENT_CREATED"
          /\ EventOf("complete") = "PAYMENT_COMPLETED"
          /\ EventOf("fail") = "PAYMENT_FAILED"
          /\ EventOf("refund") = "PAYMENT_REFUNDED"
          /\ {"create", "complete", "fail", "refund"} \subseteq Operation
      BY DEF EventOf, Operation
    <2>3. Exists(o) /\ payments[o].status # "PENDING" => Settled(o)
      BY DEF PayInv, PaymentTypeOK, Exists, Settled, Row, Status
    <2> QED
      BY <2>1, <2>2, <2>3 DEF RowShows, PayInv, RowsAreEarned
  <1>2. EventsFollowRows
    BY <1>1 DEF EventsFollowRows
  <1>3. AcknowledgedIsDurable
    BY DEF PayInv, AcknowledgedIsDurable, CallInv, CallIsLogged, CallFollowsRow, RowShows
  <1> QED
    BY <1>2, <1>3 DEF PayInv

(* Whatever overlaps, fails or crashes: what an event leaves for good is   *)
(* in its row (a creation the row, a completion paidAt, a refund           *)
(* refundedAt, each but a creation that the payment is not PENDING), and   *)
(* the row says no more than happened: COMPLETED is paid, REFUNDED is      *)
(* refunded, and only what was paid is refunded (PaymentHandler.ts:82,     *)
(* :104, :118).  That the status stays what the event said is not promised. *)
THEOREM HistoryFollowsRows == PaymentSpec => []EventsFollowRows
  BY PayInvSays, PaymentInvariant, PTL

(* What a client is told has happened is stored (PaymentHandler.ts:71).    *)
THEOREM AcknowledgementsDurable == PaymentSpec => []AcknowledgedIsDurable
  BY PayInvSays, PaymentInvariant, PTL

(* A key names a payment of its user and product (PaymentHandler.ts:29).   *)
THEOREM KeysNamePayments == PaymentSpec => []KeyNamesItsOrder
  BY PaymentInvariant, PTL DEF PayInv

(* A job stands for a payment with a history (PaymentHandler.ts:51, :59).  *)
THEOREM JobsHaveHistories == PaymentSpec => []JobsAreLogged
  BY PaymentInvariant, PTL DEF PayInv

(* The histories stay append-only under the payment operations.            *)
THEOREM PaymentsImplementLog == PaymentSpec => ImplementsEventLog
  <1>1. PaymentInit => Log!Init
    BY LogInitially DEF PaymentInit
  <1>2. PayInv /\ PayInv' /\ [PaymentNext]_paymentVars
            => [Log!Next]_([a \in Aggregate |-> History(a)])
    <2> SUFFICES ASSUME PayInv, PayInv', [PaymentNext]_paymentVars
                 PROVE  [Log!Next]_([a \in Aggregate |-> History(a)])
      OBVIOUS
    <2>1. ASSUME NEW c \in Caller, CallStep(c) \/ CallFault(c)
          PROVE  eventStore' = eventStore \/ AppendEvent(c) \/ AppendReplyLost(c)
      BY <2>1, StoreAppends
         DEF CallStep, CallFault, busVars, handlerVars, CheckKey, Insert, SetKey, Publish, Find,
             UpdateStatus, PublishStep, DispatchToProjector, PublishReturns, Resume, Enqueue,
             StatementFails, InsertReplyLost, UpdateReplyLost, PublishFault, ProjectorFails
    <2>2. eventStore' = eventStore \/ \E c \in Caller : AppendEvent(c) \/ AppendReplyLost(c)
      BY <2>1 DEF PaymentNext, paymentVars, busVars, Begin, Return, ExpireKey, Crash, BusCrash
    <2> QED
      BY <2>2, AppendsRecord DEF PayInv
  <1> QED
    BY <1>1, <1>2, PaymentInvariant, PTL DEF PaymentSpec, ImplementsEventLog, Log!Spec

LEMMA PendingNotEnteredAgain ==
    ASSUME PayInv, [PaymentNext]_paymentVars, NEW o \in Order,
           Exists(o), payments[o].status # "PENDING"
    PROVE  payments'[o].status # "PENDING"
  <1>1. CASE payments' = payments
    BY <1>1
  <1>2. CASE payments' # payments
    <2>1. PICK c \in Caller : \/ Insert(c) \/ InsertReplyLost(c)
                             \/ UpdateStatus(c) \/ UpdateReplyLost(c)
      BY <1>2
         DEF PaymentNext, CallStep, CallFault, paymentVars, handlerVars, Begin, Return, CheckKey,
             SetKey, Find, PublishStep, DispatchToProjector, PublishReturns, Enqueue,
             StatementFails, PublishFault, ProjectorFails, ExpireKey, Crash
    <2>2. call[c].order \in Order /\ call[c].op \in Operation
      BY <2>1, RunningCall DEF PayInv, Insert, InsertReplyLost, UpdateStatus, UpdateReplyLost
    <2>3. CASE Insert(c) \/ InsertReplyLost(c)
      <3>1. o # call[c].order
        BY <2>3 DEF PayInv, OrdersAreFresh, Inserting, Insert, InsertReplyLost
      <3> QED
        BY <2>3, <3>1 DEF PayInv, PaymentTypeOK, Insert, InsertReplyLost
    <2>4. CASE UpdateStatus(c) \/ UpdateReplyLost(c)
      <3>1. call[c].op # "create"
        BY <2>4 DEF PayInv, CallInv, PcOfOp, UpdateStatus, UpdateReplyLost
      <3>2. Updated(payments[o], call[c].op).status # "PENDING"
        BY <2>2, <3>1 DEF Updated, Target, Operation
      <3>3. payments' = [payments EXCEPT ![call[c].order] =
                             Updated(payments[call[c].order], call[c].op)]
        BY <2>4 DEF UpdateStatus, UpdateReplyLost
      <3> QED
        BY <2>2, <3>2, <3>3 DEF PayInv, PaymentTypeOK
    <2> QED
      BY <2>1, <2>3, <2>4
  <1> QED
    BY <1>1, <1>2

(* No step makes a payment payable a second time (PaymentHandler.ts:82).   *)
THEOREM PendingLeftForGood == PaymentSpec => PendingIsLeftForGood
  <1>1. PayInv /\ [PaymentNext]_paymentVars
            => [\A o \in Order : Exists(o) /\ payments[o].status # "PENDING"
                    => payments'[o].status # "PENDING"]_payments
    BY PendingNotEnteredAgain
  <1> QED
    BY <1>1, PaymentInvariant, PTL DEF PaymentSpec, PendingIsLeftForGood
=============================================================================
