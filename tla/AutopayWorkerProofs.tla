------------------------ MODULE AutopayWorkerProofs ------------------------
(***************************************************************************)
(* The invariants of the renewal of subscriptions together with the        *)
(* payment and the subscription operations, for any number of workers,     *)
(* clients, jobs, orders and subscriptions, with faults and crashes.       *)
(***************************************************************************)
EXTENDS AutopayWorker, PaymentCountingProofs, SubscriptionHandlerProofs

(* A worker has a payment call while it awaits one, under the key of the   *)
(* subscription it renews, and never a call of a client.                   *)
Paying(w) == run[w].pc \in {"create", "complete"}

WorkerCall(w) ==
    /\ subCall[w] = NoSubCall
    /\ ~Paying(w) => call[w] = NoCall
    /\ Paying(w) =>
          /\ call[w].pc # "idle"
          /\ call[w].op = run[w].pc
          /\ KeyOf[call[w].order] = RenewalKey[run[w].sub]

(* A renewal's events are published by a worker at that place.             *)
RenewalPub(c) ==
    pub[c].step # "idle" /\ pub[c].event.type \in {"SUBSCRIPTION_RENEWED", "SUBSCRIPTION_EXPIRED"}

PubOfRun(c) ==
    /\ RenewalPub(c) <=> c \in Worker /\ run[c].pc \in {"publishRenewed", "publishExpired"}
    /\ RenewalPub(c) =>
          /\ pub[c].event.aggregateId = run[c].sub
          /\ pub[c].event.type = IF run[c].pc = "publishRenewed"
                                 THEN "SUBSCRIPTION_RENEWED" ELSE "SUBSCRIPTION_EXPIRED"

(* A worker in processRenewal has its job to itself; a scan has rows.      *)
WorkerJob(w) ==
    /\ run[w].pc \in RunPc =>
          /\ SubExists(run[w].sub)
          /\ jobs[run[w].job].state = "active"
          /\ jobs[run[w].job].sub = run[w].sub
          /\ \A v \in Worker \ {w} : run[v].pc \in RunPc => run[v].job # run[w].job
    /\ run[w].pc = "scanAdd" =>
          Len(run[w].due) > 0 /\ \A i \in 1 .. Len(run[w].due) : SubExists(run[w].due[i])

JobStands(j) == jobs[j] # NoJob => SubExists(jobs[j].sub) /\ jobs[j].attemptsMade < Attempts

(* createSubscription has drawn finitely many ids.                         *)
Rows == {s \in Sub : SubExists(s)}

AutopayInv ==
    /\ PayInv
    /\ SubInv
    /\ AutopayTypeOK
    /\ \A w \in Worker : WorkerCall(w)
    /\ \A c \in Caller : PubOfRun(c)
    /\ \A w \in Worker : WorkerJob(w)
    /\ \A j \in JobId : JobStands(j)
    /\ IsFiniteSet(Rows)

-----------------------------------------------------------------------------
(* Extensions: what a renewal has read, and the payment it is for.         *)

(* The orders of payments that a worker still awaits.                      *)
Awaited == {call[w].order : w \in {v \in Worker : Paying(v)}}

(* The renewals of a subscription that are paid and not yet announced.     *)
Announcing(s) ==
    {w \in Worker :
        /\ run[w].pc \in {"renew", "publishRenewed"}
        /\ run[w].sub = s
        /\ run[w].pc = "publishRenewed" => pub[w].step \in {"getLatestVersion", "append"}}

End(s, n) == subscriptions[s].startDate + Period[s] * n

(* What a worker read leaves a period for the payment it awaits.           *)
ReadIsPaid(w) ==
    LET s == run[w].sub
    IN  /\ Paying(w) =>
              run[w].endDate <= End(s, 1 + Cardinality(PaidOrders(s) \ {call[w].order}))
        /\ run[w].pc = "renew" =>
              run[w].endDate + Period[s] <= End(s, 1 + Cardinality(PaidOrders(s)))

OrdersAreOwn ==
    \A w, v \in Worker : Paying(w) /\ Paying(v) /\ w # v => call[w].order # call[v].order

ExtensionInv ==
    /\ OrdersAreOwn
    /\ \A w \in Worker : ReadIsPaid(w)
    /\ \A s \in Sub :
          /\ IsFiniteSet(PaidOrders(s))
          /\ SubExists(s) => subscriptions[s].endDate <= End(s, 1 + Cardinality(PaidOrders(s)))
          /\ Cardinality(SubEventsOf(s, "SUBSCRIPTION_RENEWED")) + Cardinality(Announcing(s))
                <= Cardinality(PaidOrders(s) \ Awaited)

-----------------------------------------------------------------------------
(* What a step of one operation leaves of the others.                      *)

(* Publishes of renewals neither begin nor end, nor change their event.    *)
RenewalPubsStay ==
    \A d \in Caller :
        \/ pub'[d] = pub[d]
        \/ /\ pub[d].step # "idle" /\ pub'[d].step # "idle"
           /\ pub'[d].event.aggregateId = pub[d].event.aggregateId
           /\ pub'[d].event.type = pub[d].event.type
        \/ ~RenewalPub(d) /\ ~RenewalPub(d)'

(* The workers' calls go on with the operation and the order they have.    *)
CallsGoOn ==
    \A d \in Worker :
        \/ call'[d] = call[d]
        \/ /\ call[d].pc # "idle" /\ call'[d].pc # "idle"
           /\ call'[d].op = call[d].op
           /\ call'[d].order = call[d].order

(* No subscription goes away, at most one comes.                           *)
RowsGrow ==
    /\ \A s \in Sub : SubExists(s) => SubExists(s)'
    /\ \E s : Rows' \subseteq Rows \cup {s}

LEMMA PublishingStays ==
    ASSUME BusInv, NEW c \in Caller, StoreStep(c) \/ StoreFault(c) \/ Dispatch(c)
    PROVE  RenewalPubsStay
  BY PublishMoves DEF RenewalPubsStay

(* A publish of something else begins, or ends.                            *)
LEMMA OtherPublishStays ==
    ASSUME NEW c \in Caller, \A d \in Caller \ {c} : pub'[d] = pub[d],
           ~RenewalPub(c), ~RenewalPub(c)'
    PROVE  RenewalPubsStay
  BY DEF RenewalPubsStay

(* What starting a publish does to the callers.                            *)
LEMMA PublishBegins ==
    ASSUME BusInv, NEW c \in Caller, NEW a, NEW t, Publish(c, a, t)
    PROVE  /\ pub[c].step = "idle"
           /\ pub'[c].step = "getLatestVersion"
           /\ pub'[c].event.aggregateId = a
           /\ pub'[c].event.type = t
           /\ \A d \in Caller \ {c} : pub'[d] = pub[d]
           /\ eventStore' = eventStore
  BY DEF Publish, NoPub, BusInv, BusTypeOK

LEMMA PublishEnds ==
    ASSUME BusInv, NEW c \in Caller, Resume(c)
    PROVE  /\ pub[c].step \in {"published", "error"}
           /\ pub'[c].step = "idle"
           /\ \A d \in Caller \ {c} : pub'[d] = pub[d]
           /\ eventStore' = eventStore
  BY DEF Resume, NoPub, BusInv, BusTypeOK

(* A payment operation leaves the subscriptions and the renewals alone.    *)
LEMMA PaymentStepsStayApart ==
    ASSUME PayInv, SubInv, NEW c \in Caller, CallStep(c) \/ CallFault(c),
           UNCHANGED subscriptionVars
    PROVE  PayInv' /\ SubInv' /\ RenewalPubsStay /\ CallsGoOn
  <1>1. PayInv'
    BY PayInvInductive DEF PaymentNext
  <1>2. BusInv /\ BusInv' /\ UNCHANGED <<subscriptions, subCall, now>>
    BY <1>1 DEF PayInv, subscriptionVars
  <1>3. SubInv' /\ RenewalPubsStay
    <2>1. CASE StoreStep(c) \/ StoreFault(c) \/ Dispatch(c)
      BY <1>2, <2>1, SubBusAdvances, PublishingStays
    <2>2. ASSUME \A d \in Caller \ {c} : pub'[d] = pub[d], eventStore' = eventStore,
                 pub[c].step # "idle" => PaymentPub(c),
                 pub'[c].step # "idle" => PaymentPub(c)'
          PROVE  SubInv' /\ RenewalPubsStay
      <3>1. ~SubPub(c) /\ ~SubPub(c)' /\ ~RenewalPub(c) /\ ~RenewalPub(c)'
        BY <2>2 DEF SubPub, RenewalPub, PaymentPub, PaymentEvent
      <3>2. SubTypeOK' /\ CancelledIsOff' /\ SubGrows
        BY <1>2, <2>2 DEF SubInv, SubTypeOK, CancelledIsOff, SubGrows, SubExists
      <3>3. \A s \in Sub : SubExists(s)' => SubExists(s)
        BY <1>2 DEF SubExists
      <3> QED
        BY <1>2, <2>2, <3>1, <3>2, <3>3, SubOtherPublishKeeps, OtherPublishStays
    <2>3. CASE SetKey(c) \/ UpdateStatus(c)
      <3>1. PICK t \in PaymentEvent : Publish(c, call[c].order, t)
        <4>1. call[c].op \in Operation
          BY <2>3, RunningCall DEF PayInv, SetKey, UpdateStatus
        <4> QED
          BY <2>3, <4>1, EventOfType DEF SetKey, UpdateStatus, PaymentEvent
      <3> QED
        BY <1>2, <2>2, <3>1, PublishBegins DEF PaymentPub
    <2>4. CASE PublishReturns(c)
      <3>1. PaymentPub(c) /\ Resume(c)
        BY <2>4 DEF PublishReturns, PayInv, CallInv, PubOfCall
      <3> QED
        BY <1>2, <2>2, <3>1, PublishEnds
    <2>5. CASE UNCHANGED busVars
      <3>1. SubInv'
        BY <1>2, <2>5, SubTimePasses DEF SubInv, SubTypeOK
      <3> QED
        BY <2>5, <3>1 DEF busVars, RenewalPubsStay
    <2>6. \/ StoreStep(c) \/ StoreFault(c) \/ Dispatch(c)
          \/ SetKey(c) \/ UpdateStatus(c) \/ PublishReturns(c)
          \/ UNCHANGED busVars
      BY DEF CallStep, CallFault, PublishStep, PublishFault, DispatchToProjector, ProjectorFails,
             CheckKey, Insert, Find, Enqueue, StatementFails, InsertReplyLost, UpdateReplyLost
    <2> QED
      BY <2>1, <2>3, <2>4, <2>5, <2>6
  <1>4. CallsGoOn
    <2>1. CASE call' = call
      BY <2>1 DEF CallsGoOn
    <2>2. CASE call' # call
      <3>1. PICK pc \in Pc : call[c].pc # "idle" /\ Continue(c, pc)
        BY <2>2
           DEF CallStep, CallFault, Pc, CheckKey, Insert, SetKey, Find, UpdateStatus,
               PublishReturns, Enqueue, StatementFails, InsertReplyLost, UpdateReplyLost,
               PublishStep, PublishFault, DispatchToProjector, ProjectorFails, handlerVars
      <3> QED
        BY <3>1, ContinueProperties, AutopayAssumption DEF PayInv, CallsGoOn, Pc
    <2> QED
      BY <2>1, <2>2
  <1> QED
    BY <1>1, <1>3, <1>4

(* A row that is written does not go away.                                 *)
LEMMA RowsChange ==
    ASSUME subscriptions \in [Sub -> SubRow \cup {NoSubscription}], NEW s \in Sub, NEW row \in SubRow,
           subscriptions' = [subscriptions EXCEPT ![s] = row]
    PROVE  RowsGrow /\ SubExists(s)'
  <1>1. row # NoSubscription
    BY DEF SubRow, SubStatus, NoSubscription
  <1>2. \A t \in Sub : SubExists(t)' <=> SubExists(t) \/ t = s
    BY <1>1 DEF SubExists
  <1> QED
    BY <1>2 DEF RowsGrow, Rows

LEMMA RowsStay ==
    ASSUME subscriptions' = subscriptions
    PROVE  RowsGrow /\ Rows' = Rows
  BY DEF RowsGrow, Rows, SubExists

LEMMA RowTypes ==
    ASSUME SubTypeOK, NEW s \in Sub
    PROVE  /\ SubExists(s) => subscriptions[s] \in SubRow
           /\ IsActive(s) => SubExists(s)
  BY DEF SubTypeOK, SubExists, IsActive, NoSubscription

LEMMA WrittenRows ==
    ASSUME SubTypeOK, NEW s \in Sub
    PROVE  /\ \A start \in Nat : NewSubscription(s, start) \in SubRow
           /\ SubExists(s) => Cancelled(subscriptions[s]) \in SubRow
           /\ SubExists(s) => [subscriptions[s] EXCEPT !.status = "EXPIRED"] \in SubRow
           /\ SubExists(s) => \A read \in Nat : Renewed(subscriptions[s], s, read) \in SubRow
  <1>1. Period[s] \in Nat
    BY SubscriptionAssumption
  <1>2. \A start \in Nat : NewSubscription(s, start) \in SubRow
    BY <1>1 DEF SubRow, SubStatus, NewSubscription
  <1>3. ASSUME SubExists(s), NEW read \in Nat
        PROVE  /\ Cancelled(subscriptions[s]) \in SubRow
               /\ [subscriptions[s] EXCEPT !.status = "EXPIRED"] \in SubRow
               /\ Renewed(subscriptions[s], s, read) \in SubRow
    <2> DEFINE row == subscriptions[s]
    <2>1. row \in SubRow
      BY <1>3, RowTypes
    <2> HIDE DEF row
    <2>2. Cancelled(row) \in SubRow
      BY <2>1 DEF SubRow, SubStatus, Cancelled
    <2>3. [row EXCEPT !.status = "EXPIRED"] \in SubRow
      BY <2>1 DEF SubRow, SubStatus
    <2>4. Renewed(row, s, read) \in SubRow
      <3> DEFINE end == read + Period[s]
      <3>1. end \in Nat
        BY <1>1
      <3> HIDE DEF end
      <3>2. [row EXCEPT !.endDate = end, !.status = "ACTIVE"] \in SubRow
        BY <2>1, <3>1 DEF SubRow, SubStatus
      <3> QED
        BY <3>2 DEF Renewed, end
    <2> QED
      BY <2>2, <2>3, <2>4 DEF row
  <1> QED
    BY <1>2, <1>3

(* A subscription operation leaves the payments and the renewals alone.    *)
LEMMA SubscriptionStepsStayApart ==
    ASSUME PayInv, SubInv, NEW c \in Caller, SubCallStep(c) \/ SubCallFault(c),
           UNCHANGED handlerVars
    PROVE  /\ PayInv' /\ SubInv' /\ RenewalPubsStay /\ RowsGrow
           /\ subCall[c].pc # "idle"
           /\ \A d \in Caller \ {c} : subCall'[d] = subCall[d]
  <1>1. SubInv'
    BY SubInvInductive DEF SubNext
  <1>2. BusInv /\ BusInv' /\ UNCHANGED <<payments, idempotency, call, summary, processing>>
    BY <1>1 DEF SubInv, handlerVars
  <1>3. subCall[c].pc # "idle" /\ \A d \in Caller \ {c} : subCall'[d] = subCall[d]
    BY OnlyOneSubCallMoves
       DEF OtherSubCallsStay, SubCallStep, SubCallFault, FindActive, InsertSubscription,
           FindSubscription, CancelSubscription, SubPublishStep, SubPublishReturns,
           SubStatementFails, InsertSubscriptionReplyLost, CancelReplyLost, SubPublishFault
  <1>4. RowsGrow
    <2>1. subscriptions \in [Sub -> SubRow \cup {NoSubscription}] /\ SubTypeOK
      BY DEF SubInv, SubTypeOK
    <2>2. CASE subscriptions' = subscriptions
      BY <2>2, RowsStay
    <2>3. ASSUME NEW d \in Caller, subCall[d].pc = "insert", subCall[d].sub \in Sub,
                 subscriptions' = [subscriptions EXCEPT ![subCall[d].sub] =
                                      NewSubscription(subCall[d].sub, subCall[d].startDate)]
          PROVE  RowsGrow
      <3>1. subCall[d].startDate \in Nat
        BY <2>1, <2>3, RunningSubCall DEF SubCall
      <3> QED
        BY <2>1, <2>3, <3>1, WrittenRows, RowsChange
    <2>4. ASSUME NEW d \in Caller, subCall[d].sub \in Sub, SubExists(subCall[d].sub),
                 subscriptions' = [subscriptions EXCEPT ![subCall[d].sub] =
                                      Cancelled(subscriptions[subCall[d].sub])]
          PROVE  RowsGrow
      BY <2>1, <2>4, WrittenRows, RowsChange
    <2>5. [SubNext]_subVars
      BY DEF SubNext
    <2> QED
      BY <2>2, <2>3, <2>4, <2>5, SubRowsMove
  <1>5. PayInv' /\ RenewalPubsStay
    <2>1. CASE StoreStep(c) \/ StoreFault(c) \/ Dispatch(c)
      BY <1>2, <2>1, BusAdvances, PublishingStays DEF PayInv, PaymentTypeOK
    <2>2. ASSUME \A d \in Caller \ {c} : pub'[d] = pub[d], eventStore' = eventStore,
                 pub[c].step # "idle" => SubPub(c),
                 pub'[c].step # "idle" => SubPub(c)'
          PROVE  PayInv' /\ RenewalPubsStay
      <3>1. ~PaymentPub(c) /\ ~PaymentPub(c)' /\ ~RenewalPub(c) /\ ~RenewalPub(c)'
        BY <2>2 DEF SubPub, RenewalPub, PaymentPub, PaymentEvent
      <3> QED
        BY <1>2, <2>2, <3>1, OtherPublishKeeps, OtherPublishStays DEF handlerVars
    <2>3. CASE InsertSubscription(c) \/ CancelSubscription(c)
      <3>1. PICK t \in {"SUBSCRIPTION_CREATED", "SUBSCRIPTION_CANCELLED"} :
               Publish(c, subCall[c].sub, t)
        BY <2>3 DEF InsertSubscription, CancelSubscription, SubEvent
      <3> QED
        BY <1>2, <2>2, <3>1, PublishBegins DEF SubPub
    <2>4. CASE SubPublishReturns(c)
      <3>1. SubPub(c) /\ Resume(c)
        BY <2>4 DEF SubPublishReturns, SubInv, SubCallInv, PubOfSubCall
      <3> QED
        BY <1>2, <2>2, <3>1, PublishEnds
    <2>5. CASE UNCHANGED busVars
      <3>1. PayInv'
        BY <1>2, <2>5, PaymentStutterKeeps DEF paymentVars, busVars
      <3> QED
        BY <2>5, <3>1 DEF busVars, RenewalPubsStay
    <2>6. \/ StoreStep(c) \/ StoreFault(c) \/ Dispatch(c)
          \/ InsertSubscription(c) \/ CancelSubscription(c) \/ SubPublishReturns(c)
          \/ UNCHANGED busVars
      BY DEF SubCallStep, SubCallFault, SubPublishStep, SubPublishFault, FindActive,
             FindSubscription, SubStatementFails, InsertSubscriptionReplyLost, CancelReplyLost
    <2> QED
      BY <2>1, <2>3, <2>4, <2>5, <2>6
  <1> QED
    BY <1>1, <1>3, <1>4, <1>5

-----------------------------------------------------------------------------
(* What a worker is at, and what becomes of its job.                       *)

LEMMA RunningJob ==
    ASSUME AutopayTypeOK, NEW w \in Worker, run[w].pc \in RunPc
    PROVE  /\ run[w] \in [pc : RunPc, job : JobId, sub : Sub, endDate : Nat]
           /\ run[w].job \in JobId /\ run[w].sub \in Sub /\ run[w].endDate \in Nat
  BY DEF AutopayTypeOK, RunState, RunPc, NoRun

LEMMA QueuedJob ==
    ASSUME AutopayTypeOK, NEW j \in JobId, jobs[j] # NoJob
    PROVE  /\ jobs[j] \in JobState
           /\ jobs[j].state \in {"waiting", "active"}
           /\ jobs[j].sub \in Sub /\ jobs[j].attemptsMade \in Nat /\ jobs[j].stalls \in Nat
  BY DEF AutopayTypeOK, JobState

(* The other workers stay where they are.                                  *)
OthersRun(w) == \A v \in Worker \ {w} : run'[v] = run[v]

LEMMA AtProperties ==
    ASSUME AutopayTypeOK, NEW w \in Worker, NEW pc \in RunPc, run[w].pc \in RunPc, At(w, pc)
    PROVE  /\ run' \in [Worker -> RunState]
           /\ run'[w].pc = pc
           /\ run'[w].job = run[w].job
           /\ run'[w].sub = run[w].sub
           /\ run'[w].endDate = run[w].endDate
           /\ OthersRun(w)
  <1> DEFINE old == run[w]
             new == [old EXCEPT !.pc = pc]
  <1>1. old \in [pc : RunPc, job : JobId, sub : Sub, endDate : Nat]
    BY RunningJob
  <1> HIDE DEF old
  <1>2. /\ new \in [pc : RunPc, job : JobId, sub : Sub, endDate : Nat]
        /\ new.pc = pc /\ new.job = old.job /\ new.sub = old.sub /\ new.endDate = old.endDate
    BY <1>1
  <1>3. run' = [run EXCEPT ![w] = new]
    BY DEF At, old
  <1> HIDE DEF new
  <1>4. new \in RunState
    BY <1>2 DEF RunState
  <1>5. run \in [Worker -> RunState]
    BY DEF AutopayTypeOK
  <1>6. run' \in [Worker -> RunState] /\ run'[w] = new /\ OthersRun(w)
    BY <1>3, <1>4, <1>5 DEF OthersRun
  <1> QED
    BY <1>2, <1>6 DEF old

LEMMA MovesTo ==
    ASSUME AutopayTypeOK, NEW w \in Worker, NEW new \in RunState, run' = [run EXCEPT ![w] = new]
    PROVE  run' \in [Worker -> RunState] /\ run'[w] = new /\ OthersRun(w)
  BY DEF AutopayTypeOK, OthersRun

LEMMA IdleProperties ==
    ASSUME AutopayTypeOK, NEW w \in Worker, Idle(w)
    PROVE  run' \in [Worker -> RunState] /\ run'[w] = NoRun /\ OthersRun(w)
  <1>1. NoRun \in RunState
    BY DEF RunState
  <1> QED
    BY <1>1, MovesTo DEF Idle

(* A worker that goes on with its job, or has none.                        *)
LEMMA JobKept ==
    ASSUME AutopayInv, NEW w \in Worker, OthersRun(w), RowsGrow, jobs' = jobs,
           run'[w].pc \in RunPc =>
               /\ run[w].pc \in RunPc
               /\ run'[w].job = run[w].job
               /\ run'[w].sub = run[w].sub,
           run'[w].pc = "scanAdd" =>
               /\ Len(run'[w].due) > 0
               /\ \A i \in 1 .. Len(run'[w].due) : run'[w].due[i] \in Sub /\ SubExists(run'[w].due[i])
    PROVE  (\A v \in Worker : WorkerJob(v)') /\ (\A j \in JobId : JobStands(j)')
  <1>1. \A v \in Worker : run[v].pc \in RunPc => run[v].sub \in Sub
    BY RunningJob DEF AutopayInv
  <1>2. \A j \in JobId : JobStands(j)'
    BY QueuedJob DEF AutopayInv, JobStands, RowsGrow
  <1>3. \A v \in Worker \ {w} : run[v].pc = "scanAdd" =>
            \A i \in 1 .. Len(run[v].due) : run[v].due[i] \in Sub
    BY ElementOfSeq DEF AutopayInv, AutopayTypeOK, RunState, RunPc, NoRun
  <1>4. ASSUME NEW v \in Worker
        PROVE  WorkerJob(v)'
    <2>1. \A u \in Worker : run'[u].pc \in RunPc => run[u].pc \in RunPc /\ run'[u].job = run[u].job
                                                    /\ run'[u].sub = run[u].sub
      BY DEF OthersRun
    <2>2. CASE v = w
      <3>1. run[v].pc \in RunPc => WorkerJob(v) /\ run[v].sub \in Sub
        BY <1>1 DEF AutopayInv
      <3>2. \A u \in Worker \ {v} : run'[u].pc \in RunPc /\ run[v].pc \in RunPc => run[u].job # run[v].job
        BY <2>1, <3>1 DEF WorkerJob
      <3>3. run'[v].pc \in RunPc =>
               /\ subscriptions'[run'[v].sub] # NoSubscription
               /\ jobs[run'[v].job].state = "active"
               /\ jobs[run'[v].job].sub = run'[v].sub
        BY <2>1, <3>1 DEF WorkerJob, RowsGrow, SubExists
      <3>4. run'[v].pc \in RunPc =>
               \A u \in Worker \ {v} : run'[u].pc \in RunPc => run'[u].job # run'[v].job
        BY <2>1, <3>2
      <3>5. run'[v].pc = "scanAdd" =>
               /\ Len(run'[v].due) > 0
               /\ \A i \in 1 .. Len(run'[v].due) : subscriptions'[run'[v].due[i]] # NoSubscription
        BY <2>2 DEF RowsGrow, SubExists
      <3> QED
        BY <3>3, <3>4, <3>5 DEF WorkerJob, SubExists
    <2>3. CASE v # w
      BY <1>1, <1>3, <2>1, <2>3 DEF AutopayInv, WorkerJob, RowsGrow, OthersRun
    <2> QED
      BY <2>2, <2>3
  <1> QED
    BY <1>2, <1>4

(* A worker that lets its job go: done, failed, or back in the queue.      *)
LEMMA JobLeft ==
    ASSUME AutopayInv, NEW w \in Worker, OthersRun(w), RowsGrow, run[w].pc \in RunPc,
           run'[w] = NoRun,
           NEW new, jobs' = [jobs EXCEPT ![run[w].job] = new],
           \/ new = NoJob
           \/ new \in JobState /\ SubExists(new.sub)' /\ new.attemptsMade < Attempts
    PROVE  /\ jobs' \in [JobId -> {NoJob} \cup JobState]
           /\ \A v \in Worker : WorkerJob(v)'
           /\ \A j \in JobId : JobStands(j)'
  <1>1. jobs \in [JobId -> {NoJob} \cup JobState] /\ run[w].job \in JobId
    BY RunningJob DEF AutopayInv, AutopayTypeOK
  <1>2. /\ jobs' \in [JobId -> {NoJob} \cup JobState]
        /\ jobs'[run[w].job] = new
        /\ \A j \in JobId \ {run[w].job} : jobs'[j] = jobs[j]
    BY <1>1
  <1>3. \A j \in JobId : JobStands(j)'
    BY <1>1, <1>2, QueuedJob DEF AutopayInv, JobStands, RowsGrow
  <1>4. ASSUME NEW v \in Worker
        PROVE  WorkerJob(v)'
    <2>1. CASE v = w
      BY <2>1 DEF WorkerJob, NoRun, RunPc
    <2>2. CASE v # w
      <3>1. run'[v] = run[v] /\ WorkerJob(v) /\ WorkerJob(w)
        BY <2>2 DEF OthersRun, AutopayInv
      <3>2. run[v].pc \in RunPc => /\ run[v].job # run[w].job
                                   /\ run[v].sub \in Sub /\ run[v].job \in JobId
        BY <2>2, <3>1, RunningJob DEF AutopayInv, WorkerJob
      <3>3. run[v].pc = "scanAdd" => \A i \in 1 .. Len(run[v].due) : run[v].due[i] \in Sub
        BY ElementOfSeq DEF AutopayInv, AutopayTypeOK, RunState, RunPc, NoRun
      <3>4. \A u \in Worker : run'[u].pc \in RunPc => u # w /\ run'[u] = run[u]
        BY DEF OthersRun, NoRun, RunPc
      <3>5. run[v].pc \in RunPc => jobs'[run[v].job] = jobs[run[v].job]
        BY <1>2, <3>2
      <3> QED
        BY <3>1, <3>2, <3>3, <3>4, <3>5 DEF WorkerJob, RowsGrow
    <2> QED
      BY <2>1, <2>2
  <1> QED
    BY <1>2, <1>3, <1>4

LEMMA RowsStayFinite ==
    ASSUME IsFiniteSet(Rows), RowsGrow
    PROVE  IsFiniteSet(Rows')
  <1>1. PICK s : Rows' \subseteq Rows \cup {s}
    BY DEF RowsGrow
  <1> QED
    BY <1>1, CountsMore

(* A worker's call and its publish, while others step.                     *)
LEMMA WorkerCallKept ==
    ASSUME AutopayInv, CallsGoOn, NEW w \in Worker, run'[w] = run[w], subCall'[w] = subCall[w]
    PROVE  WorkerCall(w)'
  <1>1. WorkerCall(w)
    BY DEF AutopayInv
  <1>2. \/ call'[w] = call[w]
        \/ /\ call[w].pc # "idle" /\ call'[w].pc # "idle"
           /\ call'[w].op = call[w].op
           /\ call'[w].order = call[w].order
    BY DEF CallsGoOn
  <1>3. call[w] = NoCall => call[w].pc = "idle"
    BY DEF NoCall
  <1>4. Paying(w)' <=> Paying(w)
    BY DEF Paying
  <1> QED
    BY <1>1, <1>2, <1>3, <1>4 DEF WorkerCall

LEMMA PubOfRunKept ==
    ASSUME AutopayInv, RenewalPubsStay, NEW c \in Caller, c \in Worker => run'[c] = run[c]
    PROVE  PubOfRun(c)'
  <1>1. PubOfRun(c)
    BY DEF AutopayInv
  <1>2. \/ pub'[c] = pub[c]
        \/ /\ pub[c].step # "idle" /\ pub'[c].step # "idle"
           /\ pub'[c].event.aggregateId = pub[c].event.aggregateId
           /\ pub'[c].event.type = pub[c].event.type
        \/ ~RenewalPub(c) /\ ~RenewalPub(c)'
    BY DEF RenewalPubsStay
  <1>3. RenewalPub(c)' <=> RenewalPub(c)
    BY <1>2 DEF RenewalPub
  <1>4. RenewalPub(c)' => /\ pub'[c].event.aggregateId = pub[c].event.aggregateId
                          /\ pub'[c].event.type = pub[c].event.type
    BY <1>2, <1>3
  <1> QED
    BY <1>1, <1>3, <1>4 DEF PubOfRun

(* Steps of the payment and the subscription operations.                   *)
LEMMA WorkersStay ==
    ASSUME AutopayInv, PayInv', SubInv', UNCHANGED workerVars,
           failures' \in 0 .. MaxFailures, crashes' \in 0 .. MaxCrashes,
           RenewalPubsStay, CallsGoOn, RowsGrow, \A w \in Worker : subCall'[w] = subCall[w]
    PROVE  AutopayInv'
  <1>1. jobs' = jobs /\ run' = run /\ dlq' = dlq /\ failed' = failed
    BY DEF workerVars
  <1>2. AutopayTypeOK'
    BY <1>1 DEF AutopayInv, AutopayTypeOK
  <1>3. \A w \in Worker : WorkerCall(w)'
    BY <1>1, WorkerCallKept
  <1>4. \A c \in Caller : PubOfRun(c)'
    BY <1>1, PubOfRunKept
  <1>5. (\A w \in Worker : WorkerJob(w)') /\ (\A j \in JobId : JobStands(j)')
    <2>1. ASSUME NEW w \in Worker
          PROVE  /\ OthersRun(w)
                 /\ run[w].pc = "scanAdd" =>
                      /\ Len(run[w].due) > 0
                      /\ \A i \in 1 .. Len(run[w].due) : run[w].due[i] \in Sub /\ SubExists(run[w].due[i])
      BY <1>1, ElementOfSeq DEF OthersRun, AutopayInv, WorkerJob, AutopayTypeOK, RunState, RunPc, NoRun
    <2>2. \A w \in Worker : WorkerJob(w)'
      BY <1>1, <2>1, JobKept
    <2>3. \A j \in JobId : JobStands(j)'
      BY <1>1, QueuedJob DEF AutopayInv, JobStands, RowsGrow
    <2> QED
      BY <2>2, <2>3
  <1>6. IsFiniteSet(Rows')
    BY RowsStayFinite DEF AutopayInv
  <1> QED
    BY <1>2, <1>3, <1>4, <1>5, <1>6 DEF AutopayInv

(* Steps of a worker: what is left to show of one.                         *)
LEMMA WorkerSteps ==
    ASSUME AutopayInv, PayInv', SubInv', NEW w \in Worker, run' \in [Worker -> RunState], OthersRun(w),
           \A c \in Caller \ {w} : call'[c] = call[c] /\ pub'[c] = pub[c],
           subCall' = subCall, RowsGrow,
           jobs' \in [JobId -> {NoJob} \cup JobState],
           dlq' \subseteq Sub, failed' \subseteq Sub,
           failures' \in 0 .. MaxFailures, crashes' \in 0 .. MaxCrashes,
           WorkerCall(w)', PubOfRun(w)',
           \A v \in Worker : WorkerJob(v)', \A j \in JobId : JobStands(j)'
    PROVE  AutopayInv'
  <1>1. AutopayTypeOK'
    BY DEF AutopayTypeOK
  <1>2. ASSUME NEW v \in Worker \ {w}
        PROVE  WorkerCall(v)'
    <2>1. call'[v] = call[v] /\ run'[v] = run[v] /\ WorkerCall(v)
      BY AutopayAssumption DEF OthersRun, AutopayInv
    <2> QED
      BY <2>1 DEF WorkerCall, Paying
  <1>3. ASSUME NEW c \in Caller \ {w}
        PROVE  PubOfRun(c)'
    <2>1. pub'[c] = pub[c] /\ (c \in Worker => run'[c] = run[c]) /\ PubOfRun(c)
      BY DEF OthersRun, AutopayInv
    <2> QED
      BY <2>1 DEF PubOfRun, RenewalPub
  <1>4. IsFiniteSet(Rows')
    BY RowsStayFinite DEF AutopayInv
  <1> QED
    BY <1>1, <1>2, <1>3, <1>4 DEF AutopayInv

-----------------------------------------------------------------------------
(* The steps of the queue and of a worker that leave the operations alone. *)

NotAwaiting(w) ==
    run[w].pc \notin {"create", "complete", "publishRenewed", "publishExpired"}

LEMMA QuietWorker ==
    ASSUME AutopayInv, UNCHANGED <<busVars, handlerVars, subscriptionVars>>,
           NEW w \in Worker, run' \in [Worker -> RunState], OthersRun(w),
           NotAwaiting(w), NotAwaiting(w)',
           jobs' \in [JobId -> {NoJob} \cup JobState],
           dlq' \subseteq Sub, failed' \subseteq Sub,
           failures' \in 0 .. MaxFailures, crashes' \in 0 .. MaxCrashes,
           \A v \in Worker : WorkerJob(v)', \A j \in JobId : JobStands(j)'
    PROVE  AutopayInv'
  <1>1. /\ eventStore' = eventStore /\ pub' = pub
        /\ payments' = payments /\ idempotency' = idempotency /\ call' = call
        /\ summary' = summary /\ processing' = processing
        /\ subscriptions' = subscriptions /\ subCall' = subCall /\ now' = now
    BY DEF busVars, handlerVars, subscriptionVars
  <1>2. PayInv'
    BY <1>1, PaymentStutterKeeps DEF paymentVars, AutopayInv
  <1>3. SubInv'
    BY <1>1, SubTimePasses DEF busVars, AutopayInv, SubInv, SubTypeOK
  <1>4. WorkerCall(w)'
    BY <1>1 DEF AutopayInv, WorkerCall, Paying, NotAwaiting
  <1>5. PubOfRun(w)'
    BY <1>1, AutopayAssumption DEF AutopayInv, PubOfRun, RenewalPub, NotAwaiting
  <1> QED
    BY <1>1, <1>2, <1>3, <1>4, <1>5, RowsStay, WorkerSteps

LEMMA ScanKeeps ==
    ASSUME AutopayInv, UNCHANGED <<busVars, handlerVars, subscriptionVars>>,
           failures' \in 0 .. MaxFailures, crashes' = crashes,
           NEW w \in Worker, TakeScan(w) \/ ScanFind(w) \/ ScanFails(w)
    PROVE  AutopayInv'
  <1>1. /\ jobs' = jobs /\ dlq' = dlq /\ failed' = failed
        /\ AutopayTypeOK /\ subscriptions' = subscriptions
    BY DEF TakeScan, ScanFind, ScanFails, AutopayInv, subscriptionVars
  <1>2. NotAwaiting(w)
    BY DEF NotAwaiting, TakeScan, ScanFind, ScanFails, NoRun
  <1>3. ASSUME NEW new \in RunState, run' = [run EXCEPT ![w] = new],
               \/ new.pc \in {"idle", "scanFind"}
               \/ /\ new.pc = "scanAdd" /\ Len(new.due) > 0
                  /\ \A i \in 1 .. Len(new.due) : new.due[i] \in Sub /\ SubExists(new.due[i])
        PROVE  AutopayInv'
    <2>1. run' \in [Worker -> RunState] /\ run'[w] = new /\ OthersRun(w)
      BY <1>1, <1>3, MovesTo
    <2>2. NotAwaiting(w)'
      BY <1>3, <2>1 DEF NotAwaiting
    <2>3. (\A v \in Worker : WorkerJob(v)') /\ (\A j \in JobId : JobStands(j)')
      BY <1>1, <1>3, <2>1, RowsStay, JobKept DEF RunPc
    <2> QED
      BY <1>1, <1>2, <2>1, <2>2, <2>3, QuietWorker DEF AutopayTypeOK
  <1>4. NoRun \in RunState /\ NoRun.pc = "idle"
    BY DEF RunState, NoRun
  <1>5. CASE TakeScan(w)
    <2>1. [pc |-> "scanFind"] \in RunState
      BY DEF RunState
    <2> QED
      BY <1>3, <1>5, <2>1 DEF TakeScan
  <1>6. CASE ScanFails(w)
    BY <1>3, <1>4, <1>6 DEF ScanFails, Idle
  <1>7. CASE ScanFind(w)
    <2>1. PICK q \in Batches :
             run' = [run EXCEPT ![w] = IF q = << >> THEN NoRun ELSE [pc |-> "scanAdd", due |-> q]]
      BY <1>7 DEF ScanFind
    <2>2. CASE q = << >>
      BY <1>3, <1>4, <2>1, <2>2
    <2>3. CASE q # << >>
      <3>1. Due \subseteq Rows /\ Due \subseteq Sub
        BY DEF Due, Rows, IsActive, SubExists, NoSubscription
      <3>2. Cardinality(Due) \in Nat
        BY <3>1, Counts DEF AutopayInv
      <3>3. PICK n \in Nat : q \in [1 .. n -> Due]
        BY <2>1, <3>2, AutopayAssumption DEF Batches
      <3>4. q \in Seq(Sub) /\ Len(q) = n
        BY <3>1, <3>3, SeqDef
      <3>5. n > 0
        BY <2>3, <3>4, EmptySeq
      <3> DEFINE new == [pc |-> "scanAdd", due |-> q]
      <3>6. new \in RunState /\ new.pc = "scanAdd" /\ new.due = q
        BY <3>4 DEF RunState
      <3>7. \A i \in 1 .. Len(q) : q[i] \in Sub /\ SubExists(q[i])
        BY <3>1, <3>3, <3>4 DEF Rows
      <3> QED
        BY <1>3, <2>1, <2>3, <3>4, <3>5, <3>6, <3>7
    <2> QED
      BY <2>2, <2>3
  <1> QED
    BY <1>5, <1>6, <1>7

LEMMA ScanAddKeeps ==
    ASSUME AutopayInv, UNCHANGED <<busVars, handlerVars, subscriptionVars>>,
           failures' = failures, crashes' = crashes, NEW w \in Worker, ScanAdd(w)
    PROVE  AutopayInv'
  <1> DEFINE q == run[w].due
             new == [state |-> "waiting", sub |-> Head(q), attemptsMade |-> 0, stalls |-> 0]
             next == IF Len(q) = 1 THEN NoRun ELSE [pc |-> "scanAdd", due |-> Tail(q)]
  <1>1. /\ run[w].pc = "scanAdd" /\ run' = [run EXCEPT ![w] = next]
        /\ dlq' = dlq /\ failed' = failed /\ subscriptions' = subscriptions
        /\ AutopayTypeOK
    BY DEF ScanAdd, AutopayInv, subscriptionVars
  <1>2. PICK j \in JobId : jobs[j] = NoJob /\ jobs' = [jobs EXCEPT ![j] = new]
    BY DEF ScanAdd, FreeJobs
  <1>3. q \in Seq(Sub)
    BY <1>1 DEF AutopayTypeOK, RunState, RunPc, NoRun
  <1>4. Len(q) > 0 /\ \A i \in 1 .. Len(q) : SubExists(q[i])
    BY <1>1 DEF AutopayInv, WorkerJob
  <1>5. Head(q) \in Sub /\ SubExists(Head(q))
    BY <1>3, <1>4, EmptySeq, HeadTailProperties
  <1>6. /\ Tail(q) \in Seq(Sub) /\ Len(Tail(q)) = Len(q) - 1
        /\ \A i \in 1 .. Len(Tail(q)) : Tail(q)[i] = q[i + 1]
    BY <1>3, <1>4, EmptySeq, HeadTailProperties
  <1>7. new \in JobState /\ new.state = "waiting" /\ new.sub = Head(q) /\ new.attemptsMade = 0
    BY <1>5 DEF JobState
  <1> HIDE DEF new
  <1>8. /\ jobs' \in [JobId -> {NoJob} \cup JobState]
        /\ jobs'[j] = new
        /\ \A i \in JobId \ {j} : jobs'[i] = jobs[i]
    BY <1>1, <1>2, <1>7 DEF AutopayTypeOK
  <1>9. next \in RunState /\ next.pc \in {"idle", "scanAdd"}
    BY <1>6 DEF RunState, NoRun
  <1>10. next.pc = "scanAdd" => /\ Len(next.due) > 0
                                /\ \A i \in 1 .. Len(next.due) : SubExists(next.due[i])
    <2>1. ASSUME next.pc = "scanAdd"
          PROVE  next.due = Tail(q) /\ Len(q) # 1
      BY <2>1 DEF NoRun
    <2>2. Len(q) \in Nat
      BY <1>3
    <2>3. \A i \in 1 .. Len(Tail(q)) : SubExists(Tail(q)[i])
      <3> SUFFICES ASSUME NEW i \in 1 .. Len(Tail(q))
                   PROVE  SubExists(Tail(q)[i])
        OBVIOUS
      <3>1. i + 1 \in 1 .. Len(q)
        BY <1>6, <2>2
      <3> QED
        BY <1>4, <1>6, <3>1
    <2>4. Len(q) # 1 => Len(Tail(q)) > 0
      <3> DEFINE n == Len(q)
                 m == Len(Tail(q))
      <3>1. n \in Nat /\ n > 0 /\ m = n - 1
        BY <1>4, <1>6, <2>2
      <3> HIDE DEF n, m
      <3>2. n # 1 => m > 0
        BY <3>1
      <3> QED
        BY <3>2 DEF n, m
    <2> HIDE DEF next, q
    <2> QED
      BY <2>1, <2>3, <2>4
  <1> HIDE DEF next, q
  <1>11. run' \in [Worker -> RunState] /\ run'[w] = next /\ OthersRun(w)
    BY <1>1, <1>9, MovesTo
  <1>12. ASSUME NEW v \in Worker
         PROVE  WorkerJob(v)'
    <2>1. CASE v = w
      BY <1>1, <1>9, <1>10, <1>11, <2>1 DEF WorkerJob, SubExists, RunPc
    <2>2. CASE v # w
      <3>1. run'[v] = run[v] /\ WorkerJob(v)
        BY <1>11, <2>2 DEF OthersRun, AutopayInv
      <3>2. run[v].pc \in RunPc => run[v].job # j /\ run[v].job \in JobId
        BY <1>1, <1>2, <3>1, RunningJob DEF WorkerJob, NoJob
      <3>3. \A u \in Worker : run'[u].pc \in RunPc => run'[u] = run[u]
        BY <1>9, <1>11 DEF OthersRun, RunPc
      <3> QED
        BY <1>1, <1>8, <3>1, <3>2, <3>3 DEF WorkerJob, SubExists
    <2> QED
      BY <2>1, <2>2
  <1>13. \A i \in JobId : JobStands(i)'
    <2>1. 0 < Attempts
      BY AutopayAssumption
    <2> QED
      BY <1>1, <1>5, <1>7, <1>8, <2>1 DEF AutopayInv, JobStands, SubExists
  <1>14. NotAwaiting(w) /\ NotAwaiting(w)'
    BY <1>1, <1>9, <1>11 DEF NotAwaiting
  <1> QED
    BY <1>1, <1>8, <1>11, <1>12, <1>13, <1>14, QuietWorker DEF AutopayTypeOK

LEMMA TakeJobKeeps ==
    ASSUME AutopayInv, UNCHANGED <<busVars, handlerVars, subscriptionVars>>,
           failures' = failures, crashes' = crashes,
           NEW w \in Worker, NEW j \in JobId, TakeJob(w, j)
    PROVE  AutopayInv'
  <1> DEFINE old == jobs[j]
             new == [old EXCEPT !.state = "active"]
             next == [pc |-> "find", job |-> j, sub |-> old.sub, endDate |-> 0]
  <1>1. /\ run[w] = NoRun /\ old.state = "waiting"
        /\ jobs' = [jobs EXCEPT ![j] = new] /\ run' = [run EXCEPT ![w] = next]
        /\ dlq' = dlq /\ failed' = failed /\ subscriptions' = subscriptions
        /\ AutopayTypeOK
    BY DEF TakeJob, AutopayInv, subscriptionVars
  <1>2. old \in JobState /\ old.sub \in Sub /\ old # NoJob
    BY <1>1, QueuedJob DEF NoJob
  <1>3. SubExists(old.sub) /\ old.attemptsMade < Attempts
    BY <1>2 DEF AutopayInv, JobStands
  <1>4. next \in RunState /\ next.pc = "find" /\ next.job = j /\ next.sub = old.sub
    BY <1>2 DEF RunState, RunPc
  <1> HIDE DEF old
  <1>5. /\ new \in JobState /\ new.state = "active"
        /\ new.sub = old.sub /\ new.attemptsMade = old.attemptsMade
    BY <1>2 DEF JobState
  <1> HIDE DEF new, next
  <1>6. /\ jobs' \in [JobId -> {NoJob} \cup JobState]
        /\ jobs'[j] = new
        /\ \A i \in JobId \ {j} : jobs'[i] = jobs[i]
    BY <1>1, <1>5 DEF AutopayTypeOK
  <1>7. run' \in [Worker -> RunState] /\ run'[w] = next /\ OthersRun(w)
    BY <1>1, <1>4, MovesTo
  <1>8. \A v \in Worker : run[v].pc \in RunPc => run[v].job # j /\ run[v].job \in JobId
    BY <1>1, RunningJob DEF AutopayInv, WorkerJob, old
  <1>9. ASSUME NEW v \in Worker
        PROVE  WorkerJob(v)'
    <2>1. CASE v = w
      BY <1>1, <1>3, <1>4, <1>5, <1>6, <1>7, <1>8, <2>1 DEF WorkerJob, SubExists, OthersRun
    <2>2. CASE v # w
      <3>1. run'[v] = run[v] /\ WorkerJob(v) /\ \A u \in Worker \ {w} : run'[u] = run[u]
        BY <1>7, <2>2 DEF OthersRun, AutopayInv
      <3> QED
        BY <1>1, <1>4, <1>6, <1>7, <1>8, <3>1 DEF WorkerJob, SubExists
    <2> QED
      BY <2>1, <2>2
  <1>10. \A i \in JobId : JobStands(i)'
    BY <1>1, <1>3, <1>5, <1>6 DEF AutopayInv, JobStands, SubExists
  <1>11. NotAwaiting(w) /\ NotAwaiting(w)'
    BY <1>1, <1>4, <1>7 DEF NotAwaiting, NoRun
  <1> QED
    BY <1>1, <1>6, <1>7, <1>9, <1>10, <1>11, QuietWorker DEF AutopayTypeOK

LEMMA FailJobKeeps ==
    ASSUME AutopayInv, UNCHANGED <<busVars, handlerVars, subscriptionVars>>,
           failures' = failures, crashes' = crashes, NEW w \in Worker, FailJob(w)
    PROVE  AutopayInv'
  <1> DEFINE j == run[w].job
             old == jobs[j]
             new == [old EXCEPT !.state = "waiting", !.attemptsMade = old.attemptsMade + 1]
  <1>1. /\ run[w].pc = "throw" /\ Idle(w) /\ dlq' = dlq
        /\ subscriptions' = subscriptions /\ AutopayTypeOK
    BY DEF FailJob, AutopayInv, subscriptionVars
  <1>2. run[w].pc \in RunPc /\ j \in JobId /\ run[w].sub \in Sub /\ WorkerJob(w)
    BY <1>1, RunningJob DEF AutopayInv, RunPc
  <1>3. old \in JobState /\ old # NoJob /\ old.attemptsMade \in Nat /\ SubExists(old.sub)
    BY <1>2, QueuedJob DEF WorkerJob, NoJob, AutopayInv, JobStands
  <1>4. run' \in [Worker -> RunState] /\ run'[w] = NoRun /\ OthersRun(w)
    BY <1>1, IdleProperties
  <1>5. failed' \subseteq Sub
    BY <1>1, <1>2 DEF FailJob, AutopayTypeOK
  <1>6. PICK x : /\ jobs' = [jobs EXCEPT ![j] = x]
                 /\ \/ x = NoJob
                    \/ x = new /\ old.attemptsMade + 1 < Attempts
    BY DEF FailJob
  <1> HIDE DEF old
  <1>7. new \in JobState /\ new.sub = old.sub /\ new.attemptsMade = old.attemptsMade + 1
    <2> DEFINE n == old.attemptsMade + 1
    <2>1. n \in Nat
      BY <1>3
    <2> HIDE DEF n
    <2>2. new = [old EXCEPT !.state = "waiting", !.attemptsMade = n]
      BY DEF n
    <2>3. new \in JobState /\ new.sub = old.sub /\ new.attemptsMade = n
      BY <1>3, <2>1, <2>2 DEF JobState
    <2> QED
      BY <2>3 DEF n
  <1> HIDE DEF new
  <1>8. \/ x = NoJob
        \/ /\ x \in JobState /\ x.attemptsMade < Attempts
           /\ subscriptions'[x.sub] # NoSubscription
    BY <1>1, <1>3, <1>6, <1>7 DEF SubExists
  <1>9. /\ jobs' \in [JobId -> {NoJob} \cup JobState]
        /\ \A v \in Worker : WorkerJob(v)'
        /\ \A i \in JobId : JobStands(i)'
    BY <1>1, <1>2, <1>4, <1>6, <1>8, RowsStay, JobLeft DEF SubExists
  <1>10. NotAwaiting(w) /\ NotAwaiting(w)'
    BY <1>1, <1>4 DEF NotAwaiting, NoRun
  <1> QED
    BY <1>1, <1>4, <1>5, <1>9, <1>10, QuietWorker DEF AutopayTypeOK

LEMMA StallKeeps ==
    ASSUME AutopayInv, UNCHANGED <<busVars, handlerVars, subscriptionVars>>,
           failures' = failures, crashes' = crashes, NEW j \in JobId, Stall(j)
    PROVE  AutopayInv'
  <1> DEFINE old == jobs[j]
             new == [old EXCEPT !.state = "waiting", !.stalls = old.stalls + 1]
  <1>1. /\ old.state = "active" /\ run' = run /\ dlq' = dlq
        /\ AutopayTypeOK
    BY DEF Stall, AutopayInv
  <1>2. old \in JobState /\ old.sub \in Sub /\ old # NoJob /\ old.stalls \in Nat
    BY <1>1, QueuedJob DEF NoJob
  <1>3. SubExists(old.sub) /\ old.attemptsMade < Attempts
    BY <1>2 DEF AutopayInv, JobStands
  <1>4. failed' \subseteq Sub
    BY <1>1, <1>2 DEF Stall, AutopayTypeOK
  <1>5. PICK x : jobs' = [jobs EXCEPT ![j] = x] /\ x \in {NoJob, new}
    BY DEF Stall
  <1>6. \A w \in Worker : run[w].pc \in RunPc => run[w].job # j /\ run[w].job \in JobId
    BY <1>1, RunningJob DEF Stall
  <1> HIDE DEF old
  <1>7. new \in JobState /\ new.sub = old.sub /\ new.attemptsMade = old.attemptsMade
    <2> DEFINE n == old.stalls + 1
    <2>1. n \in Nat
      BY <1>2
    <2> HIDE DEF n
    <2>2. new = [old EXCEPT !.state = "waiting", !.stalls = n]
      BY DEF n
    <2> QED
      BY <1>2, <2>1, <2>2 DEF JobState
  <1> HIDE DEF new
  <1>8. /\ jobs' \in [JobId -> {NoJob} \cup JobState]
        /\ jobs'[j] = x
        /\ \A i \in JobId \ {j} : jobs'[i] = jobs[i]
    BY <1>1, <1>5, <1>7 DEF AutopayTypeOK
  <1>9. /\ eventStore' = eventStore /\ pub' = pub
        /\ payments' = payments /\ idempotency' = idempotency /\ call' = call
        /\ summary' = summary /\ processing' = processing
        /\ subscriptions' = subscriptions /\ subCall' = subCall /\ now' = now
    BY DEF busVars, handlerVars, subscriptionVars
  <1>10. PayInv' /\ SubInv'
    BY <1>9, PaymentStutterKeeps, SubTimePasses
       DEF paymentVars, busVars, AutopayInv, SubInv, SubTypeOK
  <1>11. AutopayTypeOK'
    BY <1>1, <1>4, <1>8 DEF AutopayTypeOK
  <1>12. (\A w \in Worker : WorkerCall(w)') /\ (\A c \in Caller : PubOfRun(c)')
    BY <1>1, <1>9 DEF AutopayInv, WorkerCall, Paying, PubOfRun, RenewalPub
  <1>13. \A w \in Worker : WorkerJob(w)'
    BY <1>1, <1>6, <1>8, <1>9 DEF AutopayInv, WorkerJob, SubExists
  <1>14. \A i \in JobId : JobStands(i)'
    BY <1>3, <1>5, <1>7, <1>8, <1>9 DEF AutopayInv, JobStands, SubExists
  <1>15. Rows' = Rows
    BY <1>9, RowsStay
  <1> QED
    BY <1>10, <1>11, <1>12, <1>13, <1>14, <1>15 DEF AutopayInv

LEMMA SkipInactiveKeeps ==
    ASSUME AutopayInv, failures' = failures, crashes' = crashes,
           NEW w \in Worker, SkipInactive(w)
    PROVE  AutopayInv'
  <1>1. /\ run[w].pc = "find" /\ Idle(w) /\ dlq' = dlq /\ failed' = failed
        /\ jobs' = [jobs EXCEPT ![run[w].job] = NoJob]
        /\ UNCHANGED <<busVars, handlerVars, subscriptionVars>>
        /\ subscriptions' = subscriptions /\ AutopayTypeOK
    BY DEF SkipInactive, CompleteJob, AutopayInv, subscriptionVars
  <1>2. run' \in [Worker -> RunState] /\ run'[w] = NoRun /\ OthersRun(w)
    BY <1>1, IdleProperties
  <1>3. /\ jobs' \in [JobId -> {NoJob} \cup JobState]
        /\ \A v \in Worker : WorkerJob(v)'
        /\ \A i \in JobId : JobStands(i)'
    BY <1>1, <1>2, RowsStay, JobLeft DEF RunPc
  <1>4. NotAwaiting(w) /\ NotAwaiting(w)'
    BY <1>1, <1>2 DEF NotAwaiting, NoRun
  <1> QED
    BY <1>1, <1>2, <1>3, <1>4, QuietWorker DEF AutopayTypeOK

(* A worker goes on with its job, the operations and the queue unchanged.  *)
LEMMA RunGoesOn ==
    ASSUME AutopayInv, UNCHANGED <<busVars, handlerVars, subscriptionVars, jobs, failed>>,
           dlq' \subseteq Sub, failures' \in 0 .. MaxFailures, crashes' = crashes,
           NEW w \in Worker, NEW pc \in {"expire", "catch", "throw"}, At(w, pc),
           run[w].pc \in {"find", "catch", "renew", "expire"}
    PROVE  AutopayInv'
  <1>1. /\ run[w].pc \in RunPc /\ pc \in RunPc
        /\ jobs' = jobs /\ failed' = failed /\ subscriptions' = subscriptions /\ AutopayTypeOK
    BY DEF AutopayInv, subscriptionVars, RunPc
  <1>2. /\ run' \in [Worker -> RunState]
        /\ run'[w].pc = pc /\ run'[w].job = run[w].job /\ run'[w].sub = run[w].sub
        /\ OthersRun(w)
    BY <1>1, AtProperties
  <1>3. (\A v \in Worker : WorkerJob(v)') /\ (\A j \in JobId : JobStands(j)')
    BY <1>1, <1>2, RowsStay, JobKept
  <1>4. NotAwaiting(w) /\ NotAwaiting(w)'
    BY <1>2 DEF NotAwaiting
  <1> QED
    BY <1>1, <1>2, <1>3, <1>4, QuietWorker DEF AutopayTypeOK

LEMMA QuietRenewalKeeps ==
    ASSUME AutopayInv, failures' \in 0 .. MaxFailures, crashes' = crashes, NEW w \in Worker,
           FindLapsed(w) \/ Catch(w) \/ RenewalStatementFails(w)
    PROVE  AutopayInv'
  <1>1. dlq' \subseteq Sub
    <2>1. run[w].pc \in RunPc => run[w].sub \in Sub
      BY RunningJob DEF AutopayInv
    <2> QED
      BY <2>1 DEF AutopayInv, AutopayTypeOK, FindLapsed, Catch, RenewalStatementFails, RunPc
  <1> QED
    BY <1>1, RunGoesOn DEF FindLapsed, Catch, RenewalStatementFails

-----------------------------------------------------------------------------
(* A worker awaits a payment operation.                                    *)

LEMMA CallingWorker ==
    ASSUME AutopayInv, PayInv', UNCHANGED <<busVars, subscriptionVars, jobs, dlq, failed>>,
           failures' = failures, crashes' = crashes,
           NEW w \in Worker, run' \in [Worker -> RunState], OthersRun(w),
           run[w].pc \in RunPc, run'[w].job = run[w].job, run'[w].sub = run[w].sub,
           run[w].pc \notin {"publishRenewed", "publishExpired"},
           run'[w].pc \notin {"publishRenewed", "publishExpired", "scanAdd"},
           \A c \in Caller \ {w} : call'[c] = call[c], WorkerCall(w)'
    PROVE  AutopayInv'
  <1>1. /\ eventStore' = eventStore /\ pub' = pub
        /\ subscriptions' = subscriptions /\ subCall' = subCall /\ now' = now
        /\ jobs' = jobs /\ dlq' = dlq /\ failed' = failed /\ AutopayTypeOK
    BY DEF busVars, subscriptionVars, AutopayInv
  <1>2. SubInv'
    BY <1>1, SubTimePasses DEF busVars, AutopayInv, SubInv, SubTypeOK
  <1>3. (\A v \in Worker : WorkerJob(v)') /\ (\A j \in JobId : JobStands(j)')
    BY <1>1, RowsStay, JobKept
  <1>4. PubOfRun(w)'
    BY <1>1, AutopayAssumption DEF AutopayInv, PubOfRun, RenewalPub
  <1> QED
    BY <1>1, <1>2, <1>3, <1>4, RowsStay, WorkerSteps DEF AutopayTypeOK

LEMMA NewCallProperties ==
    ASSUME NEW op \in Operation, NEW o \in Order
    PROVE  /\ NewCall(op, o).pc # "idle"
           /\ NewCall(op, o).op = op
           /\ NewCall(op, o).order = o
  BY DEF NewCall

LEMMA FindRenewableKeeps ==
    ASSUME AutopayInv, failures' = failures, crashes' = crashes,
           NEW w \in Worker, FindRenewable(w)
    PROVE  AutopayInv'
  <1> DEFINE old == run[w]
             end == subscriptions[old.sub].endDate
             next == [old EXCEPT !.pc = "create", !.endDate = end]
  <1>1. /\ old.pc = "find" /\ run' = [run EXCEPT ![w] = next]
        /\ UNCHANGED <<busVars, payments, idempotency, summary, processing>>
        /\ UNCHANGED <<subscriptionVars, jobs, dlq, failed>>
        /\ AutopayTypeOK /\ w \in Caller
    BY AutopayAssumption DEF FindRenewable, AutopayInv
  <1>2. PICK o \in Order : /\ Fresh(o) /\ KeyOf[o] = RenewalKey[old.sub]
                           /\ call' = [call EXCEPT ![w] = NewCall("create", o)]
    BY DEF FindRenewable
  <1>3. old \in [pc : RunPc, job : JobId, sub : Sub, endDate : Nat] /\ old.sub \in Sub
    BY <1>1, RunningJob DEF RunPc
  <1>4. end \in Nat
    BY <1>3 DEF AutopayInv, SubInv, SubTypeOK, SubRow, NoSubscription
  <1> HIDE DEF old, end
  <1>5. /\ next \in [pc : RunPc, job : JobId, sub : Sub, endDate : Nat]
        /\ next.pc = "create" /\ next.job = old.job /\ next.sub = old.sub
    BY <1>3, <1>4 DEF RunPc
  <1> HIDE DEF next
  <1>6. next \in RunState
    BY <1>5 DEF RunState
  <1>7. run' \in [Worker -> RunState] /\ run'[w] = next /\ OthersRun(w)
    BY <1>1, <1>6, MovesTo
  <1>8. call[w] = NoCall /\ subCall[w] = NoSubCall
    BY <1>1 DEF AutopayInv, WorkerCall, Paying, old
  <1>9. PayInv'
    <2>1. PayInv /\ call[w].pc = "idle" /\ "create" \in Operation
      BY <1>8 DEF AutopayInv, NoCall, Operation
    <2> QED
      BY <1>1, <1>2, <2>1, CallBegins
  <1>10. /\ call'[w] = NewCall("create", o)
         /\ \A c \in Caller \ {w} : call'[c] = call[c]
    BY <1>1, <1>2 DEF AutopayInv, PayInv, PaymentTypeOK
  <1>11. call'[w].pc # "idle" /\ call'[w].op = "create" /\ call'[w].order = o
    BY <1>2, <1>10, NewCallProperties DEF Operation
  <1>12. WorkerCall(w)'
    BY <1>1, <1>2, <1>5, <1>7, <1>8, <1>11 DEF WorkerCall, Paying, subscriptionVars
  <1> QED
    BY <1>1, <1>5, <1>7, <1>9, <1>10, <1>12, CallingWorker DEF RunPc, old

LEMMA CreateReturnedKeeps ==
    ASSUME AutopayInv, failures' = failures, crashes' = crashes,
           NEW w \in Worker, CreateReturned(w)
    PROVE  AutopayInv'
  <1> DEFINE o == call[w].order
  <1>1. /\ run[w].pc = "create" /\ call[w].pc = "ok" /\ At(w, "complete")
        /\ call' = [call EXCEPT ![w] = NewCall("complete", o)]
        /\ UNCHANGED <<busVars, payments, idempotency, summary, processing>>
        /\ UNCHANGED <<subscriptionVars, jobs, dlq, failed>>
        /\ AutopayTypeOK /\ w \in Caller
    BY AutopayAssumption DEF CreateReturned, AutopayInv
  <1>2. o \in Order
    BY <1>1, RunningCall DEF AutopayInv, PayInv
  <1>3. WorkerCall(w) /\ KeyOf[o] = RenewalKey[run[w].sub] /\ subCall[w] = NoSubCall
    BY <1>1 DEF AutopayInv, WorkerCall, Paying
  <1>4. /\ run' \in [Worker -> RunState]
        /\ run'[w].pc = "complete" /\ run'[w].job = run[w].job /\ run'[w].sub = run[w].sub
        /\ OthersRun(w)
    BY <1>1, AtProperties DEF RunPc
  <1> HIDE DEF o
  <1>5. PayInv'
    BY <1>1, <1>2, CallBegins DEF AutopayInv, Operation
  <1>6. /\ call'[w] = NewCall("complete", o)
        /\ \A c \in Caller \ {w} : call'[c] = call[c]
    BY <1>1 DEF AutopayInv, PayInv, PaymentTypeOK
  <1>7. call'[w].pc # "idle" /\ call'[w].op = "complete" /\ call'[w].order = o
    BY <1>2, <1>6, NewCallProperties DEF Operation
  <1>8. WorkerCall(w)'
    BY <1>1, <1>3, <1>4, <1>7 DEF WorkerCall, Paying, subscriptionVars
  <1> QED
    BY <1>1, <1>4, <1>5, <1>6, <1>8, CallingWorker DEF RunPc

LEMMA CallReturnedKeeps ==
    ASSUME AutopayInv, failures' = failures, crashes' = crashes,
           NEW w \in Worker, CompleteReturned(w) \/ PaymentThrew(w)
    PROVE  AutopayInv'
  <1>1. PICK pc \in {"renew", "catch"} : At(w, pc)
    BY DEF CompleteReturned, PaymentThrew
  <1>2. /\ run[w].pc \in {"create", "complete"} /\ call[w].pc \in {"ok", "error"}
        /\ call' = [call EXCEPT ![w] = NoCall]
        /\ UNCHANGED <<busVars, payments, idempotency, summary, processing>>
        /\ UNCHANGED <<subscriptionVars, jobs, dlq, failed>>
        /\ AutopayTypeOK /\ w \in Caller
    BY AutopayAssumption DEF CompleteReturned, PaymentThrew, AutopayInv
  <1>3. /\ run' \in [Worker -> RunState]
        /\ run'[w].pc = pc /\ run'[w].job = run[w].job /\ run'[w].sub = run[w].sub
        /\ OthersRun(w)
    BY <1>1, <1>2, AtProperties DEF RunPc
  <1>4. PayInv'
    BY <1>2, CallEnds DEF AutopayInv
  <1>5. call'[w] = NoCall /\ \A c \in Caller \ {w} : call'[c] = call[c]
    BY <1>2 DEF AutopayInv, PayInv, PaymentTypeOK
  <1>6. WorkerCall(w)'
    BY <1>2, <1>3, <1>5 DEF AutopayInv, WorkerCall, Paying, subscriptionVars
  <1> QED
    BY <1>2, <1>3, <1>4, <1>5, <1>6, CallingWorker DEF RunPc

-----------------------------------------------------------------------------
(* A worker renews or ends a subscription and announces it.                *)

(* The rows a worker writes: as wide as what it read, and not cancelled.   *)
RenewalRow(w) ==
    LET s == run[w].sub
    IN  IF run[w].pc = "renew" THEN Renewed(subscriptions[s], s, run[w].endDate)
                               ELSE [subscriptions[s] EXCEPT !.status = "EXPIRED"]

LEMMA RenewalWrites ==
    ASSUME AutopayInv, NEW w \in Worker, run[w].pc \in {"renew", "expire"},
           subscriptions' = [subscriptions EXCEPT ![run[w].sub] = RenewalRow(w)],
           subCall' = subCall, now' = now, eventStore' = eventStore
    PROVE  /\ SubTypeOK' /\ CancelledIsOff' /\ SubGrows /\ RowsGrow
           /\ \A s \in Sub : SubExists(s)' => SubExists(s)
  <1> DEFINE s == run[w].sub
             row == subscriptions[s]
             new == RenewalRow(w)
  <1>1. run[w].pc \in RunPc /\ s \in Sub /\ run[w].endDate \in Nat /\ SubExists(s)
    BY RunningJob DEF AutopayInv, WorkerJob, RunPc
  <1>2. SubTypeOK /\ CancelledIsOff
    BY DEF AutopayInv, SubInv
  <1>3. row \in SubRow
    BY <1>1, <1>2, RowTypes
  <1>4. new \in SubRow
    BY <1>1, <1>2, WrittenRows DEF RenewalRow
  <1>5. new.status # "CANCELLED" /\ new.autoRenew = row.autoRenew
    <2> HIDE DEF row
    <2>1. \A read \in Nat : /\ Renewed(row, s, read).status = "ACTIVE"
                            /\ Renewed(row, s, read).autoRenew = row.autoRenew
      BY <1>3 DEF Renewed, SubRow
    <2>2. /\ [row EXCEPT !.status = "EXPIRED"].status = "EXPIRED"
          /\ [row EXCEPT !.status = "EXPIRED"].autoRenew = row.autoRenew
      BY <1>3 DEF SubRow
    <2>3. new = IF run[w].pc = "renew" THEN Renewed(row, s, run[w].endDate)
                                       ELSE [row EXCEPT !.status = "EXPIRED"]
      BY DEF RenewalRow, row
    <2> HIDE DEF new
    <2> QED
      BY <1>1, <2>1, <2>2, <2>3
  <1>6. new # NoSubscription
    BY <1>4 DEF SubRow, SubStatus, NoSubscription
  <1> HIDE DEF new
  <1>7. /\ subscriptions' \in [Sub -> SubRow \cup {NoSubscription}]
        /\ subscriptions'[s] = new
        /\ \A t \in Sub \ {s} : subscriptions'[t] = subscriptions[t]
    BY <1>1, <1>2, <1>4 DEF SubTypeOK, new
  <1>8. SubTypeOK'
    BY <1>2, <1>7 DEF SubTypeOK
  <1>9. CancelledIsOff'
    BY <1>2, <1>5, <1>7 DEF CancelledIsOff
  <1>10. \A t \in Sub : SubExists(t)' <=> SubExists(t)
    BY <1>1, <1>6, <1>7 DEF SubExists
  <1>11. SubGrows
    BY <1>5, <1>7, <1>10 DEF SubGrows
  <1>12. RowsGrow
    BY <1>10 DEF RowsGrow, Rows
  <1> QED
    BY <1>8, <1>9, <1>10, <1>11, <1>12

(* What the payment and the subscription operations see of a renewal.      *)
LEMMA RenewalStaysApart ==
    ASSUME AutopayInv, NEW w \in Caller, BusInv', UNCHANGED <<eventStore, handlerVars, subCall>>,
           SubTypeOK', CancelledIsOff', SubGrows, \A s \in Sub : SubExists(s)' => SubExists(s),
           \A d \in Caller \ {w} : pub'[d] = pub[d],
           pub[w].step # "idle" => RenewalPub(w),
           pub'[w].step # "idle" => RenewalPub(w)'
    PROVE  PayInv' /\ SubInv'
  <1>1. ~PaymentPub(w) /\ ~PaymentPub(w)' /\ ~SubPub(w) /\ ~SubPub(w)'
    BY DEF PaymentPub, SubPub, RenewalPub, PaymentEvent
  <1>2. PayInv'
    BY <1>1, OtherPublishKeeps DEF AutopayInv
  <1>3. SubInv'
    BY <1>1, SubOtherPublishKeeps DEF AutopayInv
  <1> QED
    BY <1>2, <1>3

LEMMA RenewalWriteKeeps ==
    ASSUME AutopayInv, failures' = failures, crashes' = crashes,
           NEW w \in Worker, RenewSubscription(w) \/ ExpireSubscription(w)
    PROVE  AutopayInv'
  <1> DEFINE s == run[w].sub
             renews == run[w].pc = "renew"
             t == IF renews THEN "SUBSCRIPTION_RENEWED" ELSE "SUBSCRIPTION_EXPIRED"
             pc == IF renews THEN "publishRenewed" ELSE "publishExpired"
  <1>1. /\ run[w].pc \in {"renew", "expire"} /\ At(w, pc) /\ Publish(w, s, t)
        /\ UNCHANGED <<handlerVars, subCall, now, jobs, dlq, failed>>
        /\ subscriptions' = [subscriptions EXCEPT ![s] = RenewalRow(w)]
    BY DEF RenewSubscription, ExpireSubscription, RenewalRow
  <1>2. /\ run[w].pc \in RunPc /\ pc \in RunPc /\ s \in Sub /\ s \in Aggregate
        /\ w \in Caller /\ AutopayTypeOK /\ BusInv
    BY <1>1, RunningJob, AutopayAssumption, SubscriptionAssumption DEF AutopayInv, RunPc, PayInv
  <1>3. t \in EventType
    BY SubscriptionAssumption DEF SubscriptionEvent
  <1>4. /\ pub[w].step = "idle" /\ pub'[w].step = "getLatestVersion"
        /\ pub'[w].event.aggregateId = s /\ pub'[w].event.type = t
        /\ \A d \in Caller \ {w} : pub'[d] = pub[d]
        /\ eventStore' = eventStore
    BY <1>1, <1>2, PublishBegins
  <1>5. BusInv'
    BY <1>1, <1>2, <1>3, PublishKeeps
  <1>6. /\ SubTypeOK' /\ CancelledIsOff' /\ SubGrows /\ RowsGrow
        /\ \A r \in Sub : SubExists(r)' => SubExists(r)
    BY <1>1, <1>4, RenewalWrites
  <1>7. RenewalPub(w)'
    BY <1>4 DEF RenewalPub
  <1>8. PayInv' /\ SubInv'
    BY <1>1, <1>2, <1>4, <1>5, <1>6, <1>7, RenewalStaysApart
  <1>9. /\ run' \in [Worker -> RunState]
        /\ run'[w].pc = pc /\ run'[w].job = run[w].job /\ run'[w].sub = s
        /\ OthersRun(w)
    BY <1>1, <1>2, AtProperties
  <1>10. call' = call /\ subCall' = subCall /\ jobs' = jobs /\ dlq' = dlq /\ failed' = failed
    BY <1>1 DEF handlerVars
  <1>11. (\A v \in Worker : WorkerJob(v)') /\ (\A j \in JobId : JobStands(j)')
    BY <1>2, <1>6, <1>9, <1>10, JobKept DEF RunPc
  <1>12. WorkerCall(w)'
    BY <1>1, <1>9, <1>10 DEF AutopayInv, WorkerCall, Paying
  <1>13. PubOfRun(w)'
    BY <1>1, <1>4, <1>7, <1>9 DEF PubOfRun
  <1> QED
    BY <1>2, <1>4, <1>6, <1>8, <1>9, <1>10, <1>11, <1>12, <1>13, WorkerSteps DEF AutopayTypeOK

LEMMA RenewalReplyLostKeeps ==
    ASSUME AutopayInv, failures' \in 0 .. MaxFailures, crashes' = crashes,
           NEW w \in Worker, RenewalReplyLost(w)
    PROVE  AutopayInv'
  <1> DEFINE s == run[w].sub
             pc == IF run[w].pc = "renew" THEN "catch" ELSE "throw"
  <1>1. /\ run[w].pc \in {"renew", "expire"} /\ At(w, pc)
        /\ UNCHANGED <<busVars, handlerVars, subCall, now, jobs, dlq, failed>>
        /\ subscriptions' = [subscriptions EXCEPT ![s] = RenewalRow(w)]
    BY DEF RenewalReplyLost, RenewalRow
  <1>2. /\ run[w].pc \in RunPc /\ pc \in RunPc /\ s \in Sub
        /\ w \in Caller /\ AutopayTypeOK /\ BusInv /\ PubOfRun(w)
    BY <1>1, RunningJob, AutopayAssumption DEF AutopayInv, RunPc, PayInv
  <1>3. pub' = pub /\ eventStore' = eventStore
    BY <1>1 DEF busVars
  <1>4. BusInv'
    BY <1>1, <1>2, BusStutterKeeps
  <1>5. /\ SubTypeOK' /\ CancelledIsOff' /\ SubGrows /\ RowsGrow
        /\ \A r \in Sub : SubExists(r)' => SubExists(r)
    BY <1>1, <1>3, RenewalWrites
  <1>6. call' = call /\ subCall' = subCall /\ jobs' = jobs /\ dlq' = dlq /\ failed' = failed
    BY <1>1 DEF handlerVars
  <1>7. ~PaymentPub(w) /\ ~SubPub(w)
    <2>1. call[w] = NoCall /\ subCall[w] = NoSubCall
      BY <1>1 DEF AutopayInv, WorkerCall, Paying
    <2> QED
      BY <1>2, <2>1
         DEF AutopayInv, PayInv, CallInv, PubOfCall, NoCall, SubInv, SubCallInv, PubOfSubCall, NoSubCall
  <1>8. PayInv' /\ SubInv'
    <2>1. ~PaymentPub(w)' /\ ~SubPub(w)'
      BY <1>3, <1>7 DEF PaymentPub, SubPub
    <2>2. PayInv'
      BY <1>1, <1>2, <1>3, <1>4, <1>7, <2>1, OtherPublishKeeps DEF AutopayInv
    <2>3. SubInv'
      BY <1>2, <1>3, <1>4, <1>5, <1>6, <1>7, <2>1, SubOtherPublishKeeps DEF AutopayInv
    <2> QED
      BY <2>2, <2>3
  <1>9. /\ run' \in [Worker -> RunState]
        /\ run'[w].pc = pc /\ run'[w].job = run[w].job /\ run'[w].sub = s
        /\ OthersRun(w)
    BY <1>1, <1>2, AtProperties
  <1>10. (\A v \in Worker : WorkerJob(v)') /\ (\A j \in JobId : JobStands(j)')
    BY <1>2, <1>5, <1>6, <1>9, JobKept DEF RunPc
  <1>11. WorkerCall(w)'
    BY <1>1, <1>6, <1>9 DEF AutopayInv, WorkerCall, Paying
  <1>12. PubOfRun(w)'
    BY <1>1, <1>2, <1>3, <1>9 DEF PubOfRun, RenewalPub
  <1> QED
    BY <1>2, <1>3, <1>5, <1>6, <1>8, <1>9, <1>10, <1>11, <1>12, WorkerSteps DEF AutopayTypeOK

LEMMA RenewalResumesKeeps ==
    ASSUME AutopayInv, failures' = failures, crashes' = crashes,
           NEW w \in Worker, RenewalPublished(w) \/ RenewalPublishThrew(w)
    PROVE  AutopayInv'
  <1>1. /\ run[w].pc \in {"publishRenewed", "publishExpired"} /\ Resume(w)
        /\ UNCHANGED <<handlerVars, subscriptionVars, dlq, failed>>
    BY DEF RenewalPublished, RenewalPublishThrew, CompleteJob
  <1>2. /\ run[w].pc \in RunPc /\ w \in Caller /\ AutopayTypeOK /\ BusInv /\ PubOfRun(w)
    BY <1>1, AutopayAssumption DEF AutopayInv, RunPc, PayInv
  <1>3. RenewalPub(w)
    BY <1>1, <1>2 DEF PubOfRun
  <1>4. /\ pub'[w].step = "idle" /\ eventStore' = eventStore
        /\ \A d \in Caller \ {w} : pub'[d] = pub[d]
    BY <1>1, <1>2, PublishEnds
  <1>5. BusInv'
    BY <1>1, <1>2, ResumeKeeps
  <1>6. /\ call' = call /\ subscriptions' = subscriptions /\ subCall' = subCall /\ now' = now
        /\ dlq' = dlq /\ failed' = failed
    BY <1>1 DEF handlerVars, subscriptionVars
  <1>7. /\ SubTypeOK' /\ CancelledIsOff' /\ SubGrows
        /\ \A s \in Sub : SubExists(s)' => SubExists(s)
    BY <1>4, <1>6 DEF AutopayInv, SubInv, SubTypeOK, CancelledIsOff, SubGrows, SubExists
  <1>8. PayInv' /\ SubInv'
    BY <1>1, <1>2, <1>3, <1>4, <1>5, <1>6, <1>7, RenewalStaysApart
  <1>9. /\ run' \in [Worker -> RunState] /\ OthersRun(w)
        /\ run'[w].pc \in {"idle", "catch", "throw"}
        /\ jobs' \in [JobId -> {NoJob} \cup JobState]
        /\ \A v \in Worker : WorkerJob(v)'
        /\ \A j \in JobId : JobStands(j)'
    <2>1. CASE RenewalPublished(w)
      <3>1. Idle(w) /\ jobs' = [jobs EXCEPT ![run[w].job] = NoJob]
        BY <2>1 DEF RenewalPublished, CompleteJob
      <3>2. run' \in [Worker -> RunState] /\ run'[w] = NoRun /\ OthersRun(w)
        BY <1>2, <3>1, IdleProperties
      <3>3. /\ jobs' \in [JobId -> {NoJob} \cup JobState]
            /\ \A v \in Worker : WorkerJob(v)'
            /\ \A i \in JobId : JobStands(i)'
        BY <1>2, <1>6, <3>1, <3>2, RowsStay, JobLeft
      <3> QED
        BY <3>2, <3>3 DEF NoRun
    <2>2. CASE RenewalPublishThrew(w)
      <3>1. PICK pc \in {"catch", "throw"} : At(w, pc) /\ jobs' = jobs
        BY <2>2 DEF RenewalPublishThrew
      <3>2. /\ run' \in [Worker -> RunState]
            /\ run'[w].pc = pc /\ run'[w].job = run[w].job /\ run'[w].sub = run[w].sub
            /\ OthersRun(w)
        BY <1>2, <3>1, AtProperties DEF RunPc
      <3>3. (\A v \in Worker : WorkerJob(v)') /\ (\A j \in JobId : JobStands(j)')
        BY <1>2, <1>6, <3>1, <3>2, RowsStay, JobKept
      <3> QED
        BY <1>2, <3>1, <3>2, <3>3 DEF AutopayTypeOK
    <2> QED
      BY <2>1, <2>2
  <1>10. WorkerCall(w)'
    BY <1>1, <1>6, <1>9 DEF AutopayInv, WorkerCall, Paying
  <1>11. PubOfRun(w)'
    BY <1>4, <1>9 DEF PubOfRun, RenewalPub
  <1> QED
    BY <1>2, <1>4, <1>6, <1>8, <1>9, <1>10, <1>11, RowsStay, WorkerSteps DEF AutopayTypeOK

-----------------------------------------------------------------------------
(* Every step keeps the invariant.                                         *)

LEMMA AutopayCrashKeeps ==
    ASSUME AutopayInv, AutopayCrash
    PROVE  AutopayInv'
  <1>1. /\ BusCrash /\ call' = [c \in Caller |-> NoCall] /\ subCall' = [c \in Caller |-> NoSubCall]
        /\ run' = [w \in Worker |-> NoRun] /\ crashes' = crashes + 1 /\ crashes < MaxCrashes
        /\ payments' = payments /\ idempotency' = idempotency /\ summary' = summary
        /\ processing' = processing /\ subscriptions' = subscriptions /\ now' = now
        /\ jobs' = jobs /\ dlq' = dlq /\ failed' = failed /\ failures' = failures
        /\ AutopayTypeOK
    BY DEF AutopayCrash, AutopayInv
  <1>2. PayInv'
    BY <1>1, RestartKeeps DEF AutopayInv
  <1>3. SubInv'
    BY <1>1, SubCrashKeeps DEF SubCrash, AutopayInv
  <1>4. \A w \in Worker : run'[w] = NoRun /\ call'[w] = NoCall /\ subCall'[w] = NoSubCall
    BY <1>1, AutopayAssumption
  <1>5. \A c \in Caller : pub'[c] = NoPub
    BY <1>1 DEF BusCrash
  <1>6. AutopayTypeOK'
    BY <1>1, AutopayAssumption DEF AutopayTypeOK, RunState
  <1>7. \A w \in Worker : WorkerCall(w)' /\ WorkerJob(w)'
    BY <1>4 DEF WorkerCall, Paying, WorkerJob, NoRun, RunPc
  <1>8. \A c \in Caller : PubOfRun(c)'
    BY <1>4, <1>5 DEF PubOfRun, RenewalPub, NoPub, NoRun
  <1>9. (\A j \in JobId : JobStands(j)') /\ Rows' = Rows
    BY <1>1, RowsStay DEF AutopayInv, JobStands, SubExists
  <1> QED
    BY <1>2, <1>3, <1>6, <1>7, <1>8, <1>9 DEF AutopayInv

LEMMA AutopayInvInitially ==
    ASSUME AutopayInit
    PROVE  AutopayInv
  <1>1. PayInv /\ SubInv
    BY PayInvInitially, SubInvInitially DEF AutopayInit
  <1>2. AutopayTypeOK
    BY AutopayAssumption DEF AutopayInit, AutopayTypeOK, RunState
  <1>3. \A w \in Worker : WorkerCall(w) /\ WorkerJob(w)
    BY AutopayAssumption
       DEF AutopayInit, PaymentInit, SubInit, WorkerCall, Paying, WorkerJob, NoRun, RunPc
  <1>4. \A c \in Caller : PubOfRun(c)
    BY DEF AutopayInit, PaymentInit, BusInit, PubOfRun, RenewalPub, NoPub, NoRun
  <1>5. \A j \in JobId : JobStands(j)
    BY DEF AutopayInit, JobStands
  <1>6. Rows = {}
    BY DEF AutopayInit, SubInit, Rows, SubExists
  <1> QED
    BY <1>1, <1>2, <1>3, <1>4, <1>5, <1>6, FS_EmptySet DEF AutopayInv

(* Steps of payment operations, of subscription operations, and of time.   *)
LEMMA PaymentStepKeeps ==
    ASSUME AutopayInv, UNCHANGED <<subscriptionVars, workerVars>>,
           failures' \in 0 .. MaxFailures, crashes' = crashes,
           NEW c \in Caller, CallStep(c) \/ CallFault(c)
    PROVE  AutopayInv'
  <1>1. PayInv /\ SubInv /\ crashes' \in 0 .. MaxCrashes
    BY DEF AutopayInv, AutopayTypeOK
  <1>2. UNCHANGED subscriptionVars /\ UNCHANGED workerVars
    OBVIOUS
  <1>3. subscriptions' = subscriptions /\ subCall' = subCall
    BY DEF subscriptionVars
  <1> QED
    BY <1>1, <1>2, <1>3, PaymentStepsStayApart, RowsStay, WorkersStay

LEMMA SubscriptionStepKeeps ==
    ASSUME AutopayInv, UNCHANGED <<handlerVars, workerVars>>,
           failures' \in 0 .. MaxFailures, crashes' = crashes,
           NEW c \in Caller, SubCallStep(c) \/ SubCallFault(c)
    PROVE  AutopayInv'
  <1>1. PayInv /\ SubInv /\ crashes' \in 0 .. MaxCrashes
    BY DEF AutopayInv, AutopayTypeOK
  <1>2. UNCHANGED handlerVars /\ UNCHANGED workerVars
    OBVIOUS
  <1>3. /\ PayInv' /\ SubInv' /\ RenewalPubsStay /\ RowsGrow
        /\ subCall[c].pc # "idle"
        /\ \A d \in Caller \ {c} : subCall'[d] = subCall[d]
    BY <1>1, <1>2, SubscriptionStepsStayApart
  <1>4. CallsGoOn
    BY DEF handlerVars, CallsGoOn
  <1>5. \A w \in Worker : subCall'[w] = subCall[w]
    BY <1>3, AutopayAssumption DEF AutopayInv, WorkerCall, NoSubCall
  <1> QED
    BY <1>1, <1>2, <1>3, <1>4, <1>5, WorkersStay

LEMMA ClientPaymentKeeps ==
    ASSUME AutopayInv, UNCHANGED <<subscriptionVars, workerVars, failures, crashes>>,
           \/ \E c \in Client : Return(c) \/ \E op \in PaymentOp, o \in Order : Begin(c, op, o)
           \/ \E k \in Key : ExpireKey(k)
    PROVE  AutopayInv'
  <1>1. [PaymentNext]_paymentVars
    BY DEF PaymentNext, Client
  <1>2. PayInv'
    BY <1>1, PayInvInductive DEF AutopayInv
  <1>3. /\ UNCHANGED busVars /\ UNCHANGED workerVars
        /\ subscriptions' = subscriptions /\ subCall' = subCall /\ now' = now
        /\ failures' \in 0 .. MaxFailures /\ crashes' \in 0 .. MaxCrashes
    BY DEF Return, Begin, ExpireKey, subscriptionVars, AutopayInv, AutopayTypeOK
  <1>4. SubInv'
    BY <1>3, SubTimePasses DEF AutopayInv, SubInv, SubTypeOK
  <1>5. RenewalPubsStay
    BY <1>3 DEF busVars, RenewalPubsStay
  <1>6. CallsGoOn
    BY AutopayAssumption
       DEF Return, Begin, ExpireKey, CallsGoOn, Client, AutopayInv, PayInv, PaymentTypeOK
  <1> QED
    BY <1>2, <1>3, <1>4, <1>5, <1>6, RowsStay, WorkersStay

LEMMA ClientSubscriptionKeeps ==
    ASSUME AutopayInv, UNCHANGED <<handlerVars, workerVars, failures, crashes>>,
           \/ \E c \in Client : SubReturn(c) \/ \E op \in SubOp, s \in Sub : SubBegin(c, op, s)
           \/ Tick
    PROVE  AutopayInv'
  <1>1. [SubNext]_subVars
    BY DEF SubNext, Client
  <1>2. SubInv'
    BY <1>1, SubInvInductive DEF AutopayInv
  <1>3. /\ UNCHANGED busVars /\ UNCHANGED workerVars /\ call' = call
        /\ payments' = payments /\ idempotency' = idempotency
        /\ summary' = summary /\ processing' = processing
        /\ subscriptions' = subscriptions
        /\ failures' \in 0 .. MaxFailures /\ crashes' \in 0 .. MaxCrashes
    BY DEF SubReturn, SubBegin, Tick, handlerVars, AutopayInv, AutopayTypeOK
  <1>4. PayInv'
    BY <1>3, PaymentStutterKeeps DEF AutopayInv, paymentVars, busVars
  <1>5. RenewalPubsStay /\ CallsGoOn
    BY <1>3 DEF busVars, RenewalPubsStay, CallsGoOn
  <1>6. \A w \in Worker : subCall'[w] = subCall[w]
    BY AutopayAssumption
       DEF SubReturn, SubBegin, Tick, Client, AutopayInv, SubInv, SubTypeOK
  <1> QED
    BY <1>2, <1>3, <1>4, <1>5, <1>6, RowsStay, WorkersStay

(* The kinds of step that the system has.                                  *)
ClientPays ==
    \/ \E c \in Client : Return(c) \/ \E op \in PaymentOp, o \in Order : Begin(c, op, o)
    \/ \E k \in Key : ExpireKey(k)

ClientSubscribes ==
    \/ \E c \in Client : SubReturn(c) \/ \E op \in SubOp, s \in Sub : SubBegin(c, op, s)
    \/ Tick

LEMMA StepKinds ==
    ASSUME AutopayTypeOK, [AutopayNext]_autopayVars
    PROVE  \/ UNCHANGED autopayVars
           \/ ClientPays /\ UNCHANGED <<subscriptionVars, workerVars, failures, crashes>>
           \/ ClientSubscribes /\ UNCHANGED <<handlerVars, workerVars, failures, crashes>>
           \/ AutopayCrash
           \/ /\ failures' \in 0 .. MaxFailures /\ crashes' = crashes
              /\ \/ \E c \in Caller : /\ CallStep(c) \/ CallFault(c)
                                      /\ UNCHANGED <<subscriptionVars, workerVars>>
                 \/ \E c \in Caller : /\ SubCallStep(c) \/ SubCallFault(c)
                                      /\ UNCHANGED <<handlerVars, workerVars>>
                 \/ \E w \in Worker : RenewalStatementFails(w) \/ RenewalReplyLost(w)
                 \/ \E w \in Worker : ScanFails(w) /\ UNCHANGED <<busVars, handlerVars, subscriptionVars>>
           \/ /\ failures' = failures /\ crashes' = crashes
              /\ \/ \E w \in Worker : Renewal(w)
                 \/ /\ UNCHANGED <<busVars, handlerVars, subscriptionVars>>
                    /\ \/ \E w \in Worker : Scan(w) \/ FailJob(w) \/ \E j \in JobId : TakeJob(w, j)
                       \/ \E j \in JobId : Stall(j)
  <1>1. failures \in 0 .. MaxFailures
    BY DEF AutopayTypeOK
  <1>2. CASE \E c \in Client :
               \/ \E op \in PaymentOp, o \in Order :
                     /\ subCall[c] = NoSubCall
                     /\ op = "create" \/ Exists(o)
                     /\ PaymentStep(Begin(c, op, o))
               \/ PaymentStep(Return(c))
               \/ \E op \in SubOp, s \in Sub :
                     call[c] = NoCall /\ SubscriptionStep(SubBegin(c, op, s))
               \/ SubscriptionStep(SubReturn(c))
    BY <1>2 DEF PaymentStep, SubscriptionStep, ClientPays, ClientSubscribes
  <1>3. ASSUME NEW c \in Caller, Progress(c)
        PROVE  \/ /\ failures' = failures /\ crashes' = crashes
                  /\ \/ (CallStep(c) \/ CallFault(c)) /\ UNCHANGED <<subscriptionVars, workerVars>>
                     \/ (SubCallStep(c) \/ SubCallFault(c)) /\ UNCHANGED <<handlerVars, workerVars>>
                     \/ c \in Worker /\ Renewal(c)
                     \/ /\ UNCHANGED <<busVars, handlerVars, subscriptionVars>>
                        /\ c \in Worker /\ FailJob(c)
    BY <1>3 DEF Progress, PaymentStep, SubscriptionStep, QueueOnly
  <1>4. ASSUME NEW c \in Caller, failures < MaxFailures, Fault(c), failures' = failures + 1,
               UNCHANGED crashes
        PROVE  /\ failures' \in 0 .. MaxFailures /\ crashes' = crashes
               /\ \/ (CallStep(c) \/ CallFault(c)) /\ UNCHANGED <<subscriptionVars, workerVars>>
                  \/ (SubCallStep(c) \/ SubCallFault(c)) /\ UNCHANGED <<handlerVars, workerVars>>
                  \/ c \in Worker /\ (RenewalStatementFails(c) \/ RenewalReplyLost(c))
                  \/ /\ c \in Worker /\ ScanFails(c)
                     /\ UNCHANGED <<busVars, handlerVars, subscriptionVars>>
    <2>1. failures' \in 0 .. MaxFailures
      BY <1>1, <1>4, AutopayAssumption
    <2> QED
      BY <1>4, <2>1 DEF Fault
  <1>5. CASE \/ \E w \in Worker : QueueOnly(Scan(w)) \/ \E j \in JobId : QueueOnly(TakeJob(w, j))
             \/ \E j \in JobId : QueueOnly(Stall(j))
    BY <1>5 DEF QueueOnly
  <1>6. CASE \/ \E k \in Key : PaymentStep(ExpireKey(k))
             \/ SubscriptionStep(Tick)
    BY <1>6 DEF PaymentStep, SubscriptionStep, ClientPays, ClientSubscribes
  <1> QED
    BY <1>1, <1>2, <1>3, <1>4, <1>5, <1>6 DEF AutopayNext

LEMMA AutopayInvInductive ==
    ASSUME AutopayInv, [AutopayNext]_autopayVars
    PROVE  AutopayInv'
  <1>1. AutopayTypeOK /\ failures \in 0 .. MaxFailures
    BY DEF AutopayInv, AutopayTypeOK
  <1>2. CASE UNCHANGED autopayVars
    <2>1. /\ eventStore' = eventStore /\ pub' = pub
          /\ payments' = payments /\ idempotency' = idempotency /\ call' = call
          /\ summary' = summary /\ processing' = processing
          /\ subscriptions' = subscriptions /\ subCall' = subCall /\ now' = now
          /\ UNCHANGED workerVars /\ failures' = failures /\ crashes' = crashes
      BY <1>2 DEF autopayVars, handlerVars, subscriptionVars, workerVars
    <2>2. PayInv' /\ SubInv'
      BY <2>1, PaymentStutterKeeps, SubTimePasses
         DEF paymentVars, busVars, AutopayInv, SubInv, SubTypeOK
    <2>3. RenewalPubsStay /\ CallsGoOn
      BY <2>1 DEF RenewalPubsStay, CallsGoOn
    <2> QED
      BY <2>1, <2>2, <2>3, RowsStay, WorkersStay DEF AutopayInv, AutopayTypeOK
  <1>3. CASE ClientPays /\ UNCHANGED <<subscriptionVars, workerVars, failures, crashes>>
    BY <1>3, ClientPaymentKeeps DEF ClientPays
  <1>4. CASE ClientSubscribes /\ UNCHANGED <<handlerVars, workerVars, failures, crashes>>
    BY <1>4, ClientSubscriptionKeeps DEF ClientSubscribes
  <1>5. ASSUME failures' \in 0 .. MaxFailures, crashes' = crashes,
               \/ \E c \in Caller : /\ CallStep(c) \/ CallFault(c)
                                    /\ UNCHANGED <<subscriptionVars, workerVars>>
               \/ \E c \in Caller : /\ SubCallStep(c) \/ SubCallFault(c)
                                    /\ UNCHANGED <<handlerVars, workerVars>>
               \/ \E w \in Worker : RenewalStatementFails(w) \/ RenewalReplyLost(w)
               \/ \E w \in Worker : ScanFails(w) /\ UNCHANGED <<busVars, handlerVars, subscriptionVars>>
        PROVE  AutopayInv'
    BY <1>5, PaymentStepKeeps, SubscriptionStepKeeps, QuietRenewalKeeps, RenewalReplyLostKeeps, ScanKeeps
  <1>6. ASSUME failures' = failures, crashes' = crashes, NEW w \in Worker, Renewal(w)
        PROVE  AutopayInv'
    BY <1>1, <1>6, SkipInactiveKeeps, QuietRenewalKeeps, FindRenewableKeeps, CreateReturnedKeeps,
       CallReturnedKeeps, RenewalWriteKeeps, RenewalResumesKeeps
       DEF Renewal
  <1>7. ASSUME failures' = failures, crashes' = crashes,
               UNCHANGED <<busVars, handlerVars, subscriptionVars>>,
               \/ \E w \in Worker : Scan(w) \/ FailJob(w) \/ \E j \in JobId : TakeJob(w, j)
               \/ \E j \in JobId : Stall(j)
        PROVE  AutopayInv'
    BY <1>1, <1>7, ScanKeeps, ScanAddKeeps, FailJobKeeps, TakeJobKeeps, StallKeeps DEF Scan
  <1> QED
    BY <1>1, <1>2, <1>3, <1>4, <1>5, <1>6, <1>7, StepKinds, AutopayCrashKeeps

(* The inductive invariant of the renewals over the operations.            *)
THEOREM AutopayInvariant == AutopaySpec => []AutopayInv
  <1>1. AutopayInit => AutopayInv
    BY AutopayInvInitially
  <1>2. AutopayInv /\ [AutopayNext]_autopayVars => AutopayInv'
    BY AutopayInvInductive
  <1> QED
    BY <1>1, <1>2, PTL DEF AutopaySpec

(* Every variable of the renewals keeps its type.                          *)
THEOREM AutopayTypeCorrect == AutopaySpec => []AutopayTypeOK
  BY AutopayInvariant, PTL DEF AutopayInv

(* With workers that renew beside them, what the clients' payments promise *)
(* still holds: rows, answers, keys and jobs (PaymentHandler.ts:29, :71).  *)
THEOREM PaymentsSafeInSystem ==
    AutopaySpec => /\ []EventsFollowRows
                   /\ []AcknowledgedIsDurable
                   /\ []KeyNamesItsOrder
                   /\ []JobsAreLogged
  <1>1. AutopayInv => EventsFollowRows /\ AcknowledgedIsDurable /\ KeyNamesItsOrder /\ JobsAreLogged
    BY PayInvSays DEF AutopayInv
  <1> QED
    BY <1>1, AutopayInvariant, PTL

(* The auto_renew of a cancelled subscription stays off, though a renewal  *)
(* that is under way overwrites the status, and what a client is told of a *)
(* subscription is stored (SubscriptionHandler.ts:61, :64).                *)
THEOREM SubscriptionsSafeInSystem ==
    AutopaySpec => []RenewalStaysOff /\ []SubAcknowledgedIsDurable
  <1>1. AutopayInv => RenewalStaysOff /\ SubAcknowledgedIsDurable
    BY SubInvSays DEF AutopayInv
  <1> QED
    BY <1>1, AutopayInvariant, PTL

(* Three kinds of publisher share event_store, and its histories stay      *)
(* without holes and repetitions, what was dispatched is stored            *)
(* (EventBus.ts:28, :41).                                                  *)
THEOREM HistoriesSafeInSystem ==
    AutopaySpec => /\ []VersionsAreContiguous
                   /\ []VersionsAreUnique
                   /\ []PublishedIsStored
  <1>1. AutopayInv => VersionsAreContiguous /\ VersionsAreUnique /\ PublishedIsStored
    BY DEF AutopayInv, PayInv, BusInv
  <1> QED
    BY <1>1, AutopayInvariant, PTL

(* Rows of event_store come from the steps inside a publish and no other.  *)
LEMMA OnlyPublishesStore ==
    ASSUME AutopayTypeOK, [AutopayNext]_autopayVars, eventStore' # eventStore
    PROVE  \E c \in Caller :
               /\ StoreStep(c) \/ StoreFault(c) \/ Dispatch(c)
               /\ run' = run /\ subscriptions' = subscriptions
  <1>1. ASSUME NEW c \in Caller, CallStep(c) \/ CallFault(c)
        PROVE  eventStore' = eventStore \/ StoreStep(c) \/ StoreFault(c) \/ Dispatch(c)
    BY <1>1
       DEF CallStep, CallFault, busVars, handlerVars, CheckKey, Insert, SetKey, Publish, Find,
           UpdateStatus, PublishStep, DispatchToProjector, PublishReturns, Resume, Enqueue,
           StatementFails, InsertReplyLost, UpdateReplyLost, PublishFault, ProjectorFails
  <1>2. ASSUME NEW c \in Caller, SubCallStep(c) \/ SubCallFault(c)
        PROVE  \/ eventStore' = eventStore
               \/ (StoreStep(c) \/ StoreFault(c) \/ Dispatch(c)) /\ subscriptions' = subscriptions
    BY <1>2
       DEF SubCallStep, SubCallFault, busVars, FindActive, InsertSubscription, Publish, Resume,
           FindSubscription, CancelSubscription, SubPublishStep, SubPublishReturns,
           SubStatementFails, InsertSubscriptionReplyLost, CancelReplyLost, SubPublishFault
  <1>3. ASSUME ClientPays \/ ClientSubscribes \/ AutopayCrash
        PROVE  eventStore' = eventStore
    BY <1>3 DEF ClientPays, ClientSubscribes, AutopayCrash, BusCrash, Return, Begin, ExpireKey,
                SubReturn, SubBegin, Tick, busVars
  <1>4. ASSUME NEW w \in Worker, Renewal(w) \/ RenewalStatementFails(w) \/ RenewalReplyLost(w)
        PROVE  eventStore' = eventStore
    BY <1>4 DEF Renewal, SkipInactive, FindLapsed, FindRenewable, CreateReturned,
                CompleteReturned, PaymentThrew, RenewSubscription, ExpireSubscription,
                RenewalPublished, RenewalPublishThrew, Catch, RenewalStatementFails,
                RenewalReplyLost, Publish, Resume, busVars
  <1>5. \/ ClientPays \/ ClientSubscribes \/ AutopayCrash \/ eventStore' = eventStore
        \/ \E c \in Caller : /\ CallStep(c) \/ CallFault(c)
                             /\ run' = run /\ subscriptions' = subscriptions
        \/ \E c \in Caller : /\ SubCallStep(c) \/ SubCallFault(c)
                             /\ run' = run
        \/ \E w \in Worker : Renewal(w) \/ RenewalStatementFails(w) \/ RenewalReplyLost(w)
    BY StepKinds DEF busVars, autopayVars, workerVars, subscriptionVars
  <1> QED
    BY <1>1, <1>2, <1>3, <1>4, <1>5

(* The histories stay append-only with everybody publishing.               *)
THEOREM SystemImplementsLog == AutopaySpec => ImplementsEventLog
  <1>1. AutopayInit => Log!Init
    BY LogInitially DEF AutopayInit, PaymentInit
  <1>2. AutopayInv /\ AutopayInv' /\ [AutopayNext]_autopayVars
            => [Log!Next]_([a \in Aggregate |-> History(a)])
    <2> SUFFICES ASSUME AutopayInv, AutopayInv', [AutopayNext]_autopayVars
                 PROVE  [Log!Next]_([a \in Aggregate |-> History(a)])
      OBVIOUS
    <2>1. eventStore' = eventStore \/ \E c \in Caller : AppendEvent(c) \/ AppendReplyLost(c)
      BY OnlyPublishesStore, StoreAppends DEF AutopayInv
    <2> QED
      BY <2>1, AppendsRecord DEF AutopayInv, PayInv
  <1> QED
    BY <1>1, <1>2, AutopayInvariant, PTL DEF AutopaySpec, ImplementsEventLog, Log!Spec

-----------------------------------------------------------------------------
(* What becomes of the jobs.                                               *)

LEMMA QueueMoves ==
    ASSUME AutopayTypeOK, [AutopayNext]_autopayVars
    PROVE  /\ dlq' = dlq \/ \E w \in Worker : Catch(w)
           /\ \/ jobs' = jobs
              \/ \E w \in Worker :
                    \/ ScanAdd(w) \/ SkipInactive(w) \/ RenewalPublished(w) \/ FailJob(w)
                    \/ \E j \in JobId : TakeJob(w, j)
              \/ \E j \in JobId : Stall(j)
  <1>1. ASSUME NEW w \in Worker, Renewal(w) \/ RenewalStatementFails(w) \/ RenewalReplyLost(w)
        PROVE  /\ dlq' = dlq \/ Catch(w)
               /\ jobs' = jobs \/ SkipInactive(w) \/ RenewalPublished(w)
    BY <1>1 DEF Renewal, SkipInactive, FindLapsed, FindRenewable, CreateReturned,
                CompleteReturned, PaymentThrew, RenewSubscription, ExpireSubscription,
                RenewalPublished, RenewalPublishThrew, Catch, RenewalStatementFails,
                RenewalReplyLost, CompleteJob
  <1>2. ASSUME NEW w \in Worker, Scan(w) \/ ScanFails(w) \/ FailJob(w) \/ \E j \in JobId : TakeJob(w, j)
        PROVE  /\ dlq' = dlq
               /\ jobs' = jobs \/ ScanAdd(w) \/ FailJob(w) \/ \E j \in JobId : TakeJob(w, j)
    BY <1>2 DEF Scan, TakeScan, ScanFind, ScanAdd, ScanFails, FailJob, TakeJob
  <1>3. ASSUME NEW j \in JobId, Stall(j)
        PROVE  dlq' = dlq
    BY <1>3 DEF Stall
  <1>4. AutopayCrash \/ UNCHANGED workerVars \/ UNCHANGED autopayVars => dlq' = dlq /\ jobs' = jobs
    BY DEF AutopayCrash, workerVars, autopayVars
  <1>5. UNCHANGED <<subscriptionVars, workerVars, failures, crashes>>
        \/ UNCHANGED <<handlerVars, workerVars, failures, crashes>>
        \/ UNCHANGED <<subscriptionVars, workerVars>>
        \/ UNCHANGED <<handlerVars, workerVars>> => UNCHANGED workerVars
    OBVIOUS
  <1> QED
    BY <1>1, <1>2, <1>3, <1>4, <1>5, StepKinds

(* A worker that is about to throw stays there, and the attempts of its    *)
(* job are what they were, until the queue hears of it or the process dies. *)
LEMMA ThrowingStays ==
    ASSUME AutopayInv, [AutopayNext]_autopayVars, ~AutopayCrash,
           NEW w \in Worker, run[w].pc = "throw"
    PROVE  \/ FailJob(w)
           \/ run'[w] = run[w] /\ jobs'[run[w].job] = jobs[run[w].job]
  <1> DEFINE j == run[w].job
             Stays == run'[w] = run[w] /\ jobs'[j] = jobs[j]
  <1>1. /\ AutopayTypeOK /\ jobs \in [JobId -> {NoJob} \cup JobState]
        /\ run \in [Worker -> RunState]
    BY DEF AutopayInv, AutopayTypeOK
  <1>2. /\ run[w].pc \in RunPc /\ run[w] \in [pc : RunPc, job : JobId, sub : Sub, endDate : Nat]
        /\ j \in JobId
    BY <1>1, RunningJob DEF RunPc
  <1>3. /\ jobs[j].state = "active"
        /\ \A v \in Worker \ {w} : run[v].pc \in RunPc => run[v].job # j
    BY <1>2 DEF AutopayInv, WorkerJob
  <1>4. CASE UNCHANGED workerVars
    BY <1>4 DEF workerVars
  <1>5. CASE UNCHANGED autopayVars
    BY <1>4, <1>5 DEF autopayVars, workerVars
  <1>6. ASSUME NEW v \in Worker \ {w},
               \/ Renewal(v) \/ RenewalStatementFails(v) \/ RenewalReplyLost(v)
               \/ Scan(v) \/ ScanFails(v) \/ FailJob(v) \/ \E i \in JobId : TakeJob(v, i)
        PROVE  Stays
    <2>1. run'[w] = run[w]
      BY <1>1, <1>6
         DEF Renewal, SkipInactive, FindLapsed, FindRenewable, CreateReturned, CompleteReturned,
             PaymentThrew, RenewSubscription, ExpireSubscription, RenewalPublished,
             RenewalPublishThrew, Catch, RenewalStatementFails, RenewalReplyLost, CompleteJob,
             Scan, TakeScan, ScanFind, ScanAdd, ScanFails, FailJob, TakeJob, At, Idle
    <2>2. CASE jobs' = jobs
      BY <2>1, <2>2
    <2>3. CASE SkipInactive(v) \/ RenewalPublished(v) \/ FailJob(v)
      <3>1. run[v].pc \in RunPc
        BY <2>3 DEF SkipInactive, RenewalPublished, FailJob, RunPc
      <3>2. run[v].job # j
        BY <1>3, <1>6, <3>1
      <3>3. PICK new : jobs' = [jobs EXCEPT ![run[v].job] = new]
        BY <2>3 DEF SkipInactive, RenewalPublished, FailJob, CompleteJob
      <3> QED
        BY <1>1, <1>2, <2>1, <3>2, <3>3
    <2>4. CASE ScanAdd(v)
      <3>1. PICK i \in FreeJobs : \E new : jobs' = [jobs EXCEPT ![i] = new]
        BY <2>4 DEF ScanAdd
      <3>2. i # j
        BY <1>3 DEF FreeJobs, NoJob
      <3> QED
        BY <1>1, <1>2, <2>1, <3>1, <3>2
    <2>5. ASSUME NEW i \in JobId, TakeJob(v, i)
          PROVE  jobs'[j] = jobs[j]
      BY <1>1, <1>2, <1>3, <2>5 DEF TakeJob
    <2>6. \/ jobs' = jobs
          \/ SkipInactive(v) \/ RenewalPublished(v) \/ FailJob(v) \/ ScanAdd(v)
          \/ \E i \in JobId : TakeJob(v, i)
      BY <1>6
         DEF Renewal, FindLapsed, FindRenewable, CreateReturned, CompleteReturned,
             PaymentThrew, RenewSubscription, ExpireSubscription,
             RenewalPublishThrew, Catch, RenewalStatementFails, RenewalReplyLost,
             Scan, TakeScan, ScanFind, ScanFails
    <2> QED
      BY <2>1, <2>2, <2>3, <2>4, <2>5, <2>6
  <1>7. \/ Renewal(w) \/ RenewalStatementFails(w) \/ RenewalReplyLost(w)
        \/ Scan(w) \/ ScanFails(w) \/ \E i \in JobId : TakeJob(w, i)
        => FALSE
    BY <1>2
       DEF Renewal, SkipInactive, FindLapsed, FindRenewable, CreateReturned, CompleteReturned,
           PaymentThrew, RenewSubscription, ExpireSubscription, RenewalPublished,
           RenewalPublishThrew, Catch, RenewalStatementFails, RenewalReplyLost,
           Scan, TakeScan, ScanFind, ScanAdd, ScanFails, TakeJob, NoRun
  <1>8. ASSUME NEW i \in JobId, Stall(i)
        PROVE  Stays
    <2>1. i # j /\ run' = run
      BY <1>2, <1>8 DEF Stall
    <2>2. PICK new : jobs' = [jobs EXCEPT ![i] = new]
      BY <1>8 DEF Stall
    <2> QED
      BY <1>1, <1>2, <2>1, <2>2
  <1>9. \/ UNCHANGED autopayVars
        \/ UNCHANGED workerVars
        \/ \E v \in Worker :
              \/ Renewal(v) \/ RenewalStatementFails(v) \/ RenewalReplyLost(v)
              \/ Scan(v) \/ ScanFails(v) \/ FailJob(v) \/ \E i \in JobId : TakeJob(v, i)
        \/ \E i \in JobId : Stall(i)
    BY <1>1, StepKinds
  <1> HIDE DEF Stays
  <1> QED
    BY <1>4, <1>5, <1>6, <1>7, <1>8, <1>9 DEF Stays

LEMMA FailedGrows ==
    ASSUME AutopayTypeOK, [AutopayNext]_autopayVars
    PROVE  /\ failed \subseteq failed'
           /\ AutopayCrash \/ crashes' = crashes
  <1>1. ASSUME NEW w \in Worker,
               \/ Renewal(w) \/ RenewalStatementFails(w) \/ RenewalReplyLost(w)
               \/ Scan(w) \/ ScanFails(w) \/ FailJob(w) \/ \E j \in JobId : TakeJob(w, j)
        PROVE  failed \subseteq failed'
    BY <1>1
       DEF Renewal, SkipInactive, FindLapsed, FindRenewable, CreateReturned, CompleteReturned,
           PaymentThrew, RenewSubscription, ExpireSubscription, RenewalPublished,
           RenewalPublishThrew, Catch, RenewalStatementFails, RenewalReplyLost, CompleteJob,
           Scan, TakeScan, ScanFind, ScanAdd, ScanFails, FailJob, TakeJob
  <1>2. ASSUME NEW j \in JobId, Stall(j)
        PROVE  failed \subseteq failed'
    BY <1>2 DEF Stall
  <1>3. UNCHANGED workerVars \/ UNCHANGED autopayVars \/ AutopayCrash => failed' = failed
    BY DEF workerVars, autopayVars, AutopayCrash
  <1>4. UNCHANGED autopayVars => crashes' = crashes
    BY DEF autopayVars
  <1> QED
    BY <1>1, <1>2, <1>3, <1>4, StepKinds

(* Unless the process died, what is in the dead-letter queue has failed    *)
(* for good, or its worker is about to throw for the last time             *)
(* (AutopayWorker.ts:120, :134): nobody else touches a job whose worker    *)
(* awaits, so the attempts that the code counted are those BullMQ counts.  *)
THEOREM DeadLettersFailed == AutopaySpec => []DeadLettersHaveFailed
  <1> DEFINE Throwing(s, w) == run[w].pc = "throw" /\ run[w].sub = s /\ LastAttempt(run[w].job)
  <1>1. AutopayInit => DeadLettersHaveFailed
    BY DEF AutopayInit, DeadLettersHaveFailed
  <1>2. ASSUME AutopayInv, [AutopayNext]_autopayVars, DeadLettersHaveFailed
        PROVE  DeadLettersHaveFailed'
    <2>1. /\ AutopayTypeOK /\ crashes \in Nat /\ failed \subseteq failed'
          /\ jobs \in [JobId -> {NoJob} \cup JobState]
      BY <1>2, FailedGrows, AutopayAssumption DEF AutopayInv, AutopayTypeOK
    <2>2. CASE AutopayCrash
      <3>1. crashes' # 0
        BY <2>1, <2>2 DEF AutopayCrash
      <3> QED
        BY <3>1 DEF DeadLettersHaveFailed
    <2>3. ASSUME ~AutopayCrash, crashes' = 0, NEW s \in dlq' \ failed'
          PROVE  \E w \in Worker : Throwing(s, w)'
      <3>1. crashes = 0 /\ s \notin failed
        BY <1>2, <2>1, <2>3, FailedGrows
      <3>2. CASE s \in dlq
        <4>1. PICK w \in Worker : Throwing(s, w)
          BY <1>2, <3>1, <3>2 DEF DeadLettersHaveFailed
        <4>2. ASSUME FailJob(w)
              PROVE  FALSE
          <5>1. run[w].job \in JobId /\ jobs[run[w].job].attemptsMade \in Nat
            <6>1. run[w].pc \in RunPc
              BY <4>1 DEF RunPc
            <6>2. run[w].job \in JobId /\ jobs[run[w].job].state = "active"
              BY <1>2, <2>1, <6>1, RunningJob DEF AutopayInv, WorkerJob
            <6> QED
              BY <2>1, <6>2, QueuedJob DEF NoJob
          <5>2. ~(jobs[run[w].job].attemptsMade + 1 < Attempts)
            BY <4>1, <5>1, AutopayAssumption DEF LastAttempt
          <5>3. run[w].sub \in failed'
            BY <4>2, <5>2 DEF FailJob
          <5> QED
            BY <2>3, <4>1, <5>3
        <4>3. run'[w] = run[w] /\ jobs'[run[w].job] = jobs[run[w].job]
          BY <1>2, <2>3, <4>1, <4>2, ThrowingStays
        <4> QED
          BY <4>1, <4>3 DEF LastAttempt
      <3>3. CASE s \notin dlq
        <4>1. PICK w \in Worker : Catch(w)
          BY <1>2, <2>1, <2>3, <3>3, QueueMoves
        <4>2. run[w].sub = s /\ LastAttempt(run[w].job) /\ jobs' = jobs
          BY <2>3, <3>3, <4>1 DEF Catch
        <4>3. run'[w].pc = "throw" /\ run'[w].sub = s /\ run'[w].job = run[w].job
          BY <2>1, <4>1, <4>2, AtProperties DEF Catch, RunPc
        <4> QED
          BY <4>2, <4>3 DEF LastAttempt
      <3> QED
        BY <3>2, <3>3
    <2> QED
      BY <2>2, <2>3 DEF DeadLettersHaveFailed
  <1> QED
    BY <1>1, <1>2, AutopayInvariant, PTL DEF AutopaySpec

(* Crashes, stalls and failures leave a job in the queue, or on record     *)
(* (README.md:140).                                                        *)
THEOREM JobsNotLost == AutopaySpec => JobsAreNotLost
  <1>1. ASSUME AutopayInv, [AutopayNext]_autopayVars
        PROVE  [\A j \in JobId :
                   jobs[j] # NoJob /\ jobs'[j] = NoJob =>
                       LET s == jobs[j].sub
                       IN  \/ s \in failed'
                           \/ ~IsActive(s)
                           \/ SubEventsOf(s, "SUBSCRIPTION_RENEWED") # {}
                           \/ SubEventsOf(s, "SUBSCRIPTION_EXPIRED") # {}]_jobs
    <2> SUFFICES ASSUME NEW j \in JobId, jobs[j] # NoJob, jobs'[j] = NoJob
                 PROVE  \/ jobs[j].sub \in failed'
                        \/ ~IsActive(jobs[j].sub)
                        \/ SubEventsOf(jobs[j].sub, "SUBSCRIPTION_RENEWED") # {}
                        \/ SubEventsOf(jobs[j].sub, "SUBSCRIPTION_EXPIRED") # {}
      OBVIOUS
    <2>1. AutopayTypeOK /\ jobs \in [JobId -> {NoJob} \cup JobState] /\ jobs' # jobs
      BY <1>1 DEF AutopayInv, AutopayTypeOK
    <2>2. ASSUME NEW w \in Worker, run[w].pc \in RunPc, NEW new,
                 jobs' = [jobs EXCEPT ![run[w].job] = new]
          PROVE  j = run[w].job /\ jobs[j].sub = run[w].sub
      BY <1>1, <2>1, <2>2, RunningJob DEF AutopayInv, WorkerJob
    <2>3. ASSUME NEW w \in Worker, ScanAdd(w)
          PROVE  FALSE
      BY <2>1, <2>3 DEF ScanAdd, NoJob
    <2>4. ASSUME NEW w \in Worker, NEW i \in JobId, TakeJob(w, i)
          PROVE  FALSE
      <3> DEFINE new == [jobs[i] EXCEPT !.state = "active"]
      <3>1. jobs[i].state = "waiting" /\ jobs' = [jobs EXCEPT ![i] = new]
        BY <2>4 DEF TakeJob
      <3>2. jobs[i] \in JobState
        BY <2>1, <3>1, QueuedJob DEF NoJob
      <3>3. new.state = "active"
        BY <3>2 DEF JobState
      <3> HIDE DEF new
      <3> QED
        BY <2>1, <3>1, <3>3 DEF NoJob
    <2>5. ASSUME NEW w \in Worker, SkipInactive(w)
          PROVE  ~IsActive(jobs[j].sub)
      BY <2>2, <2>5 DEF SkipInactive, CompleteJob, RunPc
    <2>6. ASSUME NEW w \in Worker, RenewalPublished(w)
          PROVE  \/ SubEventsOf(jobs[j].sub, "SUBSCRIPTION_RENEWED") # {}
                 \/ SubEventsOf(jobs[j].sub, "SUBSCRIPTION_EXPIRED") # {}
      <3>1. /\ run[w].pc \in {"publishRenewed", "publishExpired"} /\ pub[w].step = "published"
            /\ w \in Caller
        BY <2>6, AutopayAssumption DEF RenewalPublished
      <3>2. j = run[w].job /\ jobs[j].sub = run[w].sub
        BY <2>2, <2>6, <3>1 DEF RenewalPublished, CompleteJob, RunPc
      <3>3. /\ pub[w].event.aggregateId = run[w].sub
            /\ pub[w].event.type \in {"SUBSCRIPTION_RENEWED", "SUBSCRIPTION_EXPIRED"}
        BY <1>1, <3>1 DEF AutopayInv, PubOfRun
      <3>4. pub[w].event \in eventStore
        BY <1>1, <3>1 DEF AutopayInv, PayInv, BusInv, PublishedIsStored
      <3> QED
        BY <3>2, <3>3, <3>4 DEF SubEventsOf
    <2>7. ASSUME NEW w \in Worker, FailJob(w)
          PROVE  jobs[j].sub \in failed'
      <3> DEFINE i == run[w].job
                 old == jobs[i]
                 new == [old EXCEPT !.state = "waiting", !.attemptsMade = old.attemptsMade + 1]
      <3>1. run[w].pc \in RunPc
        BY <2>7 DEF FailJob, RunPc
      <3>2. \/ jobs' = [jobs EXCEPT ![i] = new]
            \/ jobs' = [jobs EXCEPT ![i] = NoJob] /\ run[w].sub \in failed'
        BY <2>7 DEF FailJob
      <3>3. j = i /\ jobs[j].sub = run[w].sub
        BY <2>2, <3>1, <3>2
      <3>4. old \in JobState
        BY <2>1, <3>3, QueuedJob
      <3>5. new.state = "waiting"
        <4> HIDE DEF old
        <4> QED
          BY <3>4 DEF JobState
      <3> HIDE DEF new
      <3>6. jobs'[i] = new => FALSE
        BY <3>3, <3>5 DEF NoJob
      <3> QED
        BY <2>1, <3>2, <3>3, <3>6
    <2>8. ASSUME NEW i \in JobId, Stall(i)
          PROVE  jobs[j].sub \in failed'
      <3> DEFINE old == jobs[i]
                 new == [old EXCEPT !.state = "waiting", !.stalls = old.stalls + 1]
      <3>1. \/ jobs' = [jobs EXCEPT ![i] = new]
            \/ jobs' = [jobs EXCEPT ![i] = NoJob] /\ old.sub \in failed'
        BY <2>8 DEF Stall
      <3>2. old.state = "active"
        BY <2>8 DEF Stall
      <3>3. old \in JobState
        BY <2>1, <3>2, QueuedJob DEF NoJob
      <3>4. new.state = "waiting"
        <4> HIDE DEF old
        <4> QED
          BY <3>3 DEF JobState
      <3> HIDE DEF new
      <3>5. i = j
        BY <2>1, <3>1
      <3> QED
        BY <2>1, <3>1, <3>4, <3>5 DEF NoJob
    <2> QED
      BY <1>1, <2>1, <2>3, <2>4, <2>5, <2>6, <2>7, <2>8, QueueMoves
  <1> QED
    BY <1>1, AutopayInvariant, PTL DEF AutopaySpec, JobsAreNotLost

-----------------------------------------------------------------------------
(* What a step does to a worker that awaits, renews or announces.          *)

LEMMA WorkersMove ==
    ASSUME AutopayInv, [AutopayNext]_autopayVars, NEW w \in Worker
    PROVE  \/ /\ run'[w] = run[w]
              /\ Paying(w) => call'[w].order = call[w].order
           \/ FindRenewable(w) \/ CreateReturned(w) \/ CompleteReturned(w) \/ RenewSubscription(w)
           \/ run'[w].pc \notin {"create", "complete", "renew", "publishRenewed"}
  <1> DEFINE Stays == run'[w] = run[w] /\ (Paying(w) => call'[w].order = call[w].order)
             Leaves == run'[w].pc \notin {"create", "complete", "renew", "publishRenewed"}
  <1>1. AutopayTypeOK /\ run \in [Worker -> RunState] /\ w \in Caller /\ PayInv /\ SubInv
    BY AutopayAssumption DEF AutopayInv, AutopayTypeOK
  <1>2. CASE UNCHANGED autopayVars
    BY <1>2 DEF autopayVars, handlerVars, workerVars
  <1>3. CASE UNCHANGED workerVars /\ UNCHANGED call
    BY <1>3 DEF workerVars
  <1>4. CASE ClientPays /\ UNCHANGED workerVars
    <2>1. call'[w] = call[w]
      BY <1>1, <1>4
         DEF ClientPays, Client, Return, Begin, ExpireKey, PayInv, PaymentTypeOK
    <2> QED
      BY <1>4, <2>1 DEF workerVars
  <1>5. ASSUME NEW c \in Caller, CallStep(c) \/ CallFault(c),
               UNCHANGED subscriptionVars, UNCHANGED workerVars
        PROVE  Stays
    <2>1. CallsGoOn
      BY <1>1, <1>5, PaymentStepsStayApart
    <2> QED
      BY <1>5, <2>1 DEF CallsGoOn, workerVars
  <1>6. ASSUME NEW v \in Worker \ {w},
               \/ Renewal(v) \/ RenewalStatementFails(v) \/ RenewalReplyLost(v)
               \/ /\ Scan(v) \/ ScanFails(v) \/ FailJob(v) \/ \E j \in JobId : TakeJob(v, j)
                  /\ UNCHANGED <<busVars, handlerVars, subscriptionVars>>
        PROVE  Stays
    <2>1. run'[w] = run[w]
      BY <1>1, <1>6
         DEF Renewal, SkipInactive, FindLapsed, FindRenewable, CreateReturned, CompleteReturned,
             PaymentThrew, RenewSubscription, ExpireSubscription, RenewalPublished,
             RenewalPublishThrew, Catch, RenewalStatementFails, RenewalReplyLost, CompleteJob,
             Scan, TakeScan, ScanFind, ScanAdd, ScanFails, FailJob, TakeJob, At, Idle
    <2>2. call'[w] = call[w]
      BY <1>1, <1>6
         DEF Renewal, SkipInactive, FindLapsed, FindRenewable, CreateReturned, CompleteReturned,
             PaymentThrew, RenewSubscription, ExpireSubscription, RenewalPublished,
             RenewalPublishThrew, Catch, RenewalStatementFails, RenewalReplyLost,
             handlerVars, PayInv, PaymentTypeOK
    <2> QED
      BY <2>1, <2>2
  <1>7. ASSUME NEW pc \in RunPc, run[w].pc \in RunPc, At(w, pc)
        PROVE  run'[w].pc = pc
    BY <1>1, <1>7, AtProperties
  <1>8. ASSUME Idle(w)
        PROVE  Leaves
    BY <1>1, <1>8, IdleProperties DEF NoRun
  <1>9. CASE Renewal(w) \/ RenewalStatementFails(w) \/ RenewalReplyLost(w)
    <2>1. CASE \/ FindLapsed(w) \/ PaymentThrew(w) \/ ExpireSubscription(w)
               \/ RenewalPublishThrew(w) \/ Catch(w)
               \/ RenewalStatementFails(w) \/ RenewalReplyLost(w)
      <3>1. /\ run[w].pc \in RunPc
            /\ \E pc \in {"expire", "catch", "publishExpired", "throw"} : At(w, pc)
        BY <2>1 DEF FindLapsed, PaymentThrew, ExpireSubscription, RenewalPublishThrew, Catch,
                    RenewalStatementFails, RenewalReplyLost, RunPc
      <3>2. run'[w].pc \in {"expire", "catch", "publishExpired", "throw"}
        BY <1>7, <3>1 DEF RunPc
      <3> QED
        BY <3>2
    <2>2. CASE SkipInactive(w) \/ RenewalPublished(w)
      BY <1>8, <2>2 DEF SkipInactive, RenewalPublished, CompleteJob
    <2> QED
      BY <1>9, <2>1, <2>2 DEF Renewal
  <1>10. ASSUME NEW new \in RunState, run' = [run EXCEPT ![w] = new]
         PROVE  run'[w] = new
    BY <1>1, <1>10
  <1>11. CASE Scan(w) \/ ScanFails(w) \/ FailJob(w) \/ \E j \in JobId : TakeJob(w, j)
    <2>1. CASE ScanFails(w) \/ FailJob(w)
      BY <1>8, <2>1 DEF ScanFails, FailJob
    <2>2. PICK new : ~(ScanFails(w) \/ FailJob(w)) =>
                     /\ run' = [run EXCEPT ![w] = new]
                     /\ new.pc \in {"idle", "scanFind", "scanAdd", "find"}
      BY <1>11 DEF Scan, TakeScan, ScanFind, ScanAdd, TakeJob, NoRun
    <2> QED
      BY <1>1, <2>1, <2>2
  <1>12. CASE AutopayCrash
    BY <1>12 DEF AutopayCrash, NoRun
  <1>13. ASSUME NEW j \in JobId, Stall(j), UNCHANGED <<busVars, handlerVars, subscriptionVars>>
         PROVE  Stays
    BY <1>13 DEF Stall, handlerVars
  <1> QED
    <2>1. \/ UNCHANGED autopayVars
          \/ ClientPays /\ UNCHANGED workerVars
          \/ UNCHANGED workerVars /\ UNCHANGED call
          \/ AutopayCrash
          \/ \E c \in Caller : /\ CallStep(c) \/ CallFault(c)
                               /\ UNCHANGED subscriptionVars /\ UNCHANGED workerVars
          \/ \E v \in Worker :
                \/ Renewal(v) \/ RenewalStatementFails(v) \/ RenewalReplyLost(v)
                \/ /\ Scan(v) \/ ScanFails(v) \/ FailJob(v) \/ \E j \in JobId : TakeJob(v, j)
                   /\ UNCHANGED <<busVars, handlerVars, subscriptionVars>>
          \/ \E j \in JobId : Stall(j) /\ UNCHANGED <<busVars, handlerVars, subscriptionVars>>
      BY <1>1, StepKinds DEF handlerVars
    <2> HIDE DEF Stays, Leaves
    <2> QED
      BY <1>2, <1>3, <1>4, <1>5, <1>6, <1>9, <1>11, <1>12, <1>13, <2>1 DEF Stays, Leaves

(* Once a subscription was cancelled no worker takes up its renewal: those *)
(* that had read it before (AutopayWorker.ts:69) go on, and nobody turns   *)
(* auto_renew on again for another to find (AutopayWorker.ts:75).          *)
THEOREM CancelledNotTakenUp == AutopaySpec => CancelledStopsRenewal
  <1>1. ASSUME AutopayInv, [AutopayNext]_autopayVars
        PROVE  [\A s \in Sub : WasCancelled(s) => Renewing(s)' \subseteq Renewing(s)]_run
    <2> SUFFICES ASSUME NEW s \in Sub, WasCancelled(s), NEW w \in Renewing(s)'
                 PROVE  w \in Renewing(s)
      OBVIOUS
    <2>1. /\ w \in Worker /\ run'[w].pc \in {"create", "complete", "renew"}
          /\ run'[w].sub = s
      BY DEF Renewing
    <2>2. AutopayTypeOK /\ run \in [Worker -> RunState]
      BY <1>1 DEF AutopayInv, AutopayTypeOK
    <2>3. CASE run'[w] = run[w]
      BY <2>1, <2>3 DEF Renewing
    <2>4. ASSUME FindRenewable(w)
          PROVE  FALSE
      <3>1. run[w].sub = s
        BY <2>1, <2>2, <2>4 DEF FindRenewable
      <3>2. ~subscriptions[s].autoRenew
        BY <1>1, SubInvSays DEF AutopayInv, RenewalStaysOff
      <3> QED
        BY <2>4, <3>1, <3>2 DEF FindRenewable
    <2>5. CASE CreateReturned(w) \/ CompleteReturned(w)
      <3>1. run[w].pc \in {"create", "complete"} /\ (At(w, "complete") \/ At(w, "renew"))
        BY <2>5 DEF CreateReturned, CompleteReturned
      <3>2. run'[w].sub = run[w].sub
        BY <2>1, <2>2, <3>1, AtProperties DEF RunPc
      <3> QED
        BY <2>1, <3>1, <3>2 DEF Renewing
    <2>6. ASSUME RenewSubscription(w)
          PROVE  FALSE
      BY <2>1, <2>2, <2>6, AtProperties DEF RenewSubscription, RunPc
    <2> QED
      BY <1>1, <2>1, <2>3, <2>4, <2>5, <2>6, WorkersMove
  <1> QED
    BY <1>1, AutopayInvariant, PTL DEF AutopaySpec, CancelledStopsRenewal

(* A publish comes to the store from the step before, or just begins.      *)
LEMMA PublishesMove ==
    ASSUME AutopayInv, [AutopayNext]_autopayVars, NEW c \in Caller
    PROVE  \/ pub'[c] = pub[c]
           \/ pub[c].step \in {"idle", "getLatestVersion", "append"}
           \/ pub'[c].step \notin {"getLatestVersion", "append"}
  <1>1. BusInv /\ pub \in [Caller -> PubState] /\ AutopayTypeOK
    BY DEF AutopayInv, PayInv, BusInv, BusTypeOK
  <1>2. CASE UNCHANGED pub
    BY <1>2
  <1>3. ASSUME NEW d \in Caller, StoreStep(d) \/ StoreFault(d) \/ Dispatch(d)
        PROVE  \/ pub'[c] = pub[c]
               \/ pub[c].step \in {"idle", "getLatestVersion", "append"}
               \/ pub'[c].step \notin {"getLatestVersion", "append"}
    BY <1>1, <1>3, PublishMoves, PublishAdvances
  <1>4. ASSUME NEW d \in Caller, NEW a, NEW t, Publish(d, a, t)
        PROVE  pub'[c] = pub[c] \/ pub[c].step = "idle"
    BY <1>1, <1>4, PublishBegins
  <1>5. ASSUME NEW d \in Caller, Resume(d)
        PROVE  pub'[c] = pub[c] \/ pub'[c].step \notin {"getLatestVersion", "append"}
    BY <1>1, <1>5, PublishEnds
  <1>6. ASSUME NEW d \in Caller, CallStep(d) \/ CallFault(d) \/ SubCallStep(d) \/ SubCallFault(d)
        PROVE  \/ UNCHANGED pub
               \/ StoreStep(d) \/ StoreFault(d) \/ Dispatch(d) \/ Resume(d)
               \/ \E a, t : Publish(d, a, t)
    BY <1>6
       DEF CallStep, CallFault, busVars, CheckKey, Insert, SetKey, Find, UpdateStatus, PublishStep,
           DispatchToProjector, PublishReturns, Enqueue, StatementFails, InsertReplyLost,
           UpdateReplyLost, PublishFault, ProjectorFails, SubCallStep, SubCallFault, FindActive,
           InsertSubscription, FindSubscription, CancelSubscription, SubPublishStep,
           SubPublishReturns, SubStatementFails, InsertSubscriptionReplyLost, CancelReplyLost,
           SubPublishFault
  <1>7. ASSUME NEW w \in Worker, Renewal(w) \/ RenewalStatementFails(w) \/ RenewalReplyLost(w)
        PROVE  UNCHANGED pub \/ Resume(w) \/ \E a, t : Publish(w, a, t)
    BY <1>7
       DEF Renewal, SkipInactive, FindLapsed, FindRenewable, CreateReturned, CompleteReturned,
           PaymentThrew, RenewSubscription, ExpireSubscription, RenewalPublished,
           RenewalPublishThrew, Catch, RenewalStatementFails, RenewalReplyLost, busVars
  <1>8. ASSUME ClientPays \/ ClientSubscribes
        PROVE  UNCHANGED pub
    BY <1>8 DEF ClientPays, ClientSubscribes, Return, Begin, ExpireKey, SubReturn, SubBegin, Tick, busVars
  <1>9. CASE AutopayCrash
    BY <1>9 DEF AutopayCrash, BusCrash, NoPub
  <1>10. \/ ClientPays \/ ClientSubscribes \/ AutopayCrash \/ UNCHANGED pub
         \/ \E d \in Caller : CallStep(d) \/ CallFault(d) \/ SubCallStep(d) \/ SubCallFault(d)
         \/ \E w \in Worker : Renewal(w) \/ RenewalStatementFails(w) \/ RenewalReplyLost(w)
    BY <1>1, StepKinds DEF busVars, autopayVars
  <1>11. Worker \subseteq Caller
    BY AutopayAssumption
  <1>12. CASE \E d \in Caller : CallStep(d) \/ CallFault(d) \/ SubCallStep(d) \/ SubCallFault(d)
    BY <1>2, <1>3, <1>4, <1>5, <1>6, <1>12
  <1>13. CASE \E w \in Worker : Renewal(w) \/ RenewalStatementFails(w) \/ RenewalReplyLost(w)
    BY <1>2, <1>4, <1>5, <1>7, <1>11, <1>13
  <1> QED
    BY <1>2, <1>8, <1>9, <1>10, <1>12, <1>13

(* They come one at a time, from a publish at its INSERT.                  *)
LEMMA StoreMoves ==
    ASSUME AutopayInv, [AutopayNext]_autopayVars
    PROVE  \/ eventStore' = eventStore
           \/ \E c \in Caller :
                 /\ pub[c].step = "append" /\ pub'[c].step \in {"dispatch", "error"}
                 /\ eventStore' = eventStore \cup {pub[c].event}
                 /\ run' = run /\ subscriptions' = subscriptions
                 /\ \A d \in Caller \ {c} : pub'[d] = pub[d]
  BY OnlyPublishesStore, PublishAdvances, PublishMoves DEF AutopayInv, PayInv

(* The dates of a row are those it was created with, or its end is a       *)
(* period after the one that a worker read.                                *)
LEMMA DatesMove ==
    ASSUME AutopayInv, [AutopayNext]_autopayVars, NEW s \in Sub
    PROVE  /\ SubExists(s) => /\ SubExists(s)'
                              /\ subscriptions'[s].startDate = subscriptions[s].startDate
           /\ \/ subscriptions'[s] = subscriptions[s]
              \/ /\ ~SubExists(s)
                 /\ subscriptions'[s].startDate \in Nat
                 /\ subscriptions'[s].endDate = subscriptions'[s].startDate + Period[s]
              \/ SubExists(s) /\ subscriptions'[s].endDate = subscriptions[s].endDate
              \/ /\ SubExists(s)
                 /\ \E w \in Worker : /\ run[w].pc = "renew" /\ run[w].sub = s
                                      /\ subscriptions'[s].endDate = run[w].endDate + Period[s]
  <1>1. /\ AutopayTypeOK /\ SubInv /\ SubTypeOK
        /\ subscriptions \in [Sub -> SubRow \cup {NoSubscription}]
    BY DEF AutopayInv, SubInv, SubTypeOK
  <1> DEFINE old == subscriptions[s]
             new == subscriptions'[s]
             Dates == /\ SubExists(s) => SubExists(s)' /\ new.startDate = old.startDate
                      /\ \/ new = old
                         \/ /\ ~SubExists(s) /\ new.startDate \in Nat
                            /\ new.endDate = new.startDate + Period[s]
                         \/ SubExists(s) /\ new.endDate = old.endDate
                         \/ /\ SubExists(s)
                            /\ \E w \in Worker : /\ run[w].pc = "renew" /\ run[w].sub = s
                                                 /\ new.endDate = run[w].endDate + Period[s]
  <1>2. CASE new = old
    BY <1>2 DEF SubExists
  <1>3. SubExists(s) => old \in SubRow
    BY <1>1, RowTypes
  <1>4. ASSUME SubExists(s), new = Cancelled(old) \/ new = [old EXCEPT !.status = "EXPIRED"]
        PROVE  Dates
    <2> HIDE DEF old
    <2>1. /\ Cancelled(old) \in SubRow /\ Cancelled(old).startDate = old.startDate
          /\ Cancelled(old).endDate = old.endDate
      BY <1>3, <1>4 DEF SubRow, SubStatus, Cancelled
    <2>2. /\ [old EXCEPT !.status = "EXPIRED"] \in SubRow
          /\ [old EXCEPT !.status = "EXPIRED"].startDate = old.startDate
          /\ [old EXCEPT !.status = "EXPIRED"].endDate = old.endDate
      BY <1>3, <1>4 DEF SubRow, SubStatus
    <2>3. new \in SubRow /\ new.startDate = old.startDate /\ new.endDate = old.endDate
      BY <1>4, <2>1, <2>2
    <2> QED
      BY <1>4, <2>3 DEF SubRow, SubStatus, SubExists, NoSubscription
  <1>5. ASSUME ~SubExists(s), NEW start \in Nat, new = NewSubscription(s, start)
        PROVE  Dates
    BY <1>5 DEF NewSubscription
  <1>6. ASSUME SubExists(s), NEW w \in Worker, run[w].pc = "renew", run[w].sub = s,
               new = Renewed(old, s, run[w].endDate)
        PROVE  Dates
    <2> DEFINE end == run[w].endDate + Period[s]
    <2>1. end \in Nat
      BY <1>1, <1>6, RunningJob, SubscriptionAssumption DEF RunPc
    <2>2. new = [old EXCEPT !.endDate = end, !.status = "ACTIVE"]
      BY <1>6 DEF Renewed
    <2> HIDE DEF end, old
    <2>3. /\ new \in SubRow /\ new.startDate = old.startDate /\ new.endDate = end
      BY <1>3, <1>6, <2>1, <2>2 DEF SubRow, SubStatus
    <2> QED
      BY <1>6, <2>3 DEF SubRow, SubStatus, SubExists, NoSubscription, end
  <1> HIDE DEF Dates
  <1>7. ASSUME NEW c \in Caller, SubCallStep(c) \/ SubCallFault(c)
        PROVE  Dates \/ new = old
    <2>1. [SubNext]_subVars
      BY <1>7 DEF SubNext
    <2>2. ASSUME NEW d \in Caller, subCall[d].pc = "insert", subCall[d].sub \in Sub,
                 subscriptions' = [subscriptions EXCEPT ![subCall[d].sub] =
                                      NewSubscription(subCall[d].sub, subCall[d].startDate)]
          PROVE  Dates \/ new = old
      <3>1. subCall[d].startDate \in Nat /\ ~SubExists(subCall[d].sub)
        BY <1>1, <2>2, RunningSubCall DEF SubCall, SubInv, SubIdsAreFresh, SubInserting
      <3> QED
        BY <1>1, <1>5, <2>2, <3>1
    <2>3. ASSUME NEW d \in Caller, subCall[d].sub \in Sub, SubExists(subCall[d].sub),
                 subscriptions' = [subscriptions EXCEPT ![subCall[d].sub] =
                                      Cancelled(subscriptions[subCall[d].sub])]
          PROVE  Dates \/ new = old
      BY <1>1, <1>4, <2>3
    <2> QED
      BY <1>1, <2>1, <2>2, <2>3, SubRowsMove
  <1>8. ASSUME NEW w \in Worker, RenewSubscription(w) \/ ExpireSubscription(w) \/ RenewalReplyLost(w)
        PROVE  Dates \/ new = old
    <2> DEFINE r == run[w].sub
    <2>1. /\ run[w].pc \in {"renew", "expire"}
          /\ subscriptions' = [subscriptions EXCEPT ![r] = RenewalRow(w)]
      BY <1>8 DEF RenewSubscription, ExpireSubscription, RenewalReplyLost, RenewalRow
    <2>2. r \in Sub /\ SubExists(r)
      BY <1>1, <2>1, RunningJob DEF RunPc, AutopayInv, WorkerJob
    <2>3. CASE r # s
      BY <1>1, <2>1, <2>3
    <2>4. CASE r = s
      <3>1. new = RenewalRow(w) /\ SubExists(s)
        BY <1>1, <2>1, <2>2, <2>4
      <3> QED
        BY <1>4, <1>6, <2>1, <2>4, <3>1 DEF RenewalRow
    <2> QED
      BY <2>3, <2>4
  <1>9. \/ subscriptions' = subscriptions
        \/ \E c \in Caller : SubCallStep(c) \/ SubCallFault(c)
        \/ \E w \in Worker : RenewSubscription(w) \/ ExpireSubscription(w) \/ RenewalReplyLost(w)
    <2>1. ASSUME NEW w \in Worker, Renewal(w) \/ RenewalStatementFails(w) \/ RenewalReplyLost(w)
          PROVE  \/ subscriptions' = subscriptions
                 \/ RenewSubscription(w) \/ ExpireSubscription(w) \/ RenewalReplyLost(w)
      BY <2>1 DEF Renewal, SkipInactive, FindLapsed, FindRenewable, CreateReturned,
                  CompleteReturned, PaymentThrew, RenewalPublished, RenewalPublishThrew, Catch,
                  RenewalStatementFails, subscriptionVars
    <2>2. ClientSubscribes \/ AutopayCrash => subscriptions' = subscriptions
      BY DEF ClientSubscribes, AutopayCrash, SubReturn, SubBegin, Tick
    <2> QED
      BY <1>1, <2>1, <2>2, StepKinds DEF subscriptionVars, autopayVars
  <1> QED
    BY <1>2, <1>7, <1>8, <1>9 DEF Dates

-----------------------------------------------------------------------------
(* Periods and payments.                                                   *)

LEMMA PeriodsAdd ==
    ASSUME NEW p \in Nat, NEW n \in Nat, NEW m \in Nat
    PROVE  /\ n <= m => p * n <= p * m
           /\ p * n + p = p * (n + 1)
           /\ p * n \in Nat
  <1>1. p * n \in Nat /\ p * n + p = p * (n + 1)
    OBVIOUS
  <1>2. ASSUME n <= m
        PROVE  p * n <= p * m
    <2> DEFINE k == m - n
    <2>1. k \in Nat /\ m = n + k
      BY <1>2
    <2> HIDE DEF k
    <2>2. p * m = p * n + p * k /\ p * k >= 0
      BY <2>1
    <2>3. p * n \in Nat /\ p * k \in Nat
      BY <2>1
    <2> QED
      BY <2>2, <2>3
  <1> QED
    BY <1>1, <1>2

LEMMA EndGrows ==
    ASSUME NEW s \in Sub, subscriptions[s].startDate \in Nat, NEW n \in Nat, NEW m \in Nat, n <= m
    PROVE  /\ End(s, n) <= End(s, m)
           /\ End(s, n) + Period[s] = End(s, n + 1)
           /\ End(s, n) \in Nat
  <1>1. Period[s] \in Nat
    BY SubscriptionAssumption
  <1> DEFINE x == Period[s] * n
             y == Period[s] * m
             z == Period[s] * (n + 1)
  <1>2. x <= y /\ x + Period[s] = z /\ x \in Nat /\ y \in Nat /\ z \in Nat
    BY <1>1, PeriodsAdd
  <1> HIDE DEF x, y, z
  <1>3. subscriptions[s].startDate + x <= subscriptions[s].startDate + y
        /\ (subscriptions[s].startDate + x) + Period[s] = subscriptions[s].startDate + z
        /\ subscriptions[s].startDate + x \in Nat
    BY <1>1, <1>2
  <1> QED
    BY <1>3 DEF End, x, y, z

(* A payment once completed stays completed; one more at a time.           *)
LEMMA PaidMoves ==
    ASSUME AutopayInv, [AutopayNext]_autopayVars, NEW s \in Sub, IsFiniteSet(PaidOrders(s))
    PROVE  /\ PaidOrders(s) \subseteq PaidOrders(s)'
           /\ IsFiniteSet(PaidOrders(s)')
           /\ eventStore' = eventStore => PaidOrders(s)' = PaidOrders(s)
  <1>1. eventStore' = eventStore \/ \E e : eventStore' = eventStore \cup {e}
    BY StoreMoves
  <1>2. PICK e : eventStore \subseteq eventStore' /\ eventStore' \subseteq eventStore \cup {e}
    BY <1>1
  <1>3. \A o : HasEvent(o, "PAYMENT_COMPLETED") => HasEvent(o, "PAYMENT_COMPLETED")'
    BY <1>2 DEF HasEvent
  <1>4. \A o : HasEvent(o, "PAYMENT_COMPLETED")' => HasEvent(o, "PAYMENT_COMPLETED") \/ o = e.aggregateId
    BY <1>2 DEF HasEvent
  <1>5. /\ PaidOrders(s) \subseteq PaidOrders(s)'
        /\ PaidOrders(s)' \subseteq PaidOrders(s) \cup {e.aggregateId}
    BY <1>3, <1>4 DEF PaidOrders
  <1>6. eventStore' = eventStore => PaidOrders(s)' = PaidOrders(s)
    BY DEF PaidOrders, HasEvent
  <1> QED
    BY <1>5, <1>6, CountsMore

LEMMA FreshIsUnpaid ==
    ASSUME AutopayInv, NEW o \in Order, Fresh(o), NEW s
    PROVE  o \notin PaidOrders(s)
  <1>1. "PAYMENT_COMPLETED" = EventOf("complete") /\ "complete" \in Operation
    BY DEF EventOf, Operation
  <1>2. PayInv /\ ~Exists(o)
    BY DEF AutopayInv, Fresh
  <1> QED
    BY <1>1, <1>2 DEF PaidOrders, HasEvent, PayInv, EventsShow, RowShows

(* completePayment has returned: the order it was called for is paid.      *)
LEMMA CompletedIsPaid ==
    ASSUME AutopayInv, NEW w \in Worker, CompleteReturned(w)
    PROVE  call[w].order \in PaidOrders(run[w].sub)
  <1>1. run[w].pc = "complete" /\ call[w].pc = "ok" /\ w \in Caller /\ PayInv
    BY AutopayAssumption DEF CompleteReturned, AutopayInv
  <1>2. call[w].op = "complete" /\ KeyOf[call[w].order] = RenewalKey[run[w].sub]
    BY <1>1 DEF AutopayInv, WorkerCall, Paying
  <1>3. call[w].order \in Order
    BY <1>1, RunningCall DEF PayInv
  <1>4. HasEvent(call[w].order, "PAYMENT_COMPLETED")
    BY <1>1, <1>2 DEF PayInv, CallInv, CallIsLogged, EventOf
  <1> QED
    BY <1>2, <1>3, <1>4 DEF PaidOrders

-----------------------------------------------------------------------------
(* Each part of ExtensionInv is kept.                                      *)

(* The order of a worker's call after a step.                              *)
LEMMA PayingMoves ==
    ASSUME AutopayInv, [AutopayNext]_autopayVars, NEW w \in Worker, Paying(w)'
    PROVE  \/ /\ Paying(w) /\ call'[w].order = call[w].order
              /\ run'[w].sub = run[w].sub /\ run'[w].endDate = run[w].endDate
           \/ /\ FindRenewable(w) /\ Fresh(call'[w].order) /\ call'[w].order \in Order
              /\ run'[w].sub = run[w].sub /\ run'[w].endDate = subscriptions[run[w].sub].endDate
  <1>1. /\ AutopayTypeOK /\ w \in Caller /\ call \in [Caller -> CallState]
        /\ run \in [Worker -> RunState]
    BY AutopayAssumption DEF AutopayInv, PayInv, PaymentTypeOK, AutopayTypeOK
  <1>2. CASE run'[w] = run[w] /\ (Paying(w) => call'[w].order = call[w].order)
    BY <1>2 DEF Paying
  <1>3. CASE FindRenewable(w)
    <2> DEFINE old == run[w]
               end == subscriptions[old.sub].endDate
               next == [old EXCEPT !.pc = "create", !.endDate = end]
    <2>1. old.pc = "find" /\ run' = [run EXCEPT ![w] = next]
      BY <1>3 DEF FindRenewable
    <2>2. PICK o \in Order : Fresh(o) /\ call' = [call EXCEPT ![w] = NewCall("create", o)]
      BY <1>3 DEF FindRenewable
    <2>3. old \in [pc : RunPc, job : JobId, sub : Sub, endDate : Nat]
      BY <1>1, <2>1, RunningJob DEF RunPc
    <2> HIDE DEF old, end
    <2>4. next.sub = old.sub /\ next.endDate = end
      BY <2>3
    <2> HIDE DEF next
    <2>5. run'[w] = next /\ call'[w] = NewCall("create", o)
      BY <1>1, <2>1, <2>2
    <2>6. call'[w].order = o
      BY <2>5 DEF NewCall
    <2> QED
      BY <1>3, <2>2, <2>4, <2>5, <2>6 DEF old, end
  <1>4. CASE CreateReturned(w)
    <2>1. /\ run[w].pc = "create" /\ At(w, "complete")
          /\ call' = [call EXCEPT ![w] = NewCall("complete", call[w].order)]
      BY <1>4 DEF CreateReturned
    <2>2. call'[w].order = call[w].order
      BY <1>1, <2>1 DEF NewCall
    <2>3. run'[w].sub = run[w].sub /\ run'[w].endDate = run[w].endDate
      BY <1>1, <2>1, AtProperties DEF RunPc
    <2> QED
      BY <2>1, <2>2, <2>3 DEF Paying
  <1>5. ~CompleteReturned(w) /\ ~RenewSubscription(w)
    BY <1>1, AtProperties DEF CompleteReturned, RenewSubscription, Paying, RunPc
  <1> QED
    BY <1>2, <1>3, <1>4, <1>5, WorkersMove DEF Paying

LEMMA OrdersStayOwn ==
    ASSUME AutopayInv, OrdersAreOwn, [AutopayNext]_autopayVars
    PROVE  OrdersAreOwn'
  <1> SUFFICES ASSUME NEW w \in Worker, NEW v \in Worker, Paying(w)', Paying(v)', w # v
               PROVE  call'[w].order # call'[v].order
    BY DEF OrdersAreOwn
  <1>1. \A u \in Worker : u \in Caller /\ (Paying(u) => call[u] # NoCall)
    BY AutopayAssumption DEF AutopayInv, WorkerCall, NoCall
  <1>2. \A u, x \in Worker : FindRenewable(u) /\ FindRenewable(x) => u = x
    <2> SUFFICES ASSUME NEW u \in Worker, NEW x \in Worker, FindRenewable(u), FindRenewable(x), u # x
                 PROVE  FALSE
      OBVIOUS
    <2>1. run[u].pc = "find" /\ run'[u].pc = "create"
      <3> DEFINE next == [run[u] EXCEPT !.pc = "create", !.endDate = subscriptions[run[u].sub].endDate]
      <3>1. run[u].pc = "find" /\ run' = [run EXCEPT ![u] = next]
        BY DEF FindRenewable
      <3>2. run[u] \in [pc : RunPc, job : JobId, sub : Sub, endDate : Nat]
        BY <3>1, RunningJob DEF AutopayInv, RunPc
      <3>3. next.pc = "create"
        BY <3>2
      <3> HIDE DEF next
      <3> QED
        BY <3>1, <3>3 DEF AutopayInv, AutopayTypeOK
    <2>2. run'[u] = run[u]
      BY DEF FindRenewable, AutopayInv, AutopayTypeOK
    <2> QED
      BY <2>1, <2>2
  <1>3. \A u, x \in Worker :
            FindRenewable(u) /\ Fresh(call'[u].order) /\ Paying(x) => call[x].order # call'[u].order
    BY <1>1 DEF Fresh
  <1>4. Paying(w) /\ Paying(v) => call[w].order # call[v].order
    BY DEF OrdersAreOwn
  <1> QED
    BY <1>2, <1>3, <1>4, PayingMoves

(* A row keeps the date it starts at, its payments only grow in number.    *)
LEMMA PaidEndGrows ==
    ASSUME AutopayInv, [AutopayNext]_autopayVars, NEW s \in Sub, SubExists(s),
           IsFiniteSet(PaidOrders(s)),
           NEW S, S \subseteq PaidOrders(s), NEW T, S \subseteq T, T \subseteq PaidOrders(s)'
    PROVE  /\ End(s, 1 + Cardinality(S)) <= End(s, 1 + Cardinality(T))
           /\ End(s, 1 + Cardinality(S)) \in Nat
           /\ End(s, 1 + Cardinality(T)) \in Nat
           /\ subscriptions'[s].startDate = subscriptions[s].startDate
  <1>1. subscriptions[s].startDate \in Nat
    BY RowTypes DEF AutopayInv, SubInv, SubRow
  <1>2. IsFiniteSet(PaidOrders(s)')
    BY PaidMoves
  <1>3. IsFiniteSet(T) /\ Cardinality(T) \in Nat
    BY <1>2, Counts
  <1>4. Cardinality(S) \in Nat /\ Cardinality(S) <= Cardinality(T)
    BY <1>3, Counts
  <1> DEFINE n == 1 + Cardinality(S)
             m == 1 + Cardinality(T)
  <1>5. n \in Nat /\ m \in Nat /\ n <= m
    BY <1>3, <1>4
  <1> HIDE DEF n, m
  <1>6. End(s, n) <= End(s, m) /\ End(s, n) \in Nat /\ End(s, m) \in Nat
    BY <1>1, <1>5, EndGrows
  <1> QED
    BY <1>6, DatesMove DEF n, m

LEMMA PayingStaysPaid ==
    ASSUME AutopayInv, ExtensionInv, [AutopayNext]_autopayVars, NEW w \in Worker, Paying(w)',
           NEW s \in Sub, s = run[w].sub, NEW o, o = call'[w].order
    PROVE  /\ run'[w].sub = s
           /\ run'[w].endDate <= End(s, 1 + Cardinality(PaidOrders(s)' \ {o}))
  <1>1. run[w].pc \in RunPc
    BY PayingMoves DEF Paying, RunPc, FindRenewable
  <1>2. SubExists(s) /\ run[w].endDate \in Nat
    BY <1>1, RunningJob DEF AutopayInv, WorkerJob
  <1>3. IsFiniteSet(PaidOrders(s)) /\ PaidOrders(s) \subseteq PaidOrders(s)'
    <2>1. IsFiniteSet(PaidOrders(s))
      BY DEF ExtensionInv
    <2> QED
      BY <2>1, PaidMoves
  <1>5. CASE /\ Paying(w) /\ call'[w].order = call[w].order
             /\ run'[w].sub = run[w].sub /\ run'[w].endDate = run[w].endDate
    <2> DEFINE x == End(s, 1 + Cardinality(PaidOrders(s) \ {o}))
               y == End(s, 1 + Cardinality(PaidOrders(s)' \ {o}))
    <2>1. run[w].endDate <= x
      BY <1>5 DEF ExtensionInv, ReadIsPaid
    <2>2. /\ PaidOrders(s) \ {o} \subseteq PaidOrders(s)
          /\ PaidOrders(s) \ {o} \subseteq PaidOrders(s)' \ {o}
          /\ PaidOrders(s)' \ {o} \subseteq PaidOrders(s)'
      BY <1>3
    <2>3. x <= y /\ x \in Nat /\ y \in Nat
      BY <1>2, <1>3, <2>2, PaidEndGrows
    <2> HIDE DEF x, y
    <2>4. run[w].endDate <= y
      BY <1>2, <2>1, <2>3
    <2> QED
      BY <1>5, <2>4 DEF y
  <1>6. CASE /\ FindRenewable(w) /\ Fresh(call'[w].order) /\ call'[w].order \in Order
             /\ run'[w].sub = run[w].sub /\ run'[w].endDate = subscriptions[run[w].sub].endDate
    <2>1. eventStore' = eventStore
      BY <1>6 DEF FindRenewable, busVars
    <2>2. PaidOrders(s)' = PaidOrders(s) /\ o \notin PaidOrders(s)
      BY <1>3, <1>6, <2>1, PaidMoves, FreshIsUnpaid
    <2>3. PaidOrders(s)' \ {o} = PaidOrders(s)
      BY <2>2
    <2>4. subscriptions[s].endDate <= End(s, 1 + Cardinality(PaidOrders(s)))
      BY <1>2 DEF ExtensionInv
    <2> QED
      BY <1>6, <2>3, <2>4
  <1> QED
    BY <1>5, <1>6, PayingMoves

(* Where the four steps of a renewal that runs well lead.                  *)
LEMMA RenewalGoesOn ==
    ASSUME AutopayInv, NEW w \in Worker
    PROVE  /\ FindRenewable(w) => run'[w].pc = "create"
           /\ CreateReturned(w) => run'[w].pc = "complete"
           /\ CompleteReturned(w) => /\ run'[w].pc = "renew" /\ run'[w].sub = run[w].sub
                                     /\ run'[w].endDate = run[w].endDate
           /\ RenewSubscription(w) => /\ run'[w].pc = "publishRenewed" /\ run'[w].sub = run[w].sub
                                      /\ pub'[w].step = "getLatestVersion"
  <1>1. AutopayTypeOK /\ run \in [Worker -> RunState]
    BY DEF AutopayInv, AutopayTypeOK
  <1>2. FindRenewable(w) => run'[w].pc = "create"
    <2> SUFFICES ASSUME FindRenewable(w)
                 PROVE  run'[w].pc = "create"
      OBVIOUS
    <2> DEFINE next == [run[w] EXCEPT !.pc = "create", !.endDate = subscriptions[run[w].sub].endDate]
    <2>1. run[w].pc = "find" /\ run' = [run EXCEPT ![w] = next]
      BY DEF FindRenewable
    <2>2. run[w] \in [pc : RunPc, job : JobId, sub : Sub, endDate : Nat]
      BY <1>1, <2>1, RunningJob DEF RunPc
    <2>3. next.pc = "create"
      BY <2>2
    <2> HIDE DEF next
    <2> QED
      BY <1>1, <2>1, <2>3
  <1>3. CreateReturned(w) => run'[w].pc = "complete"
    BY <1>1, AtProperties DEF CreateReturned, RunPc
  <1>4. CompleteReturned(w) => /\ run'[w].pc = "renew" /\ run'[w].sub = run[w].sub
                               /\ run'[w].endDate = run[w].endDate
    BY <1>1, AtProperties DEF CompleteReturned, RunPc
  <1>5. RenewSubscription(w) => /\ run'[w].pc = "publishRenewed" /\ run'[w].sub = run[w].sub
                                /\ pub'[w].step = "getLatestVersion"
    <2> SUFFICES ASSUME RenewSubscription(w)
                 PROVE  /\ run'[w].pc = "publishRenewed" /\ run'[w].sub = run[w].sub
                        /\ pub'[w].step = "getLatestVersion"
      OBVIOUS
    <2>1. run[w].pc = "renew" /\ At(w, "publishRenewed") /\ w \in Caller
      BY AutopayAssumption DEF RenewSubscription
    <2>2. Publish(w, run[w].sub, "SUBSCRIPTION_RENEWED")
      BY DEF RenewSubscription
    <2>3. pub \in [Caller -> PubState]
      BY DEF AutopayInv, PayInv, BusInv, BusTypeOK
    <2>4. pub'[w].step = "getLatestVersion"
      BY <2>1, <2>2, <2>3 DEF Publish
    <2> QED
      BY <1>1, <2>1, <2>4, AtProperties DEF RunPc
  <1> QED
    BY <1>2, <1>3, <1>4, <1>5

LEMMA RenewingStaysPaid ==
    ASSUME AutopayInv, ExtensionInv, [AutopayNext]_autopayVars, NEW w \in Worker,
           run'[w].pc = "renew", NEW s \in Sub, s = run[w].sub
    PROVE  /\ run'[w].sub = s
           /\ run'[w].endDate + Period[s] <= End(s, 1 + Cardinality(PaidOrders(s)'))
  <1>1. \/ run[w].pc = "renew" /\ run'[w] = run[w]
        \/ /\ CompleteReturned(w) /\ run[w].pc = "complete"
           /\ run'[w].sub = run[w].sub /\ run'[w].endDate = run[w].endDate
    BY WorkersMove, RenewalGoesOn DEF CompleteReturned
  <1>2. SubExists(s) /\ run[w].endDate \in Nat
    BY <1>1, RunningJob DEF AutopayInv, WorkerJob, RunPc
  <1>3. IsFiniteSet(PaidOrders(s)) /\ Period[s] \in Nat
    BY SubscriptionAssumption DEF ExtensionInv
  <1>4. PaidOrders(s) \subseteq PaidOrders(s)'
    BY <1>3, PaidMoves
  <1> DEFINE x == End(s, 1 + Cardinality(PaidOrders(s)))
             y == End(s, 1 + Cardinality(PaidOrders(s)'))
  <1>5. x <= y /\ x \in Nat /\ y \in Nat
    BY <1>2, <1>3, <1>4, PaidEndGrows
  <1>6. run[w].endDate + Period[s] <= x
    <2>1. CASE run[w].pc = "renew"
      BY <2>1 DEF ExtensionInv, ReadIsPaid
    <2>2. CASE CompleteReturned(w)
      <3> DEFINE o == call[w].order
                 n == Cardinality(PaidOrders(s) \ {o})
      <3>1. o \in PaidOrders(s)
        BY <2>2, CompletedIsPaid
      <3>2. n \in Nat /\ Cardinality(PaidOrders(s)) = n + 1
        <4> HIDE DEF o
        <4>1. IsFiniteSet(PaidOrders(s) \ {o}) /\ n = Cardinality(PaidOrders(s)) - 1
          BY <1>3, <3>1, FS_RemoveElement
        <4>2. n \in Nat /\ Cardinality(PaidOrders(s)) \in Nat
          BY <1>3, <4>1, FS_CardinalityType
        <4> QED
          BY <4>1, <4>2
      <3>3. run[w].endDate <= End(s, 1 + n)
        BY <2>2 DEF CompleteReturned, ExtensionInv, ReadIsPaid, Paying
      <3>4. subscriptions[s].startDate \in Nat
        BY <1>2, RowTypes DEF AutopayInv, SubInv, SubRow
      <3> HIDE DEF n
      <3> DEFINE m == 1 + n
      <3>5. m \in Nat /\ m <= m /\ 1 + Cardinality(PaidOrders(s)) = m + 1
        BY <3>2
      <3>6. run[w].endDate <= End(s, m) /\ x = End(s, m + 1)
        BY <3>3, <3>5
      <3> HIDE DEF m, x, o
      <3>7. End(s, m) \in Nat /\ End(s, m) + Period[s] = End(s, m + 1)
        BY <3>4, <3>5, EndGrows
      <3> QED
        BY <1>2, <1>3, <3>6, <3>7
    <2> QED
      BY <1>1, <2>1, <2>2
  <1> HIDE DEF x, y
  <1>7. run[w].endDate + Period[s] <= y
    BY <1>2, <1>3, <1>5, <1>6
  <1> QED
    BY <1>1, <1>7 DEF y

(* What a worker has read stays covered by the payments of its row.        *)
LEMMA ReadStaysPaid ==
    ASSUME AutopayInv, ExtensionInv, [AutopayNext]_autopayVars, NEW w \in Worker
    PROVE  ReadIsPaid(w)'
  <1>1. ASSUME NEW s \in Sub, s = run'[w].sub, NEW o, o = call'[w].order, Paying(w)'
        PROVE  run'[w].endDate <= End(s, 1 + Cardinality(PaidOrders(s) \ {o}))'
    <2>1. run'[w].sub = run[w].sub
      BY <1>1, PayingMoves
    <2>2. run'[w].endDate <= End(s, 1 + Cardinality(PaidOrders(s)' \ {o}))
      BY <1>1, <2>1, PayingStaysPaid
    <2>3. SubExists(s)
      BY <1>1, <2>1, PayingMoves DEF AutopayInv, WorkerJob, Paying, RunPc, FindRenewable
    <2>4. subscriptions'[s].startDate = subscriptions[s].startDate
      BY <2>3, DatesMove
    <2> QED
      BY <2>2, <2>4 DEF End
  <1>2. ASSUME NEW s \in Sub, s = run'[w].sub, run'[w].pc = "renew"
        PROVE  run'[w].endDate + Period[s] <= End(s, 1 + Cardinality(PaidOrders(s)))'
    <2>1. run[w].pc \in RunPc /\ run'[w].sub = run[w].sub
      BY <1>2, WorkersMove, RenewalGoesOn DEF CompleteReturned, RunPc
    <2>2. run'[w].endDate + Period[s] <= End(s, 1 + Cardinality(PaidOrders(s)'))
      BY <1>2, <2>1, RenewingStaysPaid
    <2>3. SubExists(s)
      BY <1>2, <2>1 DEF AutopayInv, WorkerJob
    <2>4. subscriptions'[s].startDate = subscriptions[s].startDate
      BY <2>3, DatesMove
    <2> QED
      BY <2>2, <2>4 DEF End
  <1>3. Paying(w)' \/ run'[w].pc = "renew" => run'[w].sub \in Sub
    <2>1. AutopayTypeOK'
      BY AutopayInvInductive DEF AutopayInv
    <2> QED
      BY <2>1 DEF AutopayTypeOK, RunState, RunPc, NoRun, Paying
  <1> QED
    BY <1>1, <1>2, <1>3 DEF ReadIsPaid, PaidOrders, HasEvent, End

(* The end of a row stays covered by the payments of its key.              *)
LEMMA RowStaysPaid ==
    ASSUME AutopayInv, ExtensionInv, [AutopayNext]_autopayVars, NEW s \in Sub, SubExists(s)'
    PROVE  subscriptions'[s].endDate <= End(s, 1 + Cardinality(PaidOrders(s)))'
  <1> DEFINE x == End(s, 1 + Cardinality(PaidOrders(s)))
             y == End(s, 1 + Cardinality(PaidOrders(s)'))
  <1>1. IsFiniteSet(PaidOrders(s)) /\ Period[s] \in Nat
    BY SubscriptionAssumption DEF ExtensionInv
  <1>2. PaidOrders(s) \subseteq PaidOrders(s)' /\ IsFiniteSet(PaidOrders(s)')
    BY <1>1, PaidMoves
  <1>3. CASE SubExists(s)
    <2>1. /\ x <= y /\ x \in Nat /\ y \in Nat
          /\ subscriptions'[s].startDate = subscriptions[s].startDate
      BY <1>1, <1>2, <1>3, PaidEndGrows
    <2>2. subscriptions[s].endDate <= x /\ subscriptions[s].endDate \in Nat
      BY <1>3, RowTypes DEF ExtensionInv, AutopayInv, SubInv, SubRow
    <2>3. \/ subscriptions'[s].endDate = subscriptions[s].endDate
          \/ \E w \in Worker : /\ run[w].pc = "renew" /\ run[w].sub = s
                               /\ subscriptions'[s].endDate = run[w].endDate + Period[s]
      BY <1>3, DatesMove
    <2>4. ASSUME NEW w \in Worker, run[w].pc = "renew", run[w].sub = s
          PROVE  run[w].endDate + Period[s] <= x /\ run[w].endDate \in Nat
      BY <2>4, RunningJob DEF ExtensionInv, ReadIsPaid, AutopayInv, RunPc
    <2>5. subscriptions'[s].endDate <= x /\ subscriptions'[s].endDate \in Nat
      <3> HIDE DEF x
      <3> QED
        BY <1>1, <2>2, <2>3, <2>4
    <2>6. subscriptions'[s].endDate <= y
      <3> HIDE DEF x, y
      <3> QED
        BY <2>1, <2>5
    <2> QED
      BY <2>1, <2>6 DEF End
  <1>4. CASE ~SubExists(s)
    <2> DEFINE start == subscriptions'[s].startDate
               n == Cardinality(PaidOrders(s)')
               p == Period[s] * (1 + n)
    <2>1. start \in Nat /\ subscriptions'[s].endDate = start + Period[s]
      BY <1>4, DatesMove DEF SubExists
    <2>2. n \in Nat
      BY <1>2, FS_CardinalityType
    <2> HIDE DEF start, n
    <2>3. p \in Nat /\ Period[s] <= p
      <3> DEFINE m == 1 + n
      <3>1. m \in Nat /\ 1 <= m
        BY <2>2
      <3> HIDE DEF m
      <3>2. Period[s] * 1 <= Period[s] * m /\ Period[s] * m \in Nat
        BY <1>1, <3>1, PeriodsAdd
      <3> QED
        BY <1>1, <3>2 DEF m
    <2> HIDE DEF p
    <2>4. subscriptions'[s].endDate <= start + p
      BY <1>1, <2>1, <2>3
    <2> QED
      BY <2>4 DEF End, start, p, n
  <1> QED
    BY <1>3, <1>4

-----------------------------------------------------------------------------
(* Announcements.                                                          *)

(* A renewal becomes due for an announcement as its payment ends.          *)
LEMMA AnnouncingMoves ==
    ASSUME AutopayInv, [AutopayNext]_autopayVars, NEW s \in Sub, NEW w \in Worker,
           w \in Announcing(s)'
    PROVE  w \in Announcing(s) \/ (CompleteReturned(w) /\ run[w].sub = s)
  <1>1. w \in Caller
    BY AutopayAssumption
  <1>2. /\ run'[w].pc \in {"renew", "publishRenewed"} /\ run'[w].sub = s
        /\ run'[w].pc = "publishRenewed" => pub'[w].step \in {"getLatestVersion", "append"}
    BY DEF Announcing
  <1>3. CASE run'[w] = run[w]
    <2>1. run[w].pc = "publishRenewed" => pub[w].step # "idle"
      BY <1>1 DEF AutopayInv, PubOfRun, RenewalPub
    <2>2. run[w].pc = "publishRenewed" => pub[w].step \in {"getLatestVersion", "append"}
      BY <1>1, <1>2, <1>3, <2>1, PublishesMove
    <2> QED
      BY <1>2, <1>3, <2>2 DEF Announcing
  <1>4. CASE CompleteReturned(w)
    BY <1>2, <1>4, RenewalGoesOn
  <1>5. CASE RenewSubscription(w)
    BY <1>2, <1>5, RenewalGoesOn DEF RenewSubscription, Announcing
  <1> QED
    BY <1>2, <1>3, <1>4, <1>5, WorkersMove, RenewalGoesOn

(* A payment once ended is awaited by nobody again.                        *)
LEMMA PaidStaysPaid ==
    ASSUME AutopayInv, [AutopayNext]_autopayVars, NEW s \in Sub, IsFiniteSet(PaidOrders(s))
    PROVE  PaidOrders(s) \ Awaited \subseteq (PaidOrders(s) \ Awaited)'
  <1> SUFFICES ASSUME NEW o \in PaidOrders(s), o \notin Awaited, o \in Awaited'
               PROVE  FALSE
    BY PaidMoves
  <1>1. PICK w \in Worker : Paying(w)' /\ o = call'[w].order
    BY DEF Awaited
  <1>2. ~(Paying(w) /\ call[w].order = o)
    BY DEF Awaited
  <1>3. Fresh(o) /\ o \in Order
    BY <1>1, <1>2, PayingMoves
  <1> QED
    BY <1>3, FreshIsUnpaid

LEMMA AnnouncingIsFinite ==
    ASSUME NEW s
    PROVE  /\ IsFiniteSet(Announcing(s)) /\ IsFiniteSet(Announcing(s)')
           /\ Cardinality(Announcing(s)) \in Nat /\ Cardinality(Announcing(s)') \in Nat
  <1>1. Announcing(s) \subseteq Caller /\ Announcing(s)' \subseteq Caller
    BY AutopayAssumption DEF Announcing
  <1> QED
    BY <1>1, CallerAssumption, Counts

(* When completePayment has returned to a worker, its payment is no longer *)
(* awaited and one more renewal is due for an announcement.                *)
LEMMA CompletionAnnounces ==
    ASSUME AutopayInv, OrdersAreOwn, [AutopayNext]_autopayVars, NEW s \in Sub,
           IsFiniteSet(PaidOrders(s)),
           NEW w \in Worker, CompleteReturned(w), run[w].sub = s
    PROVE  /\ Announcing(s)' \subseteq Announcing(s) \cup {w}
           /\ eventStore' = eventStore
           /\ Cardinality(PaidOrders(s) \ Awaited) + 1 <= Cardinality((PaidOrders(s) \ Awaited)')
  <1> DEFINE o == call[w].order
  <1>1. /\ AutopayTypeOK /\ w \in Caller /\ run \in [Worker -> RunState]
        /\ Worker \subseteq Caller
    BY AutopayAssumption DEF AutopayInv, AutopayTypeOK
  <1>2. run[w].pc = "complete" /\ run'[w].pc = "renew" /\ eventStore' = eventStore
    BY RenewalGoesOn DEF CompleteReturned, busVars
  <1>3. \A v \in Worker \ {w} : run'[v] = run[v] /\ call'[v] = call[v]
    BY <1>1 DEF CompleteReturned, At, AutopayInv, PayInv, PaymentTypeOK
  <1>4. \A v \in Worker \ {w} : ~CompleteReturned(v)
    BY <1>3, RenewalGoesOn DEF CompleteReturned
  <1>5. Announcing(s)' \subseteq Announcing(s) \cup {w}
    <2> SUFFICES ASSUME NEW v \in Announcing(s)', v # w
                 PROVE  v \in Announcing(s)
      OBVIOUS
    <2>1. v \in Worker
      BY DEF Announcing
    <2> QED
      BY <1>4, <2>1, AnnouncingMoves
  <1>6. o \in PaidOrders(s) /\ o \in Awaited
    BY <1>2, CompletedIsPaid DEF Awaited, Paying
  <1>7. o \notin Awaited'
    <2> SUFFICES ASSUME NEW v \in Worker, Paying(v)', call'[v].order = o
                 PROVE  FALSE
      BY DEF Awaited
    <2>1. v # w
      BY <1>2 DEF Paying
    <2>2. Paying(v) /\ call[v].order = o
      BY <1>3, <2>1 DEF Paying
    <2> QED
      BY <1>2, <2>1, <2>2 DEF OrdersAreOwn, Paying
  <1>8. /\ o \in (PaidOrders(s) \ Awaited)' /\ IsFiniteSet((PaidOrders(s) \ Awaited)')
        /\ PaidOrders(s) \ Awaited \subseteq (PaidOrders(s) \ Awaited)' \ {o}
    <2> HIDE DEF o
    <2>1. PaidOrders(s) \subseteq PaidOrders(s)' /\ IsFiniteSet(PaidOrders(s)')
      BY PaidMoves
    <2>2. PaidOrders(s) \ Awaited \subseteq (PaidOrders(s) \ Awaited)'
      BY PaidStaysPaid
    <2> QED
      BY <1>6, <1>7, <2>1, <2>2, Counts
  <1>9. Cardinality(PaidOrders(s) \ Awaited) + 1 <= Cardinality((PaidOrders(s) \ Awaited)')
    <2> HIDE DEF o
    <2> QED
      BY <1>8, CountsLess
  <1> QED
    BY <1>2, <1>5, <1>9

(* A renewal's event is written by a worker that owes it.                  *)
LEMMA AnnouncementWritten ==
    ASSUME AutopayInv, [AutopayNext]_autopayVars, NEW s \in Sub
    PROVE  \/ SubEventsOf(s, "SUBSCRIPTION_RENEWED")' = SubEventsOf(s, "SUBSCRIPTION_RENEWED")
           \/ \E c \in Worker : \E e :
                 /\ c \in Announcing(s) /\ c \notin Announcing(s)'
                 /\ SubEventsOf(s, "SUBSCRIPTION_RENEWED")'
                       \subseteq SubEventsOf(s, "SUBSCRIPTION_RENEWED") \cup {e}
  <1>1. CASE eventStore' = eventStore
    BY <1>1 DEF SubEventsOf
  <1>2. ASSUME NEW c \in Caller, pub[c].step = "append", pub'[c].step \in {"dispatch", "error"},
               eventStore' = eventStore \cup {pub[c].event}, run' = run
        PROVE  \/ SubEventsOf(s, "SUBSCRIPTION_RENEWED")' = SubEventsOf(s, "SUBSCRIPTION_RENEWED")
               \/ /\ c \in Announcing(s) /\ c \notin Announcing(s)'
                  /\ SubEventsOf(s, "SUBSCRIPTION_RENEWED")'
                        \subseteq SubEventsOf(s, "SUBSCRIPTION_RENEWED") \cup {pub[c].event}
    <2> DEFINE e == pub[c].event
    <2>1. CASE e.aggregateId = s /\ e.type = "SUBSCRIPTION_RENEWED"
      <3>1. RenewalPub(c)
        BY <1>2, <2>1 DEF RenewalPub
      <3>2. c \in Worker /\ run[c].pc = "publishRenewed" /\ run[c].sub = s
        BY <2>1, <3>1 DEF AutopayInv, PubOfRun
      <3> QED
        BY <1>2, <3>2 DEF Announcing, SubEventsOf
    <2>2. CASE ~(e.aggregateId = s /\ e.type = "SUBSCRIPTION_RENEWED")
      BY <1>2, <2>2 DEF SubEventsOf
    <2> QED
      BY <2>1, <2>2
  <1>3. ASSUME NEW c \in Caller, c \in Announcing(s)
        PROVE  c \in Worker
    BY <1>3 DEF Announcing
  <1> QED
    BY <1>1, <1>2, <1>3, StoreMoves

(* Renewals announced, or due to be, are at most the payments that ended.  *)
LEMMA AnnouncementsStayPaid ==
    ASSUME AutopayInv, ExtensionInv, [AutopayNext]_autopayVars, NEW s \in Sub
    PROVE  Cardinality(SubEventsOf(s, "SUBSCRIPTION_RENEWED"))' + Cardinality(Announcing(s))'
              <= Cardinality(PaidOrders(s) \ Awaited)'
  <1> DEFINE R == SubEventsOf(s, "SUBSCRIPTION_RENEWED")
             A == Announcing(s)
             P == PaidOrders(s) \ Awaited
  <1>1. IsFiniteSet(PaidOrders(s)) /\ Cardinality(R) + Cardinality(A) <= Cardinality(P)
    BY DEF ExtensionInv
  <1>2. IsFiniteSet(P) /\ IsFiniteSet(P') /\ P \subseteq P'
    <2>1. IsFiniteSet(PaidOrders(s)')
      BY <1>1, PaidMoves
    <2>2. P \subseteq PaidOrders(s) /\ P' \subseteq PaidOrders(s)'
      OBVIOUS
    <2>3. P \subseteq P'
      BY <1>1, PaidStaysPaid
    <2> QED
      BY <1>1, <2>1, <2>2, <2>3, Counts
  <1>3. /\ Cardinality(P) \in Nat /\ Cardinality(P') \in Nat
        /\ Cardinality(P) <= Cardinality(P')
    <2> HIDE DEF P
    <2> QED
      BY <1>2, Counts
  <1>4. IsFiniteSet(R) /\ Cardinality(R) \in Nat
    <2>1. IsFiniteSet(eventStore) /\ R \subseteq eventStore
      BY DEF AutopayInv, PayInv, BusInv, StoreIsFinite, SubEventsOf
    <2> QED
      BY <2>1, Counts
  <1>5. /\ IsFiniteSet(A) /\ IsFiniteSet(A')
        /\ Cardinality(A) \in Nat /\ Cardinality(A') \in Nat
    BY AnnouncingIsFinite
  <1> SUFFICES Cardinality(R') + Cardinality(A') <= Cardinality(P')
    OBVIOUS
  <1>6. CASE \E w \in Worker : CompleteReturned(w) /\ run[w].sub = s
    <2> PICK w \in Worker : CompleteReturned(w) /\ run[w].sub = s
      BY <1>6
    <2>1. /\ A' \subseteq A \cup {w} /\ eventStore' = eventStore
          /\ Cardinality(P) + 1 <= Cardinality(P')
      BY <1>1, CompletionAnnounces DEF ExtensionInv
    <2>2. R' = R
      BY <2>1 DEF SubEventsOf
    <2> HIDE DEF R, A, P
    <2>3. Cardinality(A') <= Cardinality(A) + 1
      BY <1>5, <2>1, CountsMore
    <2> QED
      BY <1>1, <1>3, <1>4, <1>5, <2>1, <2>2, <2>3
  <1>7. ASSUME ~\E w \in Worker : CompleteReturned(w) /\ run[w].sub = s
        PROVE  A' \subseteq A
    <2>1. A' \subseteq Worker
      BY DEF Announcing
    <2> QED
      BY <1>7, <2>1, AnnouncingMoves
  <1>8. CASE A' \subseteq A
    <2>1. CASE R' = R
      <3> HIDE DEF R, A, P
      <3>1. Cardinality(A') <= Cardinality(A) /\ Cardinality(R') = Cardinality(R)
        BY <1>5, <1>8, <2>1, Counts
      <3> QED
        BY <1>1, <1>3, <1>4, <1>5, <3>1
    <2>2. ASSUME NEW c \in Worker, NEW e, c \in A, c \notin A', R' \subseteq R \cup {e}
          PROVE  Cardinality(R') + Cardinality(A') <= Cardinality(P')
      <3> HIDE DEF R, A, P
      <3>1. A' \subseteq A \ {c}
        BY <1>8, <2>2
      <3>2. Cardinality(A') + 1 <= Cardinality(A)
        BY <1>5, <2>2, <3>1, CountsLess
      <3>3. IsFiniteSet(R') /\ Cardinality(R') <= Cardinality(R) + 1
        BY <1>4, <2>2, CountsMore
      <3>4. Cardinality(R') \in Nat
        BY <3>3, FS_CardinalityType
      <3> QED
        BY <1>1, <1>3, <1>4, <1>5, <3>2, <3>3, <3>4
    <2>3. R' = R \/ \E c \in Worker : \E e : c \in A /\ c \notin A' /\ R' \subseteq R \cup {e}
      BY AnnouncementWritten
    <2> QED
      BY <2>1, <2>2, <2>3
  <1> QED
    BY <1>6, <1>7, <1>8

LEMMA ExtensionInvInductive ==
    ASSUME AutopayInv, ExtensionInv, [AutopayNext]_autopayVars
    PROVE  ExtensionInv'
  <1>1. OrdersAreOwn'
    BY OrdersStayOwn DEF ExtensionInv
  <1>2. \A w \in Worker : ReadIsPaid(w)'
    BY ReadStaysPaid
  <1>3. ASSUME NEW s \in Sub
        PROVE  IsFiniteSet(PaidOrders(s))'
    <2>1. IsFiniteSet(PaidOrders(s))
      BY DEF ExtensionInv
    <2> QED
      BY <2>1, PaidMoves
  <1>4. ASSUME NEW s \in Sub
        PROVE  (SubExists(s) => subscriptions[s].endDate <= End(s, 1 + Cardinality(PaidOrders(s))))'
    BY RowStaysPaid
  <1>5. ASSUME NEW s \in Sub
        PROVE  (Cardinality(SubEventsOf(s, "SUBSCRIPTION_RENEWED")) + Cardinality(Announcing(s))
                   <= Cardinality(PaidOrders(s) \ Awaited))'
    BY AnnouncementsStayPaid
  <1> QED
    BY <1>1, <1>2, <1>3, <1>4, <1>5 DEF ExtensionInv

LEMMA ExtensionInvInitially ==
    ASSUME AutopayInit
    PROVE  ExtensionInv
  <1>1. \A w \in Worker : ~Paying(w) /\ run[w].pc = "idle"
    BY DEF AutopayInit, Paying, NoRun
  <1>2. ASSUME NEW s \in Sub
        PROVE  /\ ~SubExists(s) /\ PaidOrders(s) = {} /\ Announcing(s) = {}
               /\ SubEventsOf(s, "SUBSCRIPTION_RENEWED") = {}
    BY <1>1
       DEF AutopayInit, PaymentInit, SubInit, BusInit, SubExists, PaidOrders, HasEvent, Announcing,
           SubEventsOf
  <1>3. IsFiniteSet({}) /\ Cardinality({}) = 0
    BY FS_EmptySet
  <1>4. ASSUME NEW s \in Sub
        PROVE  /\ IsFiniteSet(PaidOrders(s)) /\ ~SubExists(s)
               /\ Cardinality(SubEventsOf(s, "SUBSCRIPTION_RENEWED")) + Cardinality(Announcing(s))
                     <= Cardinality(PaidOrders(s) \ Awaited)
    <2>1. PaidOrders(s) \ Awaited = {}
      BY <1>2
    <2> QED
      BY <1>2, <1>3, <2>1
  <1> QED
    BY <1>1, <1>4 DEF ExtensionInv, OrdersAreOwn, ReadIsPaid

(* What workers have read, and what they still announce, is covered by     *)
(* payments: the inductive invariant of the extensions.                    *)
THEOREM ExtensionInvariant == AutopaySpec => []ExtensionInv
  <1>1. AutopayInit => ExtensionInv
    BY ExtensionInvInitially
  <1>2. AutopayInv /\ ExtensionInv /\ [AutopayNext]_autopayVars => ExtensionInv'
    BY ExtensionInvInductive
  <1> QED
    BY <1>1, <1>2, AutopayInvariant, PTL DEF AutopaySpec

(* Nobody renews for free: extensions and announced renewals are at most   *)
(* the completed payments, through retries, races and crashes              *)
(* (AutopayWorker.ts:69, :98, :106).                                       *)
THEOREM ExtensionsPaid == AutopaySpec => []ExtensionsArePaid
  <1>1. AutopayInv /\ ExtensionInv => ExtensionsArePaid
    <2> SUFFICES ASSUME AutopayInv, ExtensionInv, NEW s \in Sub
                 PROVE  /\ SubExists(s) =>
                              subscriptions[s].endDate
                                 <= subscriptions[s].startDate
                                       + Period[s] * (1 + Cardinality(PaidOrders(s)))
                        /\ Cardinality(SubEventsOf(s, "SUBSCRIPTION_RENEWED"))
                              <= Cardinality(PaidOrders(s))
      BY DEF ExtensionsArePaid
    <2>1. /\ IsFiniteSet(PaidOrders(s))
          /\ Cardinality(SubEventsOf(s, "SUBSCRIPTION_RENEWED")) + Cardinality(Announcing(s))
                <= Cardinality(PaidOrders(s) \ Awaited)
      BY DEF ExtensionInv
    <2>2. /\ Cardinality(PaidOrders(s) \ Awaited) <= Cardinality(PaidOrders(s))
          /\ Cardinality(PaidOrders(s) \ Awaited) \in Nat /\ Cardinality(PaidOrders(s)) \in Nat
      BY <2>1, Counts
    <2>3. Cardinality(SubEventsOf(s, "SUBSCRIPTION_RENEWED")) \in Nat
      <3>1. /\ IsFiniteSet(eventStore)
            /\ SubEventsOf(s, "SUBSCRIPTION_RENEWED") \subseteq eventStore
        BY DEF AutopayInv, PayInv, BusInv, StoreIsFinite, SubEventsOf
      <3> QED
        BY <3>1, Counts
    <2>4. Cardinality(Announcing(s)) \in Nat
      BY AnnouncingIsFinite
    <2>5. Cardinality(SubEventsOf(s, "SUBSCRIPTION_RENEWED")) <= Cardinality(PaidOrders(s))
      BY <2>1, <2>2, <2>3, <2>4
    <2> QED
      BY <2>5 DEF ExtensionInv, End
  <1> QED
    BY <1>1, AutopayInvariant, ExtensionInvariant, PTL

-----------------------------------------------------------------------------
(* What the payments and the read model keep while workers renew.          *)

(* A step that is none of the payment operations': it adds no payment      *)
(* event, leaves the rows and the read model, and takes no call or publish *)
(* of a payment further; it may begin a call, end one or crash.            *)
ForeignStep ==
    /\ UNCHANGED <<payments, summary>>
    /\ eventStore \subseteq eventStore'
    /\ \A e \in eventStore' : e.type \in PaymentEvent => e \in eventStore
    /\ \A c \in Caller : \/ pub'[c] = pub[c]
                         \/ ~PaymentPub(c)' /\ (PaymentPub(c) => AutopayCrash)
    /\ \A c \in Caller : call'[c] = call[c] \/ call'[c].pc \in {"idle", "checkKey", "find"}

(* The publishes of subscription operations and of renewals are foreign.   *)
LEMMA ForeignPublish ==
    ASSUME BusInv, NEW c \in Caller, StoreStep(c) \/ StoreFault(c) \/ Dispatch(c),
           ~PaymentPub(c), UNCHANGED handlerVars
    PROVE  ForeignStep
  <1>1. pub[c].event.type \notin PaymentEvent /\ ~PaymentPub(c)'
    BY PublishMoves DEF PaymentPub
  <1> QED
    BY <1>1, PublishMoves DEF ForeignStep, handlerVars

LEMMA ForeignBegins ==
    ASSUME BusInv, NEW c \in Caller, NEW a, NEW t, t \notin PaymentEvent, Publish(c, a, t),
           UNCHANGED handlerVars
    PROVE  ForeignStep
  <1>1. ~PaymentPub(c) /\ ~PaymentPub(c)'
    BY PublishBegins DEF PaymentPub
  <1> QED
    BY <1>1, PublishBegins DEF ForeignStep, handlerVars

LEMMA ForeignEnds ==
    ASSUME BusInv, NEW c \in Caller, ~PaymentPub(c), Resume(c), UNCHANGED handlerVars
    PROVE  ForeignStep
  <1>1. ~PaymentPub(c)'
    BY PublishEnds DEF PaymentPub
  <1> QED
    BY <1>1, PublishEnds DEF ForeignStep, handlerVars

LEMMA SubscriptionStepIsForeign ==
    ASSUME PayInv, SubInv, NEW c \in Caller, SubCallStep(c) \/ SubCallFault(c),
           UNCHANGED handlerVars
    PROVE  UNCHANGED paymentVars \/ ForeignStep
  <1>1. SubPub(c) => ~PaymentPub(c)
    BY DEF SubPub, PaymentPub, PaymentEvent
  <1>2. subCall[c].pc = "publish" => SubPub(c)
    BY DEF SubInv, SubCallInv, PubOfSubCall
  <1>3. CASE InsertSubscription(c) \/ CancelSubscription(c)
    <2>1. PICK t \in {"SUBSCRIPTION_CREATED", "SUBSCRIPTION_CANCELLED"} :
             Publish(c, subCall[c].sub, t)
      BY <1>3 DEF InsertSubscription, CancelSubscription, SubEvent
    <2>2. t \notin PaymentEvent /\ BusInv
      BY DEF PaymentEvent, PayInv
    <2> QED
      BY <2>1, <2>2, ForeignBegins
  <1>4. CASE SubPublishReturns(c)
    BY <1>1, <1>2, <1>4, ForeignEnds DEF SubPublishReturns, PayInv
  <1>5. CASE SubPublishStep(c) \/ SubPublishFault(c)
    BY <1>1, <1>2, <1>5, ForeignPublish DEF SubPublishStep, SubPublishFault, PayInv
  <1>6. CASE UNCHANGED busVars
    BY <1>6 DEF busVars, handlerVars, paymentVars
  <1> QED
    BY <1>3, <1>4, <1>5, <1>6
       DEF SubCallStep, SubCallFault, FindActive, FindSubscription, SubStatementFails,
           InsertSubscriptionReplyLost, CancelReplyLost

LEMMA RenewalIsForeign ==
    ASSUME AutopayInv, NEW w \in Worker,
           Renewal(w) \/ RenewalStatementFails(w) \/ RenewalReplyLost(w)
    PROVE  UNCHANGED paymentVars \/ ForeignStep
  <1>1. w \in Caller /\ PayInv /\ BusInv /\ call \in [Caller -> CallState]
    BY AutopayAssumption DEF AutopayInv, PayInv, PaymentTypeOK
  <1>2. CASE RenewSubscription(w) \/ ExpireSubscription(w)
    <2>1. PICK t \in {"SUBSCRIPTION_RENEWED", "SUBSCRIPTION_EXPIRED"} : Publish(w, run[w].sub, t)
      BY <1>2 DEF RenewSubscription, ExpireSubscription
    <2>2. t \notin PaymentEvent /\ UNCHANGED handlerVars
      BY <1>2 DEF PaymentEvent, RenewSubscription, ExpireSubscription
    <2> QED
      BY <1>1, <2>1, <2>2, ForeignBegins
  <1>3. CASE RenewalPublished(w) \/ RenewalPublishThrew(w)
    <2>1. RenewalPub(w) /\ Resume(w) /\ UNCHANGED handlerVars
      BY <1>1, <1>3 DEF RenewalPublished, RenewalPublishThrew, AutopayInv, PubOfRun
    <2>2. ~PaymentPub(w)
      BY <2>1 DEF RenewalPub, PaymentPub, PaymentEvent
    <2> QED
      BY <1>1, <2>1, <2>2, ForeignEnds
  <1>4. \A op, o : NewCall(op, o).pc \in {"checkKey", "find"} /\ NoCall.pc = "idle"
    BY DEF NewCall, NoCall
  <1>5. CASE FindRenewable(w) \/ CreateReturned(w) \/ CompleteReturned(w) \/ PaymentThrew(w)
    <2>1. UNCHANGED <<busVars, payments, idempotency, summary, processing>>
      BY <1>5 DEF FindRenewable, CreateReturned, CompleteReturned, PaymentThrew
    <2>2. PICK op, o, new : new \in {NewCall(op, o), NoCall} /\ call' = [call EXCEPT ![w] = new]
      BY <1>5 DEF FindRenewable, CreateReturned, CompleteReturned, PaymentThrew
    <2>3. new.pc \in {"idle", "checkKey", "find"}
      BY <1>4, <2>2
    <2>4. \A c \in Caller : call'[c] = call[c] \/ call'[c].pc \in {"idle", "checkKey", "find"}
      BY <1>1, <2>2, <2>3
    <2> QED
      BY <2>1, <2>4 DEF ForeignStep, busVars
  <1>8. CASE UNCHANGED busVars /\ UNCHANGED handlerVars
    BY <1>8 DEF busVars, handlerVars, paymentVars
  <1> QED
    BY <1>2, <1>3, <1>5, <1>8
       DEF Renewal, SkipInactive, FindLapsed, Catch, RenewalStatementFails, RenewalReplyLost

(* Every step of the system is one of the payment operations', or foreign. *)
LEMMA PaymentOrForeign ==
    ASSUME AutopayInv, [AutopayNext]_autopayVars
    PROVE  [PaymentNext]_paymentVars \/ ForeignStep
  <1>1. AutopayTypeOK /\ PayInv /\ SubInv
    BY DEF AutopayInv
  <1>2. CASE UNCHANGED busVars /\ UNCHANGED handlerVars
    BY <1>2 DEF busVars, handlerVars, paymentVars
  <1>3. CASE UNCHANGED autopayVars
    BY <1>3 DEF autopayVars, handlerVars, paymentVars
  <1>4. CASE ClientPays
    BY <1>4 DEF ClientPays, Client, PaymentNext
  <1>5. CASE ClientSubscribes /\ UNCHANGED handlerVars
    BY <1>2, <1>5 DEF ClientSubscribes, SubReturn, SubBegin, Tick
  <1>6. CASE \E c \in Caller : CallStep(c) \/ CallFault(c)
    BY <1>6 DEF PaymentNext
  <1>7. CASE AutopayCrash
    BY <1>7 DEF AutopayCrash, BusCrash, ForeignStep, PaymentPub, NoPub, NoCall
  <1> HIDE DEF ForeignStep
  <1> QED
    BY <1>1, <1>2, <1>3, <1>4, <1>5, <1>6, <1>7, StepKinds, SubscriptionStepIsForeign,
       RenewalIsForeign

LEMMA ForeignKeepsCompletions ==
    ASSUME PayInv, PayInv', CompletionInv, ForeignStep
    PROVE  CompletionInv'
  <1>1. ASSUME NEW o \in Order
        PROVE  Announced(o, "complete")'
    <2> DEFINE old == EventsOf(o, EventOf("complete"))
               fly == Flying(o, "complete")
    <2>1. EventOf("complete") \in PaymentEvent
      BY DEF EventOf, PaymentEvent
    <2>2. old' = old
      BY <2>1 DEF ForeignStep, EventsOf
    <2>3. fly' \subseteq fly
      <3> SUFFICES ASSUME NEW c \in Caller, c \in fly'
                   PROVE  c \in fly
        BY DEF Flying
      <3>1. call'[c] = call[c] /\ call[c].pc \in {"update", "publish"}
        BY DEF Flying, ForeignStep
      <3>2. call'[c].pc = "publish" => PaymentPub(c)'
        BY DEF PayInv, CallInv, PubOfCall
      <3>3. call'[c].pc = "publish" => pub'[c] = pub[c]
        BY <3>2 DEF ForeignStep
      <3> QED
        BY <3>1, <3>3 DEF Flying
    <2>4. fly \subseteq Caller
      BY DEF Flying
    <2>5. /\ Cardinality(old) \in Nat /\ Cardinality(Caller) \in Nat /\ IsFiniteSet(fly)
      BY <2>4, CallerAssumption, Counts, EventsAreFinite DEF PayInv
    <2> HIDE DEF old, fly
    <2>6. Cardinality(fly') <= Cardinality(fly) /\ Cardinality(fly) \in Nat /\ Cardinality(fly') \in Nat
      BY <2>3, <2>5, Counts
    <2>7. Cardinality(old) + Cardinality(fly) <= Cardinality(Caller)
      BY DEF CompletionInv, Announced, old, fly
    <2>8. Cardinality(old') + Cardinality(fly') <= Cardinality(Caller)
      BY <2>2, <2>5, <2>6, <2>7
    <2> QED
      BY <2>8 DEF Announced, old, fly
  <1>2. PendingIsUnpaid'
    BY DEF CompletionInv, PendingIsUnpaid, ForeignStep
  <1> QED
    BY <1>1, <1>2 DEF CompletionInv

(* It counts nothing, and only a crash takes a delivery away.              *)
LEMMA ForeignMisses ==
    ASSUME PayInv, PayInv', ForeignStep, NEW type \in ProjectedType
    PROVE  /\ Missed(type)' >= Missed(type)
           /\ Missed(type)' = Missed(type) \/ AutopayCrash
  <1>1. type \in PaymentEvent
    BY DEF ProjectedType, PaymentEvent
  <1>2. Stored(type)' = Stored(type) /\ Counted(summary, type)' = Counted(summary, type)
    BY <1>1 DEF ForeignStep, Stored
  <1>3. Delivering(type)' \subseteq Delivering(type)
    <2> SUFFICES ASSUME NEW c \in Caller, c \in Delivering(type)'
                 PROVE  c \in Delivering(type)
      BY DEF Delivering
    <2>1. PaymentPub(c)'
      BY <1>1 DEF Delivering, PaymentPub
    <2> QED
      BY <2>1 DEF ForeignStep, Delivering
  <1>4. ~AutopayCrash => Delivering(type) \subseteq Delivering(type)'
    <2> SUFFICES ASSUME ~AutopayCrash, NEW c \in Caller, c \in Delivering(type)
                 PROVE  c \in Delivering(type)'
      BY DEF Delivering
    <2>1. PaymentPub(c)
      BY <1>1 DEF Delivering, PaymentPub
    <2> QED
      BY <2>1 DEF ForeignStep, Delivering
  <1>5. /\ Cardinality(Delivering(type)') <= Cardinality(Delivering(type))
        /\ Cardinality(Delivering(type)') \in Nat
    BY <1>3, MissedType, Counts
  <1>6. ~AutopayCrash => Delivering(type)' = Delivering(type)
    BY <1>3, <1>4
  <1> QED
    BY <1>2, <1>5, <1>6, MissedType DEF Missed

LEMMA MissedInSystem ==
    ASSUME AutopayInv, AutopayInv', [AutopayNext]_autopayVars, NEW type \in ProjectedType
    PROVE  /\ Missed(type)' >= Missed(type)
           /\ \/ Missed(type)' = Missed(type)
              \/ Crash \/ AutopayCrash \/ \E c \in Caller : CallFault(c)
  <1>1. PayInv /\ PayInv'
    BY DEF AutopayInv
  <1> QED
    BY <1>1, PaymentOrForeign, MissedMoves, ForeignMisses

(* Also while workers renew, a payment is announced as completed once for  *)
(* each caller at most, the read model counts no event twice, and a day's  *)
(* transactions are its successes and failures but for one                 *)
(* (PaymentHandler.ts:82, PaymentSummaryProjector.ts:24, :60).             *)
THEOREM PaymentsCountedInSystem ==
    AutopaySpec => /\ []RepeatsOnlyByOverlap
                   /\ []ReadModelNeverAhead
                   /\ []TotalsMissAtMostOne
  <1> DEFINE Inv == CompletionInv /\ Trails /\ TotalsInv
  <1>1. AutopayInit => Inv
    <2> SUFFICES ASSUME PaymentInit
                 PROVE  Inv
      BY DEF AutopayInit
    <2>1. CompletionInv
      <3>1. PendingIsUnpaid
        BY DEF PaymentInit, PendingIsUnpaid, NoPayment
      <3> QED
        BY <3>1, AnnouncedInitially DEF CompletionInv
    <2> QED
      BY <2>1, TrailsInitially, TotalsInitially
  <1>2. AutopayInv => \A type \in ProjectedType : Missed(type) \in Int
    BY MissedType DEF AutopayInv
  <1>3. AutopayInv' => (\A type \in ProjectedType : Missed(type) \in Int)'
    BY <1>2, PTL
  <1>4. AutopayInv /\ Inv /\ [AutopayNext]_autopayVars => Inv'
    <2> SUFFICES ASSUME AutopayInv, AutopayInv', Inv, [AutopayNext]_autopayVars
                 PROVE  Inv'
      BY AutopayInvInductive
    <2>1. PayInv /\ PayInv'
      BY DEF AutopayInv
    <2>2. CompletionInv'
      BY <2>1, PaymentOrForeign, CompletionInvInductive, ForeignKeepsCompletions
    <2>3. TotalsInv'
      <3>1. ASSUME ForeignStep
            PROVE  TotalsInv'
        BY <3>1 DEF ForeignStep, TotalsInv, TotalsMissAtMostOne
      <3> QED
        BY <2>1, <3>1, PaymentOrForeign, TotalsInvInductive
    <2>4. ASSUME NEW type \in ProjectedType
          PROVE  Missed(type)' >= 0
      <3>1. Missed(type) >= 0 /\ Missed(type) \in Int /\ Missed(type)' >= Missed(type)
        BY <1>2, MissedInSystem DEF Trails
      <3>2. Missed(type)' \in Int
        BY <1>3
      <3> QED
        BY <3>1, <3>2
    <2> QED
      BY <2>2, <2>3, <2>4 DEF Trails
  <1>5. AutopayInv /\ Inv => RepeatsOnlyByOverlap /\ ReadModelNeverAhead /\ TotalsMissAtMostOne
    BY CompletionSays, TrailsSays DEF AutopayInv, TotalsInv
  <1> HIDE DEF Inv
  <1> QED
    BY <1>1, <1>4, <1>5, AutopayInvariant, PTL DEF AutopaySpec

(* The read model falls behind for good only by a fault or a crash, though *)
(* workers and subscription calls publish beside it (EventBus.ts:44).      *)
THEOREM CountsLostByFaultsInSystem ==
    AutopaySpec =>
        [][\A type \in ProjectedType :
              Missed(type)' > Missed(type) =>
                  Crash \/ AutopayCrash \/ \E c \in Caller : CallFault(c)]_autopayVars
  <1>1. AutopayInv /\ AutopayInv' /\ [AutopayNext]_autopayVars
            => [\A type \in ProjectedType :
                   Missed(type)' > Missed(type) =>
                       Crash \/ AutopayCrash \/ \E c \in Caller : CallFault(c)]_autopayVars
    <2> SUFFICES ASSUME AutopayInv, AutopayInv', [AutopayNext]_autopayVars,
                        NEW type \in ProjectedType, Missed(type)' > Missed(type)
                 PROVE  Crash \/ AutopayCrash \/ \E c \in Caller : CallFault(c)
      OBVIOUS
    <2>1. Missed(type) \in Int
      BY MissedType DEF AutopayInv
    <2> QED
      BY <2>1, MissedInSystem
  <1> QED
    BY <1>1, AutopayInvariant, PTL DEF AutopaySpec

(* No retry of a renewal makes a payment payable a second time             *)
(* (PaymentHandler.ts:82, AutopayWorker.ts:98).                            *)
THEOREM PendingLeftInSystem == AutopaySpec => PendingIsLeftForGood
  <1>1. AutopayInv /\ [AutopayNext]_autopayVars
            => [\A o \in Order : Exists(o) /\ payments[o].status # "PENDING"
                    => payments'[o].status # "PENDING"]_payments
    <2> SUFFICES ASSUME AutopayInv, [AutopayNext]_autopayVars, NEW o \in Order,
                        Exists(o), payments[o].status # "PENDING"
                 PROVE  payments'[o].status # "PENDING"
      OBVIOUS
    <2>1. ForeignStep => payments' = payments
      BY DEF ForeignStep
    <2> QED
      BY <2>1, PaymentOrForeign, PendingNotEnteredAgain DEF AutopayInv
  <1> QED
    BY <1>1, AutopayInvariant, PTL DEF AutopaySpec, PendingIsLeftForGood
=============================================================================
