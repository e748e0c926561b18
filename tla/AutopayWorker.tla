--------------------------- MODULE AutopayWorker ---------------------------
(***************************************************************************)
(* The renewal of subscriptions (src/workers/AutopayWorker.ts) over the    *)
(* payment and subscription operations and the subscription-renewal queue. *)
(*                                                                         *)
(* BullMQ delivers a job at least once: to one worker at a time, again if  *)
(* its processor throws and attempts are left, and again if the process    *)
(* dies under it, MaxStalled times.  A worker w of this module is one of   *)
(* the concurrent invocations of processRenewal; it runs its payment calls *)
(* as the caller w of PaymentHandler.                                      *)
(***************************************************************************)
EXTENDS PaymentHandler, SubscriptionHandler, Sequences

CONSTANTS
    Worker,      \* invocations of processRenewal, a part of Caller
    RenewalKey,  \* the idempotency key of a subscription's user and planId
    JobId,       \* the jobs the renewal queue may hold at once
    Attempts,    \* opts.attempts of a renew job
    MaxStalled,  \* BullMQ's maxStalledCount
    BatchSize,   \* LIMIT of findExpiredForRenewal
    MaxFailures, \* bound on the statements that fail
    MaxCrashes   \* bound on the crashes

ASSUME AutopayAssumption ==
    /\ Worker \subseteq Caller
    /\ RenewalKey \in [Sub -> Key]
    /\ Order \cap Sub = {}
    /\ Attempts \in Nat \ {0}
    /\ BatchSize \in Nat \ {0}
    /\ MaxStalled \in Nat
    /\ MaxFailures \in Nat
    /\ MaxCrashes \in Nat

VARIABLES
    jobs,      \* the renew jobs in the queue
    run,       \* run[w]: what worker w is at
    dlq,       \* the subscriptions with a job in the dead-letter queue
    failed,    \* the subscriptions with a job that failed for good
    failures,  \* statements that have failed
    crashes    \* crashes so far

workerVars == <<jobs, run, dlq, failed>>

subscriptionVars == <<subscriptions, subCall, now>>

autopayVars == <<eventStore, pub, handlerVars, subscriptionVars, workerVars, failures, crashes>>

Client == Caller \ Worker

NoJob == [state |-> "none"]

JobState == [state : {"waiting", "active"}, sub : Sub, attemptsMade : Nat, stalls : Nat]

NoRun == [pc |-> "idle"]

RunPc == {"find", "create", "complete", "renew", "expire", "publishRenewed",
          "publishExpired", "catch", "throw"}

(* endDate is the one the worker read with the subscription, 0 before.     *)
RunState ==
    {NoRun}
    \cup [pc : {"scanFind"}]
    \cup [pc : {"scanAdd"}, due : Seq(Sub)]
    \cup [pc : RunPc, job : JobId, sub : Sub, endDate : Nat]

AutopayTypeOK ==
    /\ jobs \in [JobId -> {NoJob} \cup JobState]
    /\ run \in [Worker -> RunState]
    /\ dlq \subseteq Sub
    /\ failed \subseteq Sub
    /\ failures \in 0 .. MaxFailures
    /\ crashes \in 0 .. MaxCrashes

At(w, pc) == run' = [run EXCEPT ![w].pc = pc]

Idle(w) == run' = [run EXCEPT ![w] = NoRun]

-----------------------------------------------------------------------------
(* The scan, a job that the queue repeats every five minutes: one at a     *)
(* time, and behind the jobs of the scan before, but those that come back  *)
(* after a backoff or a stall.  A bound of the model, not of the queue: a   *)
(* scan starts when JobId has room for a batch.                            *)

FreeJobs == {j \in JobId : jobs[j] = NoJob}

NothingAhead ==
    \A j \in JobId : jobs[j].state = "waiting" => jobs[j].attemptsMade + jobs[j].stalls > 0

Scanning == \E w \in Worker : run[w].pc \in {"scanFind", "scanAdd"}

TakeScan(w) ==
    /\ run[w] = NoRun
    /\ ~Scanning
    /\ NothingAhead
    /\ Cardinality(FreeJobs) >= BatchSize
    /\ run' = [run EXCEPT ![w] = [pc |-> "scanFind"]]
    /\ UNCHANGED <<jobs, dlq, failed>>

Due == {s \in Sub : IsActive(s) /\ subscriptions[s].autoRenew /\ subscriptions[s].endDate <= now}

(* ORDER BY end_date LIMIT BatchSize. *)
Batches ==
    LET n == IF Cardinality(Due) < BatchSize THEN Cardinality(Due) ELSE BatchSize
    IN  {q \in [1 .. n -> Due] :
            /\ \A i, k \in 1 .. n : i < k =>
                  q[i] # q[k] /\ subscriptions[q[i]].endDate <= subscriptions[q[k]].endDate
            /\ \A i \in 1 .. n, s \in Due \ {q[k] : k \in 1 .. n} :
                  subscriptions[q[i]].endDate <= subscriptions[s].endDate}

ScanFind(w) ==
    /\ run[w].pc = "scanFind"
    /\ \E q \in Batches :
          run' = [run EXCEPT ![w] = IF q = << >> THEN NoRun ELSE [pc |-> "scanAdd", due |-> q]]
    /\ UNCHANGED <<jobs, dlq, failed>>

(* A bug: a worker does not go idle after a scan.                          *)
MutScanNeverEnds(w) ==
    /\ run[w].pc = "scanAdd"
    /\ \E j \in FreeJobs :
          jobs' = [jobs EXCEPT ![j] = [state |-> "waiting", sub |-> Head(run[w].due),
                                       attemptsMade |-> 0, stalls |-> 0]]
    /\ At(w, "idle")
    /\ UNCHANGED <<dlq, failed>>

(* A bug: a jobId without the date, which the queue knows from a failed job. *)
MutSameJobId(w) ==
    /\ run[w].pc = "scanAdd"
    /\ IF Head(run[w].due) \in failed
       THEN UNCHANGED jobs
       ELSE \E j \in FreeJobs :
               jobs' = [jobs EXCEPT ![j] = [state |-> "waiting", sub |-> Head(run[w].due),
                                            attemptsMade |-> 0, stalls |-> 0]]
    /\ run' = [run EXCEPT ![w] = IF Len(run[w].due) = 1 THEN NoRun
                                 ELSE [pc |-> "scanAdd", due |-> Tail(run[w].due)]]
    /\ UNCHANGED <<dlq, failed>>

(* The jobId carries Date.now(): no job is refused as a duplicate.         *)
ScanAdd(w) ==
    /\ run[w].pc = "scanAdd"
    /\ \E j \in FreeJobs :
          jobs' = [jobs EXCEPT ![j] = [state |-> "waiting", sub |-> Head(run[w].due),
                                       attemptsMade |-> 0, stalls |-> 0]]
    /\ run' = [run EXCEPT ![w] = IF Len(run[w].due) = 1 THEN NoRun
                                 ELSE [pc |-> "scanAdd", due |-> Tail(run[w].due)]]
    /\ UNCHANGED <<dlq, failed>>

(* The repeated job has one attempt: the next scan is its retry.           *)
ScanFails(w) ==
    /\ run[w].pc = "scanFind"
    /\ Idle(w)
    /\ UNCHANGED <<jobs, dlq, failed>>

-----------------------------------------------------------------------------
(* The queue: delivery, the end of a job, stalled jobs. *)

(* A bug: the job leaves the queue when a worker takes it, as with zpopmin. *)
MutPopJob(w, j) ==
    /\ run[w] = NoRun
    /\ jobs[j].state = "waiting"
    /\ jobs' = [jobs EXCEPT ![j] = NoJob]
    /\ run' = [run EXCEPT ![w] = [pc |-> "find", job |-> j, sub |-> jobs[j].sub, endDate |-> 0]]
    /\ UNCHANGED <<dlq, failed>>

TakeJob(w, j) ==
    /\ run[w] = NoRun
    /\ jobs[j].state = "waiting"
    /\ jobs' = [jobs EXCEPT ![j].state = "active"]
    /\ run' = [run EXCEPT ![w] = [pc |-> "find", job |-> j, sub |-> jobs[j].sub, endDate |-> 0]]
    /\ UNCHANGED <<dlq, failed>>

CompleteJob(w) ==
    /\ jobs' = [jobs EXCEPT ![run[w].job] = NoJob]
    /\ Idle(w)
    /\ UNCHANGED <<dlq, failed>>

(* A bug: the attempt is not counted.                                      *)
MutForgetAttempt(w) ==
    /\ run[w].pc = "throw"
    /\ jobs' = [jobs EXCEPT ![run[w].job].state = "waiting"]
    /\ Idle(w)
    /\ UNCHANGED <<dlq, failed>>

(* The processor throws: again after the backoff, or never again.          *)
FailJob(w) ==
    LET j == run[w].job
    IN  /\ run[w].pc = "throw"
        /\ IF jobs[j].attemptsMade + 1 < Attempts
           THEN /\ jobs' = [jobs EXCEPT ![j].state = "waiting",
                                        ![j].attemptsMade = jobs[j].attemptsMade + 1]
                /\ UNCHANGED failed
           ELSE /\ jobs' = [jobs EXCEPT ![j] = NoJob]
                /\ failed' = failed \cup {run[w].sub}
        /\ Idle(w)
        /\ UNCHANGED dlq

(* The lock of a job that nobody works on runs out.                        *)
Stall(j) ==
    /\ jobs[j].state = "active"
    /\ \A w \in Worker : "job" \in DOMAIN run[w] => run[w].job # j
    /\ IF jobs[j].stalls < MaxStalled
       THEN /\ jobs' = [jobs EXCEPT ![j].state = "waiting", ![j].stalls = jobs[j].stalls + 1]
            /\ UNCHANGED failed
       ELSE /\ jobs' = [jobs EXCEPT ![j] = NoJob]
            /\ failed' = failed \cup {jobs[j].sub}
    /\ UNCHANGED <<run, dlq>>

-----------------------------------------------------------------------------
(* processRenewal.  An await of a payment operation begins its call in the *)
(* same step; the worker goes on when the call has ended.                  *)

SkipInactive(w) ==
    /\ run[w].pc = "find"
    /\ ~IsActive(run[w].sub)
    /\ CompleteJob(w)
    /\ UNCHANGED <<busVars, handlerVars, subscriptionVars>>

FindLapsed(w) ==
    /\ run[w].pc = "find"
    /\ IsActive(run[w].sub)
    /\ ~subscriptions[run[w].sub].autoRenew
    /\ At(w, "expire")
    /\ UNCHANGED <<busVars, handlerVars, subscriptionVars, jobs, dlq, failed>>

FindRenewable(w) ==
    LET s == run[w].sub
    IN  /\ run[w].pc = "find"
        /\ IsActive(s)
        /\ subscriptions[s].autoRenew
        /\ run' = [run EXCEPT ![w].pc = "create", ![w].endDate = subscriptions[s].endDate]
        /\ \E o \in Order :
              /\ Fresh(o)
              /\ KeyOf[o] = RenewalKey[s]
              /\ call' = [call EXCEPT ![w] = NewCall("create", o)]
        /\ UNCHANGED <<busVars, payments, idempotency, summary, processing>>
        /\ UNCHANGED <<subscriptionVars, jobs, dlq, failed>>

(* A bug: the order is taken to be paid once it is created.                *)
MutSkipCompletion(w) ==
    /\ run[w].pc = "create"
    /\ call[w].pc = "ok"
    /\ At(w, "renew")
    /\ call' = [call EXCEPT ![w] = NoCall]
    /\ UNCHANGED <<busVars, payments, idempotency, summary, processing>>
    /\ UNCHANGED <<subscriptionVars, jobs, dlq, failed>>

CreateReturned(w) ==
    /\ run[w].pc = "create"
    /\ call[w].pc = "ok"
    /\ At(w, "complete")
    /\ call' = [call EXCEPT ![w] = NewCall("complete", call[w].order)]
    /\ UNCHANGED <<busVars, payments, idempotency, summary, processing>>
    /\ UNCHANGED <<subscriptionVars, jobs, dlq, failed>>

CompleteReturned(w) ==
    /\ run[w].pc = "complete"
    /\ call[w].pc = "ok"
    /\ At(w, "renew")
    /\ call' = [call EXCEPT ![w] = NoCall]
    /\ UNCHANGED <<busVars, payments, idempotency, summary, processing>>
    /\ UNCHANGED <<subscriptionVars, jobs, dlq, failed>>

PaymentThrew(w) ==
    /\ run[w].pc \in {"create", "complete"}
    /\ call[w].pc = "error"
    /\ At(w, "catch")
    /\ call' = [call EXCEPT ![w] = NoCall]
    /\ UNCHANGED <<busVars, payments, idempotency, summary, processing>>
    /\ UNCHANGED <<subscriptionVars, jobs, dlq, failed>>

(* A bug: the renewal sets the whole row.                                  *)
MutRenewTurnsOn(row, s, read) ==
    [row EXCEPT !.endDate = read + Period[s], !.status = "ACTIVE", !.autoRenew = TRUE]

(* UPDATE ... SET end_date, status = ACTIVE: no condition on the row; the  *)
(* new end is counted from the one the worker read.                        *)
Renewed(row, s, read) == [row EXCEPT !.endDate = read + Period[s], !.status = "ACTIVE"]

RenewSubscription(w) ==
    LET s == run[w].sub
    IN  /\ run[w].pc = "renew"
        /\ subscriptions' = [subscriptions EXCEPT
                                ![s] = Renewed(subscriptions[s], s, run[w].endDate)]
        /\ Publish(w, s, "SUBSCRIPTION_RENEWED")
        /\ At(w, "publishRenewed")
        /\ UNCHANGED <<handlerVars, subCall, now, jobs, dlq, failed>>

ExpireSubscription(w) ==
    LET s == run[w].sub
    IN  /\ run[w].pc = "expire"
        /\ subscriptions' = [subscriptions EXCEPT ![s].status = "EXPIRED"]
        /\ Publish(w, s, "SUBSCRIPTION_EXPIRED")
        /\ At(w, "publishExpired")
        /\ UNCHANGED <<handlerVars, subCall, now, jobs, dlq, failed>>

RenewalPublished(w) ==
    /\ run[w].pc \in {"publishRenewed", "publishExpired"}
    /\ pub[w].step = "published"
    /\ Resume(w)
    /\ CompleteJob(w)
    /\ UNCHANGED <<handlerVars, subscriptionVars>>

(* What throws before the try block, or in the expiry, is not caught.      *)
RenewalPublishThrew(w) ==
    /\ run[w].pc \in {"publishRenewed", "publishExpired"}
    /\ pub[w].step = "error"
    /\ Resume(w)
    /\ At(w, IF run[w].pc = "publishRenewed" THEN "catch" ELSE "throw")
    /\ UNCHANGED <<handlerVars, subscriptionVars, jobs, dlq, failed>>

(* A bug: one attempt too early.                                           *)
MutLastAttempt(j) == jobs[j].attemptsMade + 2 >= Attempts

LastAttempt(j) == jobs[j].attemptsMade + 1 >= Attempts

Catch(w) ==
    /\ run[w].pc = "catch"
    /\ dlq' = IF LastAttempt(run[w].job) THEN dlq \cup {run[w].sub} ELSE dlq
    /\ At(w, "throw")
    /\ UNCHANGED <<busVars, handlerVars, subscriptionVars, jobs, failed>>

(* A statement of processRenewal itself throws, without effect or with it. *)
RenewalStatementFails(w) ==
    /\ "rejected" \in DbFault
    /\ run[w].pc \in {"find", "expire", "renew"}
    /\ At(w, IF run[w].pc = "renew" THEN "catch" ELSE "throw")
    /\ UNCHANGED <<busVars, handlerVars, subscriptionVars, jobs, dlq, failed>>

RenewalReplyLost(w) ==
    LET s == run[w].sub
    IN  /\ "replyLost" \in DbFault
        /\ run[w].pc \in {"expire", "renew"}
        /\ subscriptions' = [subscriptions EXCEPT
              ![s] = IF run[w].pc = "renew"
                     THEN Renewed(subscriptions[s], s, run[w].endDate)
                     ELSE [subscriptions[s] EXCEPT !.status = "EXPIRED"]]
        /\ At(w, IF run[w].pc = "renew" THEN "catch" ELSE "throw")
        /\ UNCHANGED <<busVars, handlerVars, subCall, now, jobs, dlq, failed>>

-----------------------------------------------------------------------------
(* The process dies: Redis keeps the jobs.                                 *)
AutopayCrash ==
    /\ crashes < MaxCrashes
    /\ BusCrash
    /\ call' = [c \in Caller |-> NoCall]
    /\ subCall' = [c \in Caller |-> NoSubCall]
    /\ run' = [w \in Worker |-> NoRun]
    /\ crashes' = crashes + 1
    /\ UNCHANGED <<payments, idempotency, summary, processing, subscriptions, now,
                   jobs, dlq, failed, failures>>

AutopayInit ==
    /\ PaymentInit
    /\ SubInit
    /\ jobs = [j \in JobId |-> NoJob]
    /\ run = [w \in Worker |-> NoRun]
    /\ dlq = {}
    /\ failed = {}
    /\ failures = 0
    /\ crashes = 0

(* What a worker does between two jobs.                                    *)
Scan(w) == TakeScan(w) \/ ScanFind(w) \/ ScanAdd(w)

Renewal(w) ==
    \/ SkipInactive(w)
    \/ FindLapsed(w)
    \/ FindRenewable(w)
    \/ CreateReturned(w)
    \/ CompleteReturned(w)
    \/ PaymentThrew(w)
    \/ RenewSubscription(w)
    \/ ExpireSubscription(w)
    \/ RenewalPublished(w)
    \/ RenewalPublishThrew(w)
    \/ Catch(w)

(* Steps of the payment and the subscription operations in this system.    *)
PaymentStep(step) == step /\ UNCHANGED <<subscriptionVars, workerVars, failures, crashes>>

SubscriptionStep(step) ==
    step /\ UNCHANGED <<handlerVars, workerVars, failures, crashes>>

QueueOnly(step) ==
    step /\ UNCHANGED <<busVars, handlerVars, subscriptionVars, failures, crashes>>

Fault(c) ==
    \/ CallFault(c) /\ UNCHANGED <<subscriptionVars, workerVars>>
    \/ SubCallFault(c) /\ UNCHANGED <<handlerVars, workerVars>>
    \/ /\ c \in Worker
       /\ \/ RenewalStatementFails(c)
          \/ RenewalReplyLost(c)
          \/ "rejected" \in DbFault /\ ScanFails(c)
             /\ UNCHANGED <<busVars, handlerVars, subscriptionVars>>

(* What the runtime does by itself, nothing failing.                       *)
Progress(c) ==
    \/ PaymentStep(CallStep(c))
    \/ SubscriptionStep(SubCallStep(c))
    \/ c \in Worker /\ Renewal(c) /\ UNCHANGED <<failures, crashes>>
    \/ c \in Worker /\ QueueOnly(FailJob(c))

(* A client has one call at a time here, and asks for orders that exist;   *)
(* those that do not are refused without effect, as in PaymentNext.        *)
AutopayNext ==
    \/ \E c \in Client :
          \/ \E op \in PaymentOp, o \in Order :
                /\ subCall[c] = NoSubCall
                /\ op = "create" \/ Exists(o)
                /\ PaymentStep(Begin(c, op, o))
          \/ PaymentStep(Return(c))
          \/ \E op \in SubOp, s \in Sub :
                call[c] = NoCall /\ SubscriptionStep(SubBegin(c, op, s))
          \/ SubscriptionStep(SubReturn(c))
    \/ \E c \in Caller : Progress(c)
    \/ \E c \in Caller :
          /\ failures < MaxFailures
          /\ Fault(c)
          /\ failures' = failures + 1
          /\ UNCHANGED crashes
    \/ \E w \in Worker :
          \/ QueueOnly(Scan(w))
          \/ \E j \in JobId : QueueOnly(TakeJob(w, j))
    \/ \E j \in JobId : QueueOnly(Stall(j))
    \/ \E k \in Key : PaymentStep(ExpireKey(k))
    \/ SubscriptionStep(Tick)
    \/ AutopayCrash

AutopaySpec == AutopayInit /\ [][AutopayNext]_autopayVars

(* Calls go on, the queue scans, delivers in turn and finds stalled jobs,  *)
(* and Redis lets keys expire where KeyExpires.                            *)
AutopayFairSpec ==
    /\ AutopaySpec
    /\ \A c \in Caller : WF_autopayVars(Progress(c))
    /\ \A w \in Worker : WF_autopayVars(QueueOnly(ScanFind(w) \/ ScanAdd(w)))
    /\ SF_autopayVars(\E w \in Worker : QueueOnly(TakeScan(w)))
    /\ \A j \in JobId : SF_autopayVars(\E w \in Worker : QueueOnly(TakeJob(w, j)))
    /\ \A j \in JobId : WF_autopayVars(QueueOnly(Stall(j)))
    /\ \A k \in Key : WF_autopayVars(PaymentStep(ExpireKey(k)))

-----------------------------------------------------------------------------
(* Properties with faults and crashes *)

PaidOrders(s) == {o \in Order : KeyOf[o] = RenewalKey[s] /\ HasEvent(o, "PAYMENT_COMPLETED")}

(* Nobody renews for free: the periods by which a subscription was         *)
(* extended, and the renewals announced, are at most the completed         *)
(* payments, whatever was retried, repeated or cut short by a crash.       *)
ExtensionsArePaid ==
    \A s \in Sub :
        /\ SubExists(s) =>
              subscriptions[s].endDate
                  <= subscriptions[s].startDate + Period[s] * (1 + Cardinality(PaidOrders(s)))
        /\ Cardinality(SubEventsOf(s, "SUBSCRIPTION_RENEWED")) <= Cardinality(PaidOrders(s))

(* A renew job is lost by no crash and no failure: it leaves the queue     *)
(* only when the subscription was renewed, has ended, or the job is on     *)
(* record as failed (README.md:140).                                       *)
JobsAreNotLost ==
    [][\A j \in JobId :
          jobs[j] # NoJob /\ jobs'[j] = NoJob =>
              LET s == jobs[j].sub
              IN  \/ s \in failed'
                  \/ ~IsActive(s)
                  \/ SubEventsOf(s, "SUBSCRIPTION_RENEWED") # {}
                  \/ SubEventsOf(s, "SUBSCRIPTION_EXPIRED") # {}]_jobs

(* A dead letter and the end of the retries go together: the code counts   *)
(* the attempts itself (AutopayWorker.ts:120), BullMQ does when the job has *)
(* thrown, and between the two lies an await.  Unless the process died     *)
(* there, so that the job comes back, what is in the dead-letter queue has *)
(* failed for good, or its worker is about to throw for the last time.     *)
DeadLettersHaveFailed ==
    crashes = 0 =>
        \A s \in dlq \ failed :
            \E w \in Worker :
                run[w].pc = "throw" /\ run[w].sub = s /\ LastAttempt(run[w].job)

(* Once a subscription was cancelled no worker takes up its renewal.  The  *)
(* workers that had read it before (AutopayWorker.ts:69) go on, and extend *)
(* it and make it ACTIVE again, but each at most once: neither the revived *)
(* row, nor a retry, a second job or a job delivered again after a crash   *)
(* begins another (AutopayWorker.ts:75, SubscriptionRepository.ts:80).     *)
Renewing(s) ==
    {w \in Worker : run[w].pc \in {"create", "complete", "renew"} /\ run[w].sub = s}

CancelledStopsRenewal ==
    [][\A s \in Sub : WasCancelled(s) => Renewing(s)' \subseteq Renewing(s)]_run

-----------------------------------------------------------------------------
(* Liveness *)

(* A subscription that is due is extended, or ended, or a failed renewal   *)
(* of it is on record.                                                     *)
DueIsDecided ==
    \A s \in Sub : s \in Due ~> s \notin Due \/ s \in failed

(* When statements stop failing and keys expire, every subscription that   *)
(* is due is served in the end: what failed for good is scanned again, and *)
(* a full batch does not hide the rest for ever                            *)
(* (SubscriptionRepository.ts:54, AutopayWorker.ts:150).                   *)
DueIsServed == \A s \in Sub : s \in Due ~> s \notin Due

-----------------------------------------------------------------------------
(* What the documents promise and the code does not keep *)

(* One failed statement is what three attempts are for.                    *)
OneFailureIsRetried == failures <= 1 => dlq = {}

(* A cancelled subscription does not become active again.                  *)
CancelledStaysCancelled ==
    [][\A s \in Sub :
          subscriptions[s].status = "CANCELLED" => subscriptions'[s].status # "ACTIVE"]_subscriptions
=============================================================================
