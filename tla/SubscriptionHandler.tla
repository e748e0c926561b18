------------------------ MODULE SubscriptionHandler ------------------------
(***************************************************************************)
(* The subscription operations (src/handlers/SubscriptionHandler.ts) over  *)
(* the subscriptions table and the event bus.  Time is counted in units of *)
(* which a plan lasts Period[s]; the calendar is abstracted away.          *)
(***************************************************************************)
EXTENDS EventBus, FiniteSets

CONSTANTS
    Sub,      \* the subscription ids createSubscription may draw
    User,
    UserOf,   \* the user a subscription is for
    Period,   \* the length of the plan it is for
    SubOp,    \* the operations that clients call, see SubscriptionAssumption
    MaxTime   \* bound on the clock

SubscriptionEvent ==
    {"SUBSCRIPTION_CREATED", "SUBSCRIPTION_RENEWED", "SUBSCRIPTION_CANCELLED", "SUBSCRIPTION_EXPIRED"}

ASSUME SubscriptionAssumption ==
    /\ Sub \subseteq Aggregate
    /\ UserOf \in [Sub -> User]
    /\ Period \in [Sub -> Nat \ {0}]
    /\ SubOp \subseteq {"create", "cancel"}
    /\ SubscriptionEvent \subseteq EventType
    /\ MaxTime \in Nat

VARIABLES
    subscriptions,  \* the rows of subscriptions, by subscription id
    subCall,        \* subCall[c]: the operation that caller c runs
    now

subVars == <<eventStore, pub, subscriptions, subCall, now>>

SubStatus == {"ACTIVE", "EXPIRED", "CANCELLED"}

SubRow == [status : SubStatus, autoRenew : BOOLEAN, startDate : Nat, endDate : Nat]

NoSubscription == [status |-> "none", autoRenew |-> FALSE, startDate |-> 0, endDate |-> 0]

SubPc == {"findActive", "insert", "find", "update", "publish", "ok", "error"}

NoSubCall == [pc |-> "idle"]

(* startDate is the clock as the call read it for its INSERT, 0 before.    *)
SubCall == [pc : SubPc, op : {"create", "cancel"}, sub : Sub, startDate : Nat]

SubTypeOK ==
    /\ subscriptions \in [Sub -> SubRow \cup {NoSubscription}]
    /\ subCall \in [Caller -> {NoSubCall} \cup SubCall]
    /\ now \in Nat

SubContinue(c, pc) == subCall' = [subCall EXCEPT ![c].pc = pc]

SubEvent(op) == IF op = "create" THEN "SUBSCRIPTION_CREATED" ELSE "SUBSCRIPTION_CANCELLED"

SubExists(s) == subscriptions[s] # NoSubscription

IsActive(s) == subscriptions[s].status = "ACTIVE"

-----------------------------------------------------------------------------
(* A client calls the API, and later gets the answer. *)

SubFresh(s) ==
    /\ ~SubExists(s)
    /\ \A d \in Caller : subCall[d] # NoSubCall => subCall[d].sub # s

SubBegin(c, op, s) ==
    /\ subCall[c] = NoSubCall
    /\ op \in SubOp
    /\ op = "create" => SubFresh(s)
    /\ HasRoom(s)
    /\ subCall' = [subCall EXCEPT ![c] =
                      [pc        |-> IF op = "create" THEN "findActive" ELSE "find",
                       op        |-> op,
                       sub       |-> s,
                       startDate |-> 0]]
    /\ UNCHANGED <<busVars, subscriptions, now>>

(* A bug: the finished call is not cleaned up. *)
MutSubReturnKeepsSub(c) ==
    /\ subCall[c].pc \in {"ok", "error"}
    /\ SubContinue(c, "idle")
    /\ UNCHANGED <<busVars, subscriptions, now>>

SubReturn(c) ==
    /\ subCall[c].pc \in {"ok", "error"}
    /\ subCall' = [subCall EXCEPT ![c] = NoSubCall]
    /\ UNCHANGED <<busVars, subscriptions, now>>

-----------------------------------------------------------------------------
(* createSubscription up to its publish *)

(* A bug: the check looks for the new id instead of the user.              *)
MutHasActive(s) == IsActive(s)

HasActive(s) == \E t \in Sub : UserOf[t] = UserOf[s] /\ IsActive(t)

(* findActiveByUserId; then startDate is taken from the clock.             *)
FindActive(c) ==
    /\ subCall[c].pc = "findActive"
    /\ LET s == subCall[c].sub
       IN  subCall' = [subCall EXCEPT
              ![c].pc        = IF HasActive(s) THEN "error" ELSE "insert",
              ![c].startDate = IF HasActive(s) THEN 0 ELSE now]
    /\ UNCHANGED <<busVars, subscriptions, now>>

NewSubscription(s, start) ==
    [status |-> "ACTIVE", autoRenew |-> TRUE, startDate |-> start, endDate |-> start + Period[s]]

InsertSubscription(c) ==
    LET s == subCall[c].sub
    IN  /\ subCall[c].pc = "insert"
        /\ subscriptions' = [subscriptions EXCEPT ![s] = NewSubscription(s, subCall[c].startDate)]
        /\ SubContinue(c, "publish")
        /\ Publish(c, s, SubEvent("create"))
        /\ UNCHANGED now

InsertSubscriptionReplyLost(c) ==
    LET s == subCall[c].sub
    IN  /\ "replyLost" \in DbFault
        /\ subCall[c].pc = "insert"
        /\ subscriptions' = [subscriptions EXCEPT ![s] = NewSubscription(s, subCall[c].startDate)]
        /\ SubContinue(c, "error")
        /\ UNCHANGED <<busVars, now>>

-----------------------------------------------------------------------------
(* cancelSubscription up to its publish *)

(* A bug: any subscription there is can be cancelled.                      *)
MutCancelAny(s) == SubExists(s)

Cancellable(s) == SubExists(s) /\ IsActive(s)

FindSubscription(c) ==
    /\ subCall[c].pc = "find"
    /\ SubContinue(c, IF Cancellable(subCall[c].sub) THEN "update" ELSE "error")
    /\ UNCHANGED <<busVars, subscriptions, now>>

Cancelled(row) == [row EXCEPT !.status = "CANCELLED", !.autoRenew = FALSE]

CancelSubscription(c) ==
    LET s == subCall[c].sub
    IN  /\ subCall[c].pc = "update"
        /\ subscriptions' = [subscriptions EXCEPT ![s] = Cancelled(subscriptions[s])]
        /\ SubContinue(c, "publish")
        /\ Publish(c, s, SubEvent("cancel"))
        /\ UNCHANGED now

CancelReplyLost(c) ==
    LET s == subCall[c].sub
    IN  /\ "replyLost" \in DbFault
        /\ subCall[c].pc = "update"
        /\ subscriptions' = [subscriptions EXCEPT ![s] = Cancelled(subscriptions[s])]
        /\ SubContinue(c, "error")
        /\ UNCHANGED <<busVars, now>>

SubStatementFails(c) ==
    /\ "rejected" \in DbFault
    /\ subCall[c].pc \in {"findActive", "insert", "find", "update"}
    /\ SubContinue(c, "error")
    /\ UNCHANGED <<busVars, subscriptions, now>>

-----------------------------------------------------------------------------
(* publish, and what follows it; no handler is subscribed to these events. *)

SubPublishStep(c) ==
    /\ subCall[c].pc = "publish"
    /\ StoreStep(c) \/ Dispatch(c)
    /\ UNCHANGED <<subscriptions, subCall, now>>

SubPublishFault(c) ==
    /\ subCall[c].pc = "publish"
    /\ StoreFault(c)
    /\ UNCHANGED <<subscriptions, subCall, now>>

(* A bug: publish's error is swallowed. *)
MutSubErrorSwallowed(c) ==
    /\ subCall[c].pc = "publish"
    /\ Resume(c)
    /\ SubContinue(c, "ok")
    /\ UNCHANGED <<subscriptions, now>>

SubPublishReturns(c) ==
    /\ subCall[c].pc = "publish"
    /\ Resume(c)
    /\ SubContinue(c, IF pub[c].step = "published" THEN "ok" ELSE "error")
    /\ UNCHANGED <<subscriptions, now>>

Tick ==
    /\ now < MaxTime
    /\ now' = now + 1
    /\ UNCHANGED <<busVars, subscriptions, subCall>>

SubCrash ==
    /\ BusCrash
    /\ subCall' = [c \in Caller |-> NoSubCall]
    /\ UNCHANGED <<subscriptions, now>>

SubCallStep(c) ==
    \/ FindActive(c)
    \/ InsertSubscription(c)
    \/ FindSubscription(c)
    \/ CancelSubscription(c)
    \/ SubPublishStep(c)
    \/ SubPublishReturns(c)

SubCallFault(c) ==
    \/ SubStatementFails(c)
    \/ InsertSubscriptionReplyLost(c)
    \/ CancelReplyLost(c)
    \/ SubPublishFault(c)

-----------------------------------------------------------------------------
SubInit ==
    /\ BusInit
    /\ subscriptions = [s \in Sub |-> NoSubscription]
    /\ subCall = [c \in Caller |-> NoSubCall]
    /\ now = 0

SubNext ==
    \/ \E c \in Caller :
          \/ \E op \in SubOp, s \in Sub : SubBegin(c, op, s)
          \/ SubCallStep(c)
          \/ SubCallFault(c)
          \/ SubReturn(c)
    \/ Tick
    \/ SubCrash

SubSpec == SubInit /\ [][SubNext]_subVars

-----------------------------------------------------------------------------
(* Properties of any number of overlapping calls, with faults and crashes *)

SubEventsOf(s, type) == {e \in eventStore : e.aggregateId = s /\ e.type = type}

WasCancelled(s) ==
    \/ SubEventsOf(s, "SUBSCRIPTION_CANCELLED") # {}
    \/ subscriptions[s].status = "CANCELLED"

(* A client that was told its call succeeded finds the event in the store, *)
(* and a cancelled subscription does not renew.                            *)
SubAcknowledgedIsDurable ==
    \A c \in Caller :
        subCall[c].pc = "ok" =>
            LET s == subCall[c].sub
            IN  /\ SubEventsOf(s, SubEvent(subCall[c].op)) # {}
                /\ SubExists(s)
                /\ subCall[c].op = "cancel" => ~subscriptions[s].autoRenew

ActiveOf(u) == {s \in Sub : UserOf[s] = u /\ IsActive(s)}

(* A user has one active subscription for each caller at most: only calls  *)
(* that overlap get past the check of SubscriptionHandler.ts:18 together.  *)
ActiveOnlyByOverlap == \A u \in User : Cardinality(ActiveOf(u)) <= Cardinality(Caller)

(* A subscription is announced as cancelled once for each caller at most:  *)
(* only calls that overlap get past the check of SubscriptionHandler.ts:54 *)
(* together, whatever crashed or was retried.                              *)
CancelledOnlyByOverlap ==
    \A s \in Sub :
        Cardinality(SubEventsOf(s, "SUBSCRIPTION_CANCELLED")) <= Cardinality(Caller)
=============================================================================
