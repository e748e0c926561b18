--------------------- MODULE SubscriptionHandlerProofs ---------------------
(***************************************************************************)
(* The invariants of the subscription operations, for any number of        *)
(* callers, subscriptions and users, with failed statements and crashes.   *)
(***************************************************************************)
EXTENDS SubscriptionHandler, EventLogProofs

SubOperation == {"create", "cancel"}

(* A row bears what an operation has done to it.                           *)
SubShows(s, op) ==
    /\ SubExists(s)
    /\ op = "cancel" => ~subscriptions[s].autoRenew

(* A call that goes on after its statement finds what it did in the row.   *)
SubCallFollowsRow(c) ==
    /\ subCall[c].pc \in {"findActive", "insert"} => subCall[c].op = "create"
    /\ subCall[c].pc \in {"find", "update"} => subCall[c].op = "cancel"
    /\ subCall[c].pc \in {"publish", "ok"} => SubShows(subCall[c].sub, subCall[c].op)
    /\ subCall[c].pc = "update" => SubExists(subCall[c].sub)

(* A caller publishes one of these events at the publish of its operation, *)
(* and it is the event of that operation.                                  *)
SubPub(c) ==
    pub[c].step # "idle" /\ pub[c].event.type \in {"SUBSCRIPTION_CREATED", "SUBSCRIPTION_CANCELLED"}

PubOfSubCall(c) ==
    /\ SubPub(c) <=> subCall[c].pc = "publish"
    /\ SubPub(c) =>
          /\ pub[c].event.aggregateId = subCall[c].sub
          /\ pub[c].event.type = SubEvent(subCall[c].op)

SubCallIsLogged(c) ==
    subCall[c].pc = "ok" =>
        \E e \in eventStore :
            e.aggregateId = subCall[c].sub /\ e.type = SubEvent(subCall[c].op)

SubCallInv(c) == SubCallFollowsRow(c) /\ PubOfSubCall(c) /\ SubCallIsLogged(c)

(* A subscription id that is to be inserted is one call's alone.           *)
SubInserting(c) == subCall[c].pc \in {"findActive", "insert"}

SubIdsAreFresh ==
    \A c \in Caller :
        SubInserting(c) =>
            /\ ~SubExists(subCall[c].sub)
            /\ \A d \in Caller \ {c} : SubInserting(d) => subCall[d].sub # subCall[c].sub

SubEventsShow ==
    \A e \in eventStore : \A op \in SubOperation :
        e.type = SubEvent(op) /\ e.aggregateId \in Sub => SubShows(e.aggregateId, op)

CancelledIsOff == \A s \in Sub : subscriptions[s].status = "CANCELLED" => ~subscriptions[s].autoRenew

SubInv ==
    /\ BusInv
    /\ SubTypeOK
    /\ \A c \in Caller : SubCallInv(c)
    /\ SubIdsAreFresh
    /\ SubEventsShow
    /\ CancelledIsOff

-----------------------------------------------------------------------------
(* What no step undoes: rows, that one does not renew, and events.         *)
SubGrows ==
    /\ \A s \in Sub : SubExists(s) =>
          /\ SubExists(s)'
          /\ ~subscriptions[s].autoRenew => ~subscriptions'[s].autoRenew
    /\ eventStore \subseteq eventStore'

(* Caller c alone moves.                                                   *)
OtherSubCallsStay(c) == \A d \in Caller \ {c} : subCall'[d] = subCall[d] /\ pub'[d] = pub[d]

LEMMA SubEventType ==
    ASSUME NEW op \in SubOperation
    PROVE  /\ SubEvent(op) \in EventType
           /\ SubEvent(op) \in {"SUBSCRIPTION_CREATED", "SUBSCRIPTION_CANCELLED"}
  BY SubscriptionAssumption DEF SubOperation, SubEvent, SubscriptionEvent

LEMMA SubEventOfOne ==
    ASSUME NEW op \in SubOperation, NEW other \in SubOperation, SubEvent(op) = SubEvent(other)
    PROVE  op = other
  BY DEF SubOperation, SubEvent

(* The type of a call that is running.                                     *)
LEMMA RunningSubCall ==
    ASSUME SubTypeOK, NEW c \in Caller, subCall[c].pc # "idle"
    PROVE  /\ subCall[c] \in SubCall
           /\ subCall[c].op \in SubOperation
           /\ subCall[c].sub \in Sub
  BY DEF SubTypeOK, SubCall, NoSubCall, SubOperation

LEMMA SubContinueProperties ==
    ASSUME SubTypeOK, NEW c \in Caller, NEW pc \in SubPc, subCall[c].pc # "idle", SubContinue(c, pc)
    PROVE  /\ subCall' \in [Caller -> {NoSubCall} \cup SubCall]
           /\ subCall'[c].pc = pc
           /\ subCall'[c].op = subCall[c].op
           /\ subCall'[c].sub = subCall[c].sub
           /\ \A d \in Caller \ {c} : subCall'[d] = subCall[d]
  <1>1. subCall[c] \in SubCall
    BY RunningSubCall
  <1>2. [subCall[c] EXCEPT !.pc = pc] \in SubCall
    BY <1>1 DEF SubCall
  <1>3. subCall' = [subCall EXCEPT ![c] = [subCall[c] EXCEPT !.pc = pc]]
    BY DEF SubContinue
  <1> QED
    BY <1>1, <1>2, <1>3 DEF SubTypeOK, SubCall

(* A call that does not move keeps what holds of it.                       *)
LEMMA OtherSubCallKept ==
    ASSUME SubInv, SubGrows, NEW d \in Caller, subCall'[d] = subCall[d], pub'[d] = pub[d]
    PROVE  SubCallInv(d)'
  <1>1. SubCallInv(d)
    BY DEF SubInv
  <1>2. SubCallFollowsRow(d)'
    <2>1. CASE subCall[d].pc = "idle"
      BY <2>1 DEF SubCallFollowsRow
    <2>2. CASE subCall[d].pc # "idle"
      <3>1. subCall[d].sub \in Sub
        BY <2>2, RunningSubCall DEF SubInv
      <3> QED
        BY <1>1, <3>1 DEF SubCallInv, SubCallFollowsRow, SubShows, SubGrows, SubExists
    <2> QED
      BY <2>1, <2>2
  <1>3. PubOfSubCall(d)'
    BY <1>1 DEF SubCallInv, PubOfSubCall, SubPub
  <1>4. SubCallIsLogged(d)'
    BY <1>1 DEF SubCallInv, SubCallIsLogged, SubGrows
  <1> QED
    BY <1>2, <1>3, <1>4 DEF SubCallInv

LEMMA OtherSubCallsKept ==
    ASSUME SubInv, SubGrows, NEW c \in Caller, OtherSubCallsStay(c), SubCallInv(c)'
    PROVE  \A d \in Caller : SubCallInv(d)'
  BY OtherSubCallKept DEF OtherSubCallsStay

(* An id stays fresh when no row comes but that of a call which stops      *)
(* inserting, and no other call begins to insert.                          *)
LEMMA SubFreshKept ==
    ASSUME SubInv, NEW c \in Caller, OtherSubCallsStay(c),
           SubInserting(c)' => SubInserting(c) /\ subCall'[c].sub = subCall[c].sub,
           \A s \in Sub : SubExists(s)' =>
               SubExists(s) \/ (SubInserting(c) /\ ~SubInserting(c)' /\ s = subCall[c].sub)
    PROVE  SubIdsAreFresh'
  <1> SUFFICES ASSUME NEW d \in Caller, SubInserting(d)'
               PROVE  /\ ~SubExists(subCall[d].sub)'
                      /\ \A e \in Caller \ {d} :
                            SubInserting(e)' => subCall'[e].sub # subCall'[d].sub
    BY DEF SubIdsAreFresh
  <1>1. \A e \in Caller : SubInserting(e)' => SubInserting(e) /\ subCall'[e].sub = subCall[e].sub
    BY DEF OtherSubCallsStay, SubInserting
  <1>2. subCall[d].sub \in Sub
    BY <1>1, RunningSubCall DEF SubInserting, SubInv
  <1>3. ~SubExists(subCall[d].sub)'
    BY <1>1, <1>2 DEF SubInv, SubIdsAreFresh, SubExists
  <1>4. ASSUME NEW e \in Caller \ {d}, SubInserting(e)'
        PROVE  subCall'[e].sub # subCall'[d].sub
    BY <1>1, <1>4 DEF SubInv, SubIdsAreFresh
  <1> QED
    BY <1>3, <1>4

LEMMA SubEventsKept ==
    ASSUME SubInv, SubGrows, eventStore' = eventStore
    PROVE  SubEventsShow'
  <1> SUFFICES ASSUME NEW e \in eventStore, NEW op \in SubOperation,
                      e.type = SubEvent(op), e.aggregateId \in Sub
               PROVE  SubShows(e.aggregateId, op)'
    BY DEF SubEventsShow
  <1>1. SubShows(e.aggregateId, op)
    BY DEF SubInv, SubEventsShow
  <1> QED
    BY <1>1 DEF SubShows, SubGrows, SubExists

-----------------------------------------------------------------------------
(* Steps that change nothing but the place of a call. *)

LEMMA SubCallMoves ==
    ASSUME SubInv, NEW c \in Caller, subCall' \in [Caller -> {NoSubCall} \cup SubCall],
           OtherSubCallsStay(c), UNCHANGED <<busVars, subscriptions, now>>,
           SubCallInv(c)', SubIdsAreFresh'
    PROVE  SubInv'
  <1>1. SubGrows
    BY DEF SubGrows, busVars, SubExists
  <1>2. BusInv'
    BY BusStutterKeeps DEF SubInv
  <1>3. SubTypeOK' /\ CancelledIsOff'
    BY DEF SubInv, SubTypeOK, CancelledIsOff
  <1>4. \A d \in Caller : SubCallInv(d)'
    BY <1>1, OtherSubCallsKept
  <1>5. SubEventsShow'
    BY <1>1, SubEventsKept DEF busVars
  <1> QED
    BY <1>2, <1>3, <1>4, <1>5 DEF SubInv

(* A call that is not at its publish has none of its events under way.     *)
LEMMA SubNotPublishing ==
    ASSUME SubInv, NEW c \in Caller, subCall[c].pc # "publish", pub'[c] = pub[c]
    PROVE  ~SubPub(c)'
  BY DEF SubInv, SubCallInv, PubOfSubCall, SubPub

LEMMA SubBeginKeeps ==
    ASSUME SubInv, NEW c \in Caller, NEW op \in SubOp, NEW s \in Sub, SubBegin(c, op, s)
    PROVE  SubInv'
  <1> DEFINE new == [pc        |-> IF op = "create" THEN "findActive" ELSE "find",
                     op        |-> op,
                     sub       |-> s,
                     startDate |-> 0]
  <1>1. op \in SubOperation
    BY SubscriptionAssumption DEF SubOperation
  <1>2. new \in SubCall /\ new.op = op /\ new.sub = s
    BY <1>1 DEF SubCall, SubPc, SubOperation
  <1>3. new.pc = IF op = "create" THEN "findActive" ELSE "find"
    OBVIOUS
  <1>4. subCall' = [subCall EXCEPT ![c] = new]
    BY DEF SubBegin
  <1> HIDE DEF new
  <1>5. subCall' \in [Caller -> {NoSubCall} \cup SubCall] /\ subCall'[c] = new
    BY <1>2, <1>4 DEF SubInv, SubTypeOK
  <1>6. pub' = pub /\ subscriptions' = subscriptions /\ subCall[c].pc = "idle"
    BY DEF SubBegin, busVars, NoSubCall
  <1>7. OtherSubCallsStay(c)
    BY <1>4, <1>6 DEF OtherSubCallsStay, SubInv, SubTypeOK
  <1>8. SubCallInv(c)'
    <2>1. ~SubPub(c)'
      BY <1>6, SubNotPublishing
    <2>2. SubCallFollowsRow(c)'
      BY <1>1, <1>2, <1>3, <1>5 DEF SubCallFollowsRow, SubOperation
    <2> QED
      BY <1>3, <1>5, <2>1, <2>2 DEF SubCallInv, PubOfSubCall, SubCallIsLogged
  <1>9. SubIdsAreFresh'
    <2>1. SubInserting(c)' =>
             ~SubExists(s) /\ \A d \in Caller : SubInserting(d) => subCall[d].sub # s
      BY <1>1, <1>2, <1>3, <1>5 DEF SubBegin, SubFresh, SubInserting, NoSubCall
    <2>2. \A d \in Caller \ {c} :
             SubInserting(d)' = SubInserting(d) /\ subCall'[d].sub = subCall[d].sub
      BY <1>7 DEF OtherSubCallsStay, SubInserting
    <2>3. subCall'[c].sub = s
      BY <1>2, <1>5
    <2> SUFFICES ASSUME NEW d \in Caller, SubInserting(d)'
                 PROVE  /\ ~SubExists(subCall[d].sub)'
                        /\ \A e \in Caller \ {d} :
                              SubInserting(e)' => subCall'[e].sub # subCall'[d].sub
      BY DEF SubIdsAreFresh
    <2>4. CASE d = c
      BY <1>6, <2>1, <2>2, <2>3, <2>4 DEF SubExists
    <2>5. CASE d # c
      BY <1>6, <2>1, <2>2, <2>3, <2>5 DEF SubExists, SubInv, SubIdsAreFresh
    <2> QED
      BY <2>4, <2>5
  <1> QED
    BY <1>5, <1>7, <1>8, <1>9, SubCallMoves DEF SubBegin

LEMMA SubReturnKeeps ==
    ASSUME SubInv, NEW c \in Caller, SubReturn(c)
    PROVE  SubInv'
  <1>1. subCall' = [subCall EXCEPT ![c] = NoSubCall] /\ pub' = pub /\ subscriptions' = subscriptions
    BY DEF SubReturn, busVars
  <1>2. subCall' \in [Caller -> {NoSubCall} \cup SubCall] /\ subCall'[c].pc = "idle"
    BY <1>1 DEF SubInv, SubTypeOK, NoSubCall
  <1>3. OtherSubCallsStay(c)
    BY <1>1 DEF OtherSubCallsStay, SubInv, SubTypeOK
  <1>4. SubCallInv(c)'
    <2>1. ~SubPub(c)'
      BY <1>1, SubNotPublishing DEF SubReturn
    <2> QED
      BY <1>2, <2>1 DEF SubCallInv, SubCallFollowsRow, PubOfSubCall, SubCallIsLogged
  <1>5. SubIdsAreFresh'
    BY <1>1, <1>2, <1>3, SubFreshKept DEF SubInserting, SubExists
  <1> QED
    BY <1>2, <1>3, <1>4, <1>5, SubCallMoves DEF SubReturn

(* A call that checks, finds or throws before its publish.                 *)
LEMMA SubGoesOn ==
    ASSUME SubInv, NEW c \in Caller, NEW pc \in {"insert", "update", "error"},
           UNCHANGED <<busVars, subscriptions, now>>,
           subCall[c].pc \in {"findActive", "insert", "find", "update"},
           subCall' \in [Caller -> {NoSubCall} \cup SubCall],
           subCall'[c].pc = pc,
           subCall'[c].op = subCall[c].op,
           subCall'[c].sub = subCall[c].sub,
           \A d \in Caller \ {c} : subCall'[d] = subCall[d],
           pc = "insert" => subCall[c].pc = "findActive",
           pc = "update" => subCall[c].pc = "find" /\ SubExists(subCall[c].sub)
    PROVE  SubInv'
  <1>1. OtherSubCallsStay(c) /\ pub' = pub /\ subscriptions' = subscriptions
    BY DEF OtherSubCallsStay, busVars
  <1>2. SubCallInv(c)'
    <2>1. ~SubPub(c)'
      BY <1>1, SubNotPublishing
    <2>2. SubCallFollowsRow(c)
      BY DEF SubInv, SubCallInv
    <2>3. SubCallFollowsRow(c)'
      BY <1>1, <2>2 DEF SubCallFollowsRow, SubExists
    <2> QED
      BY <2>1, <2>3 DEF SubCallInv, PubOfSubCall, SubCallIsLogged
  <1>3. SubIdsAreFresh'
    BY <1>1, SubFreshKept DEF SubInserting, SubExists
  <1> QED
    BY <1>1, <1>2, <1>3, SubCallMoves

LEMMA FindActiveKeeps ==
    ASSUME SubInv, NEW c \in Caller, FindActive(c)
    PROVE  SubInv'
  <1> DEFINE old == subCall[c]
             blocked == HasActive(old.sub)
             pc == IF blocked THEN "error" ELSE "insert"
             start == IF blocked THEN 0 ELSE now
             new == [old EXCEPT !.pc = pc, !.startDate = start]
  <1>1. old.pc = "findActive"
    BY DEF FindActive
  <1>2. subCall' = [subCall EXCEPT ![c] = new] /\ UNCHANGED <<busVars, subscriptions, now>>
    BY DEF FindActive
  <1>3. pc \in {"insert", "error"} /\ start \in Nat
    BY DEF SubInv, SubTypeOK
  <1>4. old \in SubCall
    BY <1>1, RunningSubCall DEF SubInv
  <1> HIDE DEF pc, start, blocked
  <1>5. new \in SubCall /\ new.pc = pc /\ new.op = old.op /\ new.sub = old.sub
    BY <1>3, <1>4 DEF SubCall, SubPc
  <1> HIDE DEF new
  <1>6. /\ subCall' \in [Caller -> {NoSubCall} \cup SubCall]
        /\ subCall'[c] = new
        /\ \A d \in Caller \ {c} : subCall'[d] = subCall[d]
    BY <1>2, <1>5 DEF SubInv, SubTypeOK
  <1> QED
    BY <1>1, <1>2, <1>3, <1>5, <1>6, SubGoesOn

LEMMA FindSubscriptionKeeps ==
    ASSUME SubInv, NEW c \in Caller, FindSubscription(c)
    PROVE  SubInv'
  <1>1. PICK pc \in {"update", "error"} :
           SubContinue(c, pc) /\ (pc = "update" => SubExists(subCall[c].sub))
    BY DEF FindSubscription, Cancellable
  <1> QED
    BY <1>1, SubGoesOn, SubContinueProperties DEF FindSubscription, SubInv, SubPc

LEMMA SubStatementFailsKeeps ==
    ASSUME SubInv, NEW c \in Caller, SubStatementFails(c)
    PROVE  SubInv'
  BY SubGoesOn, SubContinueProperties DEF SubStatementFails, SubInv, SubPc

-----------------------------------------------------------------------------
(* Statements on subscriptions: a row is new, or cancelled.                *)

LEMMA InsertsSubscription ==
    ASSUME SubInv, NEW c \in Caller, subCall[c].pc = "insert",
           NEW s \in Sub, s = subCall[c].sub,
           subscriptions' = [subscriptions EXCEPT ![s] = NewSubscription(s, subCall[c].startDate)],
           eventStore' = eventStore
    PROVE  /\ subscriptions' \in [Sub -> SubRow \cup {NoSubscription}]
           /\ SubGrows
           /\ SubShows(s, "create")'
           /\ CancelledIsOff'
           /\ \A t \in Sub : subscriptions[t].status = "CANCELLED"
                                 => subscriptions'[t].status = "CANCELLED"
           /\ \A t \in Sub : SubExists(t)' => SubExists(t) \/ t = s
  <1> DEFINE new == NewSubscription(s, subCall[c].startDate)
  <1>1. ~SubExists(s)
    BY DEF SubInv, SubIdsAreFresh, SubInserting
  <1>2. subCall[c].startDate \in Nat /\ Period[s] \in Nat
    BY RunningSubCall, SubscriptionAssumption DEF SubInv, SubCall
  <1>3. subCall[c].startDate + Period[s] \in Nat
    BY <1>2
  <1>4. new \in SubRow /\ new # NoSubscription /\ new.status # "CANCELLED"
    BY <1>2, <1>3 DEF NewSubscription, SubRow, SubStatus, NoSubscription
  <1> HIDE DEF new
  <1>5. subscriptions' = [subscriptions EXCEPT ![s] = new]
    BY DEF new
  <1>6. subscriptions' \in [Sub -> SubRow \cup {NoSubscription}]
    BY <1>4, <1>5 DEF SubInv, SubTypeOK
  <1>7. subscriptions'[s] = new /\ \A t \in Sub \ {s} : subscriptions'[t] = subscriptions[t]
    BY <1>5 DEF SubInv, SubTypeOK
  <1>8. SubGrows
    BY <1>1, <1>7 DEF SubGrows, SubExists
  <1>9. CancelledIsOff'
    BY <1>4, <1>7 DEF SubInv, CancelledIsOff
  <1>10. subscriptions[s].status # "CANCELLED"
    BY <1>1 DEF SubExists, NoSubscription
  <1> QED
    BY <1>4, <1>6, <1>7, <1>8, <1>9, <1>10 DEF SubExists, SubShows

LEMMA CancelsSubscription ==
    ASSUME SubInv, NEW c \in Caller, subCall[c].pc = "update",
           NEW s \in Sub, s = subCall[c].sub,
           subscriptions' = [subscriptions EXCEPT ![s] = Cancelled(subscriptions[s])],
           eventStore' = eventStore
    PROVE  /\ subscriptions' \in [Sub -> SubRow \cup {NoSubscription}]
           /\ SubGrows
           /\ SubShows(s, "cancel")'
           /\ CancelledIsOff'
           /\ subscriptions'[s].status = "CANCELLED"
           /\ \A t \in Sub : subscriptions[t].status = "CANCELLED"
                                 => subscriptions'[t].status = "CANCELLED"
           /\ \A t \in Sub : SubExists(t)' => SubExists(t)
  <1> DEFINE new == Cancelled(subscriptions[s])
  <1>1. SubExists(s)
    BY DEF SubInv, SubCallInv, SubCallFollowsRow
  <1>2. subscriptions[s] \in SubRow
    BY <1>1 DEF SubInv, SubTypeOK, SubExists
  <1>3. new \in SubRow /\ new # NoSubscription /\ new.status = "CANCELLED" /\ ~new.autoRenew
    BY <1>2 DEF Cancelled, SubRow, SubStatus, NoSubscription
  <1> HIDE DEF new
  <1>4. subscriptions' = [subscriptions EXCEPT ![s] = new]
    BY DEF new
  <1>5. subscriptions' \in [Sub -> SubRow \cup {NoSubscription}]
    BY <1>3, <1>4 DEF SubInv, SubTypeOK
  <1>6. subscriptions'[s] = new /\ \A t \in Sub \ {s} : subscriptions'[t] = subscriptions[t]
    BY <1>4 DEF SubInv, SubTypeOK
  <1>7. SubGrows
    BY <1>3, <1>6 DEF SubGrows, SubExists
  <1>8. CancelledIsOff'
    BY <1>3, <1>6 DEF SubInv, CancelledIsOff
  <1> QED
    BY <1>1, <1>3, <1>5, <1>6, <1>7, <1>8 DEF SubExists, SubShows

(* A statement that was done, and whose caller hears of an error.          *)
LEMMA SubReplyLostKeeps ==
    ASSUME SubInv, NEW c \in Caller, InsertSubscriptionReplyLost(c) \/ CancelReplyLost(c)
    PROVE  SubInv'
  <1>1. PICK s \in Sub : s = subCall[c].sub
    BY RunningSubCall DEF SubInv, InsertSubscriptionReplyLost, CancelReplyLost
  <1>2. /\ subCall[c].pc \in {"insert", "update"}
        /\ SubContinue(c, "error")
        /\ UNCHANGED <<busVars, now>>
    BY DEF InsertSubscriptionReplyLost, CancelReplyLost
  <1>3. /\ subscriptions' \in [Sub -> SubRow \cup {NoSubscription}]
        /\ SubGrows
        /\ CancelledIsOff'
        /\ \A t \in Sub : SubExists(t)' => SubExists(t) \/ (subCall[c].pc = "insert" /\ t = s)
    BY <1>1, <1>2, InsertsSubscription, CancelsSubscription
       DEF InsertSubscriptionReplyLost, CancelReplyLost, busVars
  <1>4. /\ subCall' \in [Caller -> {NoSubCall} \cup SubCall]
        /\ subCall'[c].pc = "error"
        /\ \A d \in Caller \ {c} : subCall'[d] = subCall[d]
    BY <1>2, SubContinueProperties DEF SubInv, SubPc
  <1>5. OtherSubCallsStay(c)
    BY <1>2, <1>4 DEF OtherSubCallsStay, busVars
  <1>6. SubCallInv(c)'
    <2>1. ~SubPub(c)'
      BY <1>2, SubNotPublishing DEF busVars
    <2> QED
      BY <1>4, <2>1 DEF SubCallInv, SubCallFollowsRow, PubOfSubCall, SubCallIsLogged
  <1>7. SubIdsAreFresh'
    BY <1>1, <1>3, <1>4, <1>5, SubFreshKept DEF SubInserting
  <1>8. BusInv' /\ SubTypeOK'
    BY <1>2, <1>3, <1>4, BusStutterKeeps DEF SubInv, SubTypeOK
  <1>9. \A d \in Caller : SubCallInv(d)'
    BY <1>3, <1>5, <1>6, OtherSubCallsKept
  <1>10. SubEventsShow'
    BY <1>2, <1>3, SubEventsKept DEF busVars
  <1> QED
    BY <1>3, <1>7, <1>8, <1>9, <1>10 DEF SubInv

(* A statement that was done, and whose caller goes on to publish.         *)
LEMMA SubWritesKeep ==
    ASSUME SubInv, NEW c \in Caller, InsertSubscription(c) \/ CancelSubscription(c)
    PROVE  SubInv'
  <1>1. PICK s \in Sub, op \in SubOperation : s = subCall[c].sub /\ op = subCall[c].op
    BY RunningSubCall DEF SubInv, InsertSubscription, CancelSubscription
  <1> DEFINE t == SubEvent(op)
  <1>2. /\ subCall[c].pc \in {"insert", "update"}
        /\ SubContinue(c, "publish")
        /\ now' = now
    BY DEF InsertSubscription, CancelSubscription
  <1>3. op = IF subCall[c].pc = "insert" THEN "create" ELSE "cancel"
    BY <1>1, <1>2 DEF SubInv, SubCallInv, SubCallFollowsRow
  <1>4. Publish(c, s, t)
    BY <1>1, <1>3 DEF InsertSubscription, CancelSubscription
  <1>5. t \in EventType
    BY SubEventType
  <1> HIDE DEF t
  <1>6. eventStore' = eventStore
    BY <1>4 DEF Publish
  <1>7. /\ subscriptions' \in [Sub -> SubRow \cup {NoSubscription}]
        /\ SubGrows
        /\ SubShows(s, op)'
        /\ CancelledIsOff'
        /\ \A r \in Sub : SubExists(r)' => SubExists(r) \/ (subCall[c].pc = "insert" /\ r = s)
    BY <1>1, <1>2, <1>3, <1>6, InsertsSubscription, CancelsSubscription
       DEF InsertSubscription, CancelSubscription
  <1>8. BusInv'
    BY <1>4, <1>5, SubscriptionAssumption, PublishKeeps DEF SubInv
  <1>9. /\ subCall' \in [Caller -> {NoSubCall} \cup SubCall]
        /\ subCall'[c].pc = "publish"
        /\ subCall'[c].op = op
        /\ subCall'[c].sub = s
        /\ \A d \in Caller \ {c} : subCall'[d] = subCall[d]
    BY <1>1, <1>2, SubContinueProperties DEF SubInv, SubPc
  <1>10. /\ pub'[c].step # "idle"
         /\ pub'[c].event.aggregateId = s
         /\ pub'[c].event.type = t
         /\ \A d \in Caller \ {c} : pub'[d] = pub[d]
    BY <1>4 DEF Publish, SubInv, BusInv, BusTypeOK
  <1>11. OtherSubCallsStay(c)
    BY <1>9, <1>10 DEF OtherSubCallsStay
  <1>12. SubCallInv(c)'
    <2>1. PubOfSubCall(c)'
      BY <1>9, <1>10, SubEventType DEF PubOfSubCall, SubPub, t
    <2>2. SubCallFollowsRow(c)'
      BY <1>7, <1>9 DEF SubCallFollowsRow, SubShows, SubExists
    <2> QED
      BY <1>9, <2>1, <2>2 DEF SubCallInv, SubCallIsLogged
  <1>13. \A d \in Caller : SubCallInv(d)'
    BY <1>7, <1>11, <1>12, OtherSubCallsKept
  <1>14. SubTypeOK'
    BY <1>2, <1>7, <1>9 DEF SubInv, SubTypeOK
  <1>15. SubIdsAreFresh'
    BY <1>1, <1>7, <1>9, <1>11, SubFreshKept DEF SubInserting
  <1>16. SubEventsShow'
    BY <1>6, <1>7, SubEventsKept
  <1> QED
    BY <1>7, <1>8, <1>13, <1>14, <1>15, <1>16 DEF SubInv

-----------------------------------------------------------------------------
(* The publish itself *)

(* A step of a publish, of this component's events or of others.           *)
LEMMA SubBusAdvances ==
    ASSUME SubInv, NEW c \in Caller, StoreStep(c) \/ StoreFault(c) \/ Dispatch(c),
           UNCHANGED <<subscriptions, subCall, now>>
    PROVE  SubInv'
  <1>2. /\ BusInv'
        /\ pub[c].step # "idle" /\ pub'[c].step # "idle"
        /\ pub'[c].event.aggregateId = pub[c].event.aggregateId
        /\ pub'[c].event.type = pub[c].event.type
        /\ \A d \in Caller \ {c} : pub'[d] = pub[d]
        /\ eventStore \subseteq eventStore'
        /\ eventStore' \subseteq eventStore \cup {pub[c].event}
    BY PublishMoves DEF SubInv
  <1>3. SubGrows
    BY <1>2 DEF SubGrows, SubExists
  <1>4. OtherSubCallsStay(c)
    BY <1>2 DEF OtherSubCallsStay
  <1>5. SubCallInv(c)
    BY DEF SubInv
  <1>6. SubPub(c)' <=> SubPub(c)
    BY <1>2 DEF SubPub
  <1>7. SubCallInv(c)'
    <2>1. PubOfSubCall(c)'
      BY <1>2, <1>5, <1>6 DEF SubCallInv, PubOfSubCall
    <2>2. SubCallFollowsRow(c)' /\ SubCallIsLogged(c)'
      BY <1>2, <1>5 DEF SubCallInv, SubCallFollowsRow, SubShows, SubExists, SubCallIsLogged
    <2> QED
      BY <2>1, <2>2 DEF SubCallInv
  <1>8. \A d \in Caller : SubCallInv(d)'
    BY <1>3, <1>4, <1>7, OtherSubCallsKept
  <1>9. SubTypeOK' /\ SubIdsAreFresh' /\ CancelledIsOff'
    BY DEF SubInv, SubTypeOK, SubIdsAreFresh, SubInserting, SubExists, CancelledIsOff
  <1>10. SubEventsShow'
    <2> SUFFICES ASSUME NEW e \in eventStore', NEW op \in SubOperation,
                        e.type = SubEvent(op), e.aggregateId \in Sub
                 PROVE  SubShows(e.aggregateId, op)'
      BY DEF SubEventsShow
    <2>1. SubShows(e.aggregateId, op)
      <3>1. CASE e \in eventStore
        BY <3>1 DEF SubInv, SubEventsShow
      <3>2. CASE e = pub[c].event
        <4>1. SubPub(c)
          BY <1>2, <3>2, SubEventType DEF SubPub
        <4>2. subCall[c].pc = "publish"
          BY <1>5, <4>1 DEF SubCallInv, PubOfSubCall
        <4>3. subCall[c].op \in SubOperation
          BY <4>2, RunningSubCall DEF SubInv
        <4>4. e.aggregateId = subCall[c].sub /\ op = subCall[c].op
          BY <1>5, <3>2, <4>1, <4>3, SubEventOfOne DEF SubCallInv, PubOfSubCall
        <4> QED
          BY <1>5, <4>2, <4>4 DEF SubCallInv, SubCallFollowsRow
      <3> QED
        BY <1>2, <3>1, <3>2
    <2> QED
      BY <2>1 DEF SubShows, SubExists
  <1> QED
    BY <1>2, <1>8, <1>9, <1>10 DEF SubInv

LEMMA SubPublishingKeeps ==
    ASSUME SubInv, NEW c \in Caller, SubPublishStep(c) \/ SubPublishFault(c)
    PROVE  SubInv'
  BY SubBusAdvances DEF SubPublishStep, SubPublishFault

(* Publishes of other components begin and end beside these calls.         *)
LEMMA SubOtherPublishKeeps ==
    ASSUME SubInv, NEW c \in Caller, BusInv', SubTypeOK', CancelledIsOff', SubGrows,
           UNCHANGED <<eventStore, subCall>>, \A s \in Sub : SubExists(s)' => SubExists(s),
           ~SubPub(c), ~SubPub(c)', \A d \in Caller \ {c} : pub'[d] = pub[d]
    PROVE  SubInv'
  <1>1. OtherSubCallsStay(c) /\ SubCallInv(c)
    BY DEF OtherSubCallsStay, SubInv
  <1>2. SubCallInv(c)'
    <2>1. PubOfSubCall(c)' /\ SubCallIsLogged(c)'
      BY <1>1 DEF SubCallInv, PubOfSubCall, SubCallIsLogged
    <2>2. SubCallFollowsRow(c)'
      <3>1. CASE subCall[c].pc = "idle"
        BY <3>1 DEF SubCallFollowsRow
      <3>2. CASE subCall[c].pc # "idle"
        <4>1. subCall[c].sub \in Sub
          BY <3>2, RunningSubCall DEF SubInv
        <4> QED
          BY <1>1, <4>1 DEF SubCallInv, SubCallFollowsRow, SubShows, SubGrows, SubExists
      <3> QED
        BY <3>1, <3>2
    <2> QED
      BY <2>1, <2>2 DEF SubCallInv
  <1>3. \A d \in Caller : SubCallInv(d)'
    BY <1>1, <1>2, OtherSubCallsKept
  <1>4. SubIdsAreFresh'
    BY <1>1, SubFreshKept DEF SubInserting
  <1>5. SubEventsShow'
    BY SubEventsKept
  <1> QED
    BY <1>3, <1>4, <1>5 DEF SubInv

LEMMA SubPublishReturnsKeeps ==
    ASSUME SubInv, NEW c \in Caller, SubPublishReturns(c)
    PROVE  SubInv'
  <1>1. /\ subCall[c].pc = "publish"
        /\ pub[c].step \in {"published", "error"}
        /\ Resume(c)
        /\ UNCHANGED <<eventStore, subscriptions, now>>
    BY DEF SubPublishReturns, Resume
  <1>2. PICK s \in Sub, op \in SubOperation : s = subCall[c].sub /\ op = subCall[c].op
    BY <1>1, RunningSubCall DEF SubInv
  <1>3. PICK pc \in {"error", "ok"} : SubContinue(c, pc) /\ (pc = "ok" => pub[c].step = "published")
    BY DEF SubPublishReturns
  <1>4. /\ subCall' \in [Caller -> {NoSubCall} \cup SubCall]
        /\ subCall'[c].pc = pc
        /\ subCall'[c].op = op
        /\ subCall'[c].sub = s
        /\ \A d \in Caller \ {c} : subCall'[d] = subCall[d]
    BY <1>1, <1>2, <1>3, SubContinueProperties DEF SubInv, SubPc
  <1>5. BusInv'
    BY <1>1, ResumeKeeps DEF SubInv
  <1>6. ~SubPub(c)' /\ \A d \in Caller \ {c} : pub'[d] = pub[d]
    BY <1>1 DEF Resume, NoPub, SubInv, BusInv, BusTypeOK, SubPub
  <1>7. OtherSubCallsStay(c)
    BY <1>4, <1>6 DEF OtherSubCallsStay
  <1>8. SubGrows
    BY <1>1 DEF SubGrows, SubExists
  <1>9. SubCallInv(c)'
    <2>1. SubCallInv(c)
      BY DEF SubInv
    <2>2. SubCallFollowsRow(c)'
      BY <1>1, <1>2, <1>4, <2>1 DEF SubCallInv, SubCallFollowsRow, SubShows, SubExists
    <2>3. pc = "ok" => \E e \in eventStore : e.aggregateId = s /\ e.type = SubEvent(op)
      BY <1>1, <1>2, <1>3, <2>1
         DEF SubInv, BusInv, PublishedIsStored, SubCallInv, PubOfSubCall
    <2>4. SubCallIsLogged(c)'
      BY <1>1, <1>4, <2>3 DEF SubCallIsLogged
    <2> QED
      BY <1>3, <1>4, <1>6, <2>2, <2>4 DEF SubCallInv, PubOfSubCall
  <1>10. \A d \in Caller : SubCallInv(d)'
    BY <1>7, <1>8, <1>9, OtherSubCallsKept
  <1>11. SubTypeOK' /\ CancelledIsOff'
    BY <1>1, <1>4 DEF SubInv, SubTypeOK, CancelledIsOff
  <1>12. SubIdsAreFresh'
    BY <1>1, <1>4, <1>7, SubFreshKept DEF SubInserting, SubExists
  <1>13. SubEventsShow'
    BY <1>1, <1>8, SubEventsKept
  <1> QED
    BY <1>5, <1>10, <1>11, <1>12, <1>13 DEF SubInv

-----------------------------------------------------------------------------
(* Steps of no call *)

(* What leaves rows, calls and the bus alone, the clock's step among them. *)
LEMMA SubTimePasses ==
    ASSUME SubInv, UNCHANGED <<busVars, subscriptions, subCall>>, now' \in Nat
    PROVE  SubInv'
  <1>1. BusInv' /\ SubTypeOK'
    BY BusStutterKeeps DEF SubInv, SubTypeOK
  <1>2. SubGrows /\ \A d \in Caller : subCall'[d] = subCall[d] /\ pub'[d] = pub[d]
    BY DEF SubGrows, SubExists, busVars
  <1>3. \A d \in Caller : SubCallInv(d)'
    BY <1>2, OtherSubCallKept
  <1>4. SubIdsAreFresh' /\ CancelledIsOff'
    BY DEF SubInv, SubIdsAreFresh, SubInserting, SubExists, CancelledIsOff
  <1>5. SubEventsShow'
    BY <1>2, SubEventsKept DEF busVars
  <1> QED
    BY <1>1, <1>3, <1>4, <1>5 DEF SubInv

LEMMA TickKeeps ==
    ASSUME SubInv, Tick
    PROVE  SubInv'
  <1>1. now' \in Nat
    BY DEF Tick, SubInv, SubTypeOK
  <1> QED
    BY <1>1, SubTimePasses DEF Tick

LEMMA SubCrashKeeps ==
    ASSUME SubInv, SubCrash
    PROVE  SubInv'
  <1>1. /\ subCall' = [c \in Caller |-> NoSubCall]
        /\ pub' = [c \in Caller |-> NoPub]
        /\ UNCHANGED <<eventStore, subscriptions, now>>
    BY DEF SubCrash, BusCrash
  <1>2. BusInv' /\ SubTypeOK'
    BY <1>1, BusCrashKeeps DEF SubCrash, SubInv, SubTypeOK
  <1>3. SubGrows
    BY <1>1 DEF SubGrows, SubExists
  <1>4. \A c \in Caller : subCall'[c].pc = "idle" /\ pub'[c].step = "idle"
    BY <1>1 DEF NoSubCall, NoPub
  <1>5. \A c \in Caller : SubCallInv(c)'
    BY <1>4 DEF SubCallInv, SubCallFollowsRow, PubOfSubCall, SubPub, SubCallIsLogged
  <1>6. SubIdsAreFresh'
    BY <1>4 DEF SubIdsAreFresh, SubInserting
  <1>7. CancelledIsOff'
    BY <1>1 DEF SubInv, CancelledIsOff
  <1>8. SubEventsShow'
    BY <1>1, <1>3, SubEventsKept
  <1> QED
    BY <1>2, <1>5, <1>6, <1>7, <1>8 DEF SubInv

-----------------------------------------------------------------------------
LEMMA SubInvInitially ==
    ASSUME SubInit
    PROVE  SubInv
  <1>1. BusInv
    BY BusInvInitially DEF SubInit
  <1>2. SubTypeOK
    BY DEF SubInit, SubTypeOK
  <1>3. \A c \in Caller : subCall[c].pc = "idle" /\ pub[c].step = "idle"
    BY DEF SubInit, BusInit, NoSubCall, NoPub
  <1>4. \A c \in Caller : SubCallInv(c)
    BY <1>3 DEF SubCallInv, SubCallFollowsRow, PubOfSubCall, SubPub, SubCallIsLogged
  <1>5. SubIdsAreFresh
    BY <1>3 DEF SubIdsAreFresh, SubInserting
  <1>6. SubEventsShow /\ CancelledIsOff
    BY DEF SubInit, BusInit, SubEventsShow, CancelledIsOff, NoSubscription
  <1> QED
    BY <1>1, <1>2, <1>4, <1>5, <1>6 DEF SubInv

LEMMA SubInvInductive ==
    ASSUME SubInv, [SubNext]_subVars
    PROVE  SubInv'
  <1>1. ASSUME NEW c \in Caller, NEW op \in SubOp, NEW s \in Sub, SubBegin(c, op, s)
        PROVE  SubInv'
    BY <1>1, SubBeginKeeps
  <1>2. ASSUME NEW c \in Caller, SubCallStep(c)
        PROVE  SubInv'
    BY <1>2, FindActiveKeeps, FindSubscriptionKeeps, SubWritesKeep, SubPublishingKeeps,
       SubPublishReturnsKeeps
       DEF SubCallStep
  <1>3. ASSUME NEW c \in Caller, SubCallFault(c)
        PROVE  SubInv'
    BY <1>3, SubStatementFailsKeeps, SubReplyLostKeeps, SubPublishingKeeps DEF SubCallFault
  <1>4. ASSUME NEW c \in Caller, SubReturn(c)
        PROVE  SubInv'
    BY <1>4, SubReturnKeeps
  <1>5. CASE Tick
    BY <1>5, TickKeeps
  <1>6. CASE SubCrash
    BY <1>6, SubCrashKeeps
  <1>7. CASE UNCHANGED subVars
    BY <1>7, SubTimePasses DEF subVars, busVars, SubInv, SubTypeOK
  <1> QED
    BY <1>1, <1>2, <1>3, <1>4, <1>5, <1>6, <1>7 DEF SubNext

(* The inductive invariant of the subscription operations.                 *)
THEOREM SubscriptionInvariant == SubSpec => []SubInv
  <1>1. SubInit => SubInv
    BY SubInvInitially
  <1>2. SubInv /\ [SubNext]_subVars => SubInv'
    BY SubInvInductive
  <1> QED
    BY <1>1, <1>2, PTL DEF SubSpec

(* Every variable of the subscription operations keeps its type.           *)
THEOREM SubTypeCorrect == SubSpec => []SubTypeOK
  BY SubscriptionInvariant, PTL DEF SubInv

(* Nothing turns auto_renew of a cancelled subscription back on.           *)
RenewalStaysOff == \A s \in Sub : WasCancelled(s) => ~subscriptions[s].autoRenew

(* What the inductive invariant says to the clients of the operations.     *)
LEMMA SubInvSays ==
    ASSUME SubInv
    PROVE  RenewalStaysOff /\ SubAcknowledgedIsDurable
  <1>1. ASSUME NEW s \in Sub, WasCancelled(s)
        PROVE  ~subscriptions[s].autoRenew
    <2>1. ASSUME NEW op \in SubOperation, SubEventsOf(s, SubEvent(op)) # {}
          PROVE  SubShows(s, op)
      BY <2>1 DEF SubInv, SubEventsShow, SubEventsOf
    <2>2. SubEvent("cancel") = "SUBSCRIPTION_CANCELLED" /\ "cancel" \in SubOperation
      BY DEF SubEvent, SubOperation
    <2> QED
      BY <1>1, <2>1, <2>2 DEF WasCancelled, SubShows, SubInv, CancelledIsOff
  <1>2. RenewalStaysOff
    BY <1>1 DEF RenewalStaysOff
  <1>3. SubAcknowledgedIsDurable
    BY RunningSubCall
       DEF SubInv, SubAcknowledgedIsDurable, SubCallInv, SubCallIsLogged, SubCallFollowsRow,
           SubShows, SubEventsOf, CancelledIsOff
  <1> QED
    BY <1>2, <1>3

(* The auto_renew of a subscription that was announced as cancelled, or    *)
(* has the status, stays off (SubscriptionHandler.ts:61).                  *)
THEOREM RenewalStopped == SubSpec => []RenewalStaysOff
  BY SubInvSays, SubscriptionInvariant, PTL

(* What a client is told has happened is stored (SubscriptionHandler.ts:64). *)
THEOREM SubAcknowledgementsDurable == SubSpec => []SubAcknowledgedIsDurable
  BY SubInvSays, SubscriptionInvariant, PTL

(* The histories stay append-only under the subscription operations.       *)
THEOREM SubscriptionsImplementLog == SubSpec => ImplementsEventLog
  <1>1. SubInit => Log!Init
    BY LogInitially DEF SubInit
  <1>2. SubInv /\ SubInv' /\ [SubNext]_subVars => [Log!Next]_([a \in Aggregate |-> History(a)])
    <2> SUFFICES ASSUME SubInv, SubInv', [SubNext]_subVars
                 PROVE  [Log!Next]_([a \in Aggregate |-> History(a)])
      OBVIOUS
    <2>1. ASSUME NEW c \in Caller, SubCallStep(c) \/ SubCallFault(c)
          PROVE  eventStore' = eventStore \/ AppendEvent(c) \/ AppendReplyLost(c)
      BY <2>1, StoreAppends
         DEF SubCallStep, SubCallFault, busVars, FindActive, InsertSubscription, Publish,
             FindSubscription, CancelSubscription, SubPublishStep, SubPublishReturns, Resume,
             SubStatementFails, InsertSubscriptionReplyLost, CancelReplyLost, SubPublishFault
    <2>2. eventStore' = eventStore \/ \E c \in Caller : AppendEvent(c) \/ AppendReplyLost(c)
      BY <2>1 DEF SubNext, subVars, busVars, SubBegin, SubReturn, Tick, SubCrash, BusCrash
    <2> QED
      BY <2>2, AppendsRecord DEF SubInv
  <1> QED
    BY <1>1, <1>2, SubscriptionInvariant, PTL DEF SubSpec, ImplementsEventLog, Log!Spec

-----------------------------------------------------------------------------
(* How many calls get past a check together *)

(* A step of a call is a step of no other.                                 *)
LEMMA OnlyOneSubCallMoves ==
    ASSUME SubInv, NEW c \in Caller, SubCallStep(c) \/ SubCallFault(c)
    PROVE  OtherSubCallsStay(c)
  <1>1. CASE SubPublishStep(c) \/ SubPublishFault(c)
    <2>1. (StoreStep(c) \/ StoreFault(c) \/ Dispatch(c)) /\ subCall' = subCall
      BY <1>1 DEF SubPublishStep, SubPublishFault
    <2> QED
      BY <2>1, PublishMoves DEF SubInv, OtherSubCallsStay
  <1>2. CASE ~(SubPublishStep(c) \/ SubPublishFault(c))
    <2>1. \A d \in Caller \ {c} : pub'[d] = pub[d]
      BY <1>2
         DEF SubCallStep, SubCallFault, FindActive, InsertSubscription, FindSubscription,
             CancelSubscription, SubPublishReturns, SubStatementFails,
             InsertSubscriptionReplyLost, CancelReplyLost, Publish, Resume, busVars,
             SubInv, BusInv, BusTypeOK
    <2>2. \A d \in Caller \ {c} : subCall'[d] = subCall[d]
      BY <1>2
         DEF SubCallStep, SubCallFault, FindActive, InsertSubscription, FindSubscription,
             CancelSubscription, SubPublishReturns, SubStatementFails,
             InsertSubscriptionReplyLost, CancelReplyLost, SubContinue, SubInv, SubTypeOK
    <2> QED
      BY <2>1, <2>2 DEF OtherSubCallsStay
  <1> QED
    BY <1>1, <1>2

(* How a call moves: it begins, ends or fails, or goes on by one step.     *)
LEMMA SubCallsMove ==
    ASSUME SubInv, [SubNext]_subVars, NEW c \in Caller
    PROVE  \/ subCall'[c] = subCall[c]
           \/ subCall'[c].pc \in {"idle", "findActive", "find"}
           \/ /\ subCall[c].pc # "idle"
              /\ subCall'[c].op = subCall[c].op
              /\ subCall'[c].sub = subCall[c].sub
              /\ \/ subCall'[c].pc \in {"ok", "error"}
                 \/ FindActive(c) /\ subCall'[c].pc = "insert" /\ ~HasActive(subCall[c].sub)
                 \/ InsertSubscription(c) /\ subCall'[c].pc = "publish"
                 \/ FindSubscription(c) /\ subCall'[c].pc = "update" /\ Cancellable(subCall[c].sub)
                 \/ CancelSubscription(c) /\ subCall'[c].pc = "publish"
  <1> DEFINE Goes(pc) == /\ subCall[c].pc # "idle"
                         /\ subCall'[c].op = subCall[c].op
                         /\ subCall'[c].sub = subCall[c].sub
                         /\ subCall'[c].pc = pc
  <1>1. ASSUME NEW pc \in SubPc, subCall[c].pc # "idle", SubContinue(c, pc)
        PROVE  Goes(pc)
    BY <1>1, SubContinueProperties DEF SubInv
  <1>2. CASE FindActive(c)
    <2> DEFINE old == subCall[c]
               blocked == HasActive(old.sub)
               pc == IF blocked THEN "error" ELSE "insert"
               start == IF blocked THEN 0 ELSE now
               new == [old EXCEPT !.pc = pc, !.startDate = start]
    <2>1. old.pc = "findActive" /\ subCall' = [subCall EXCEPT ![c] = new]
      BY <1>2 DEF FindActive
    <2>2. old \in SubCall
      BY <2>1, RunningSubCall DEF SubInv
    <2> HIDE DEF pc, start, blocked
    <2>3. new.pc = pc /\ new.op = old.op /\ new.sub = old.sub
      BY <2>2 DEF SubCall
    <2> HIDE DEF new
    <2>4. subCall'[c] = new
      BY <2>1 DEF SubInv, SubTypeOK
    <2>5. Goes(pc)
      BY <2>1, <2>3, <2>4
    <2> QED
      BY <1>2, <2>5 DEF pc, blocked
  <1> HIDE DEF Goes
  <1>3. InsertSubscription(c) => Goes("publish")
    BY <1>1 DEF InsertSubscription, SubPc
  <1>4. CancelSubscription(c) => Goes("publish")
    BY <1>1 DEF CancelSubscription, SubPc
  <1>5. CASE FindSubscription(c)
    <2>1. subCall[c].pc # "idle"
      BY <1>5 DEF FindSubscription
    <2>2. CASE Cancellable(subCall[c].sub)
      <3>1. Goes("update")
        BY <1>1, <1>5, <2>1, <2>2 DEF FindSubscription, SubPc
      <3> QED
        BY <1>5, <2>2, <3>1 DEF Goes
    <2>3. CASE ~Cancellable(subCall[c].sub)
      <3>1. Goes("error")
        BY <1>1, <1>5, <2>1, <2>3 DEF FindSubscription, SubPc
      <3> QED
        BY <3>1 DEF Goes
    <2> QED
      BY <2>2, <2>3
  <1>6. CASE SubPublishReturns(c) \/ SubStatementFails(c) \/ InsertSubscriptionReplyLost(c)
             \/ CancelReplyLost(c)
    <2>1. PICK pc \in {"ok", "error"} : subCall[c].pc # "idle" /\ SubContinue(c, pc)
      BY <1>6 DEF SubPublishReturns, SubStatementFails, InsertSubscriptionReplyLost, CancelReplyLost
    <2>2. Goes(pc)
      BY <1>1, <2>1 DEF SubPc
    <2> QED
      BY <2>2 DEF Goes
  <1>7. CASE SubPublishStep(c) \/ SubPublishFault(c)
    BY <1>7 DEF SubPublishStep, SubPublishFault
  <1>8. ASSUME NEW d \in Caller, d # c, SubCallStep(d) \/ SubCallFault(d)
        PROVE  subCall'[c] = subCall[c]
    BY <1>8, OnlyOneSubCallMoves DEF OtherSubCallsStay
  <1>9. ASSUME NEW d \in Caller, NEW op \in SubOp, NEW s \in Sub, SubBegin(d, op, s)
        PROVE  subCall'[c] = subCall[c] \/ subCall'[c].pc \in {"findActive", "find"}
    BY <1>9 DEF SubBegin, SubInv, SubTypeOK
  <1>10. ASSUME NEW d \in Caller, SubReturn(d)
         PROVE  subCall'[c] = subCall[c] \/ subCall'[c].pc = "idle"
    BY <1>10 DEF SubReturn, NoSubCall, SubInv, SubTypeOK
  <1>11. CASE Tick \/ UNCHANGED subVars
    BY <1>11 DEF Tick, subVars
  <1>12. CASE SubCrash
    BY <1>12 DEF SubCrash, NoSubCall
  <1>13. ASSUME SubCallStep(c) \/ SubCallFault(c), ~FindActive(c), ~FindSubscription(c),
                ~InsertSubscription(c), ~CancelSubscription(c)
         PROVE  \/ SubPublishReturns(c) \/ SubStatementFails(c) \/ InsertSubscriptionReplyLost(c)
                \/ CancelReplyLost(c) \/ SubPublishStep(c) \/ SubPublishFault(c)
    BY <1>13 DEF SubCallStep, SubCallFault
  <1>14. CASE InsertSubscription(c) \/ CancelSubscription(c)
    BY <1>3, <1>4, <1>14 DEF Goes
  <1>15. CASE SubCallStep(c) \/ SubCallFault(c)
    BY <1>2, <1>5, <1>6, <1>7, <1>13, <1>14, <1>15
  <1> QED
    BY <1>8, <1>9, <1>10, <1>11, <1>12, <1>15 DEF SubNext

(* What a step does to the rows: nothing, or one statement of one call.    *)
LEMMA SubRowsMove ==
    ASSUME SubInv, [SubNext]_subVars
    PROVE  \/ subscriptions' = subscriptions
           \/ \E c \in Caller :
                 /\ subCall[c].pc = "insert" /\ subCall'[c].pc # "insert"
                 /\ subCall[c].sub \in Sub
                 /\ subscriptions' = [subscriptions EXCEPT ![subCall[c].sub] =
                                         NewSubscription(subCall[c].sub, subCall[c].startDate)]
           \/ \E c \in Caller :
                 /\ subCall[c].pc = "update" /\ subCall[c].sub \in Sub
                 /\ SubExists(subCall[c].sub)
                 /\ subscriptions' = [subscriptions EXCEPT ![subCall[c].sub] =
                                         Cancelled(subscriptions[subCall[c].sub])]
  <1>1. ASSUME NEW c \in Caller, InsertSubscription(c) \/ InsertSubscriptionReplyLost(c)
        PROVE  /\ subCall[c].pc = "insert" /\ subCall'[c].pc # "insert"
               /\ subCall[c].sub \in Sub
               /\ subscriptions' = [subscriptions EXCEPT ![subCall[c].sub] =
                                       NewSubscription(subCall[c].sub, subCall[c].startDate)]
    <2>1. PICK pc \in {"publish", "error"} : SubContinue(c, pc)
      BY <1>1 DEF InsertSubscription, InsertSubscriptionReplyLost
    <2>2. subCall[c].pc = "insert"
      BY <1>1 DEF InsertSubscription, InsertSubscriptionReplyLost
    <2>3. subCall'[c].pc = pc
      BY <2>1, <2>2, SubContinueProperties DEF SubInv, SubPc
    <2> QED
      BY <1>1, <2>2, <2>3, RunningSubCall DEF InsertSubscription, InsertSubscriptionReplyLost, SubInv
  <1>2. ASSUME NEW c \in Caller, CancelSubscription(c) \/ CancelReplyLost(c)
        PROVE  /\ subCall[c].pc = "update" /\ subCall[c].sub \in Sub
               /\ SubExists(subCall[c].sub)
               /\ subscriptions' = [subscriptions EXCEPT ![subCall[c].sub] =
                                       Cancelled(subscriptions[subCall[c].sub])]
    BY <1>2, RunningSubCall
       DEF CancelSubscription, CancelReplyLost, SubInv, SubCallInv, SubCallFollowsRow
  <1>3. \/ subscriptions' = subscriptions
        \/ \E c \in Caller : \/ InsertSubscription(c) \/ InsertSubscriptionReplyLost(c)
                             \/ CancelSubscription(c) \/ CancelReplyLost(c)
    BY DEF SubNext, subVars, SubCallStep, SubCallFault, SubBegin, SubReturn, FindActive,
           FindSubscription, SubPublishStep, SubPublishReturns, SubStatementFails,
           SubPublishFault, Tick, SubCrash
  <1> QED
    BY <1>1, <1>2, <1>3

-----------------------------------------------------------------------------
(* Cancellations *)

(* The cancellations that may still add their event to a history.          *)
Cancelling(s) ==
    {c \in Caller :
        /\ subCall[c].op = "cancel"
        /\ subCall[c].sub = s
        /\ \/ subCall[c].pc = "update"
           \/ subCall[c].pc = "publish" /\ pub[c].step \in {"getLatestVersion", "append"}}

Cancellations(s) == SubEventsOf(s, "SUBSCRIPTION_CANCELLED")

LEMMA CancellingMoves ==
    ASSUME SubInv, [SubNext]_subVars, NEW c \in Caller, NEW s \in Sub, c \in Cancelling(s)'
    PROVE  \/ c \in Cancelling(s)
           \/ FindSubscription(c) /\ Cancellable(s)
  <1>1. subCall'[c].op = "cancel" /\ subCall'[c].sub = s /\ subCall'[c].pc \in {"update", "publish"}
    BY DEF Cancelling
  <1>2. CASE subCall'[c] = subCall[c]
    <2>1. CASE pub'[c] = pub[c]
      BY <1>2, <2>1 DEF Cancelling
    <2>2. CASE SubPublishStep(c) \/ SubPublishFault(c)
      <3>1. StoreStep(c) \/ StoreFault(c) \/ Dispatch(c)
        BY <2>2 DEF SubPublishStep, SubPublishFault
      <3>2. pub'[c].step \in {"getLatestVersion", "append"} => pub[c].step = "getLatestVersion"
        BY <3>1, PublishAdvances DEF SubInv
      <3> QED
        BY <1>2, <3>2 DEF Cancelling
    <2>3. CASE pub'[c] # pub[c] /\ ~(SubPublishStep(c) \/ SubPublishFault(c))
      <3>1. ASSUME NEW d \in Caller, d # c, SubCallStep(d) \/ SubCallFault(d)
            PROVE  FALSE
        BY <2>3, <3>1, OnlyOneSubCallMoves DEF OtherSubCallsStay
      <3>2. ASSUME SubCallStep(c) \/ SubCallFault(c)
            PROVE  InsertSubscription(c) \/ CancelSubscription(c) \/ SubPublishReturns(c)
        BY <2>3, <3>2
           DEF SubCallStep, SubCallFault, FindActive, FindSubscription, SubStatementFails,
               InsertSubscriptionReplyLost, CancelReplyLost, busVars
      <3>3. ASSUME InsertSubscription(c) \/ CancelSubscription(c)
            PROVE  FALSE
        <4>1. SubContinue(c, "publish") /\ subCall[c].pc \in {"insert", "update"}
          BY <3>3 DEF InsertSubscription, CancelSubscription
        <4> QED
          BY <1>2, <4>1, SubContinueProperties DEF SubInv, SubPc
      <3>4. ASSUME SubPublishReturns(c)
            PROVE  FALSE
        <4>1. PICK pc \in {"ok", "error"} : SubContinue(c, pc) /\ subCall[c].pc = "publish"
          BY <3>4 DEF SubPublishReturns
        <4> QED
          BY <1>2, <4>1, SubContinueProperties DEF SubInv, SubPc
      <3>5. SubCrash
        BY <2>3, <3>1, <3>2, <3>3, <3>4
           DEF SubNext, subVars, busVars, SubBegin, SubReturn, Tick
      <3> QED
        BY <1>1, <3>5 DEF SubCrash, NoSubCall
    <2> QED
      BY <2>1, <2>2, <2>3
  <1>3. CASE FindSubscription(c) /\ Cancellable(subCall[c].sub) /\ subCall'[c].sub = subCall[c].sub
    BY <1>1, <1>3
  <1>4. CASE /\ InsertSubscription(c)
             /\ subCall'[c].op = subCall[c].op
    BY <1>1, <1>4 DEF InsertSubscription, SubInv, SubCallInv, SubCallFollowsRow
  <1>5. CASE /\ CancelSubscription(c)
             /\ subCall'[c].op = subCall[c].op
             /\ subCall'[c].sub = subCall[c].sub
    BY <1>1, <1>5 DEF CancelSubscription, Cancelling
  <1> QED
    BY <1>1, <1>2, <1>3, <1>4, <1>5, SubCallsMove

(* A history grows by the event of a call that is cancelling no more.      *)
LEMMA CancellationsMove ==
    ASSUME SubInv, [SubNext]_subVars, NEW s \in Sub
    PROVE  \/ Cancellations(s)' = Cancellations(s)
           \/ \E c \in Cancelling(s) :
                 /\ c \notin Cancelling(s)'
                 /\ Cancellations(s)' = Cancellations(s) \cup {pub[c].event}
  <1>1. CASE eventStore' = eventStore
    BY <1>1 DEF Cancellations, SubEventsOf
  <1>2. ASSUME NEW c \in Caller, StoreStep(c) \/ StoreFault(c) \/ Dispatch(c), subCall' = subCall,
               eventStore' # eventStore
        PROVE  \/ Cancellations(s)' = Cancellations(s)
               \/ /\ c \in Cancelling(s) /\ c \notin Cancelling(s)'
                  /\ Cancellations(s)' = Cancellations(s) \cup {pub[c].event}
    <2> DEFINE ev == pub[c].event
    <2>1. /\ eventStore' = eventStore \cup {ev}
          /\ pub[c].step = "append"
          /\ pub'[c].step \in {"dispatch", "error"}
      BY <1>2, PublishAdvances DEF SubInv
    <2>2. CASE ev.aggregateId = s /\ ev.type = "SUBSCRIPTION_CANCELLED"
      <3>1. SubPub(c)
        BY <2>1, <2>2 DEF SubPub
      <3>2. /\ subCall[c].pc = "publish" /\ subCall[c].sub = s
            /\ SubEvent(subCall[c].op) = "SUBSCRIPTION_CANCELLED"
        BY <2>2, <3>1 DEF SubInv, SubCallInv, PubOfSubCall
      <3>3. subCall[c].op = "cancel"
        BY <3>2, RunningSubCall DEF SubInv, SubEvent, SubOperation
      <3>4. c \in Cancelling(s) /\ c \notin Cancelling(s)'
        BY <1>2, <2>1, <3>2, <3>3 DEF Cancelling
      <3> QED
        BY <2>1, <2>2, <3>4 DEF Cancellations, SubEventsOf
    <2>3. CASE ~(ev.aggregateId = s /\ ev.type = "SUBSCRIPTION_CANCELLED")
      BY <2>1, <2>3 DEF Cancellations, SubEventsOf
    <2> QED
      BY <2>2, <2>3
  <1>3. eventStore' = eventStore \/ \E c \in Caller :
           (StoreStep(c) \/ StoreFault(c) \/ Dispatch(c)) /\ subCall' = subCall
    BY DEF SubNext, subVars, busVars, SubCallStep, SubCallFault, SubBegin, SubReturn, FindActive,
           InsertSubscription, Publish, FindSubscription, CancelSubscription, SubPublishStep,
           SubPublishReturns, Resume, SubStatementFails, InsertSubscriptionReplyLost,
           CancelReplyLost, SubPublishFault, Tick, SubCrash, BusCrash
  <1> QED
    BY <1>1, <1>2, <1>3

(* An active subscription renews, so it was not announced as cancelled.    *)
ActiveRenews == \A s \in Sub : IsActive(s) => subscriptions[s].autoRenew

LEMMA ActiveStillRenews ==
    ASSUME SubInv, [SubNext]_subVars, ActiveRenews
    PROVE  ActiveRenews'
  <1>1. CASE subscriptions' = subscriptions
    BY <1>1 DEF ActiveRenews, IsActive
  <1>2. ASSUME NEW s \in Sub, NEW start,
               subscriptions' = [subscriptions EXCEPT ![s] = NewSubscription(s, start)]
        PROVE  ActiveRenews'
    BY <1>2 DEF ActiveRenews, IsActive, NewSubscription, SubInv, SubTypeOK
  <1>3. ASSUME NEW s \in Sub, SubExists(s),
               subscriptions' = [subscriptions EXCEPT ![s] = Cancelled(subscriptions[s])]
        PROVE  ActiveRenews'
    <2> DEFINE new == Cancelled(subscriptions[s])
    <2>1. new.status # "ACTIVE"
      BY <1>3 DEF Cancelled, SubInv, SubTypeOK, SubExists, SubRow
    <2> HIDE DEF new
    <2>2. subscriptions' = [subscriptions EXCEPT ![s] = new]
      BY <1>3 DEF new
    <2> QED
      BY <2>1, <2>2 DEF ActiveRenews, IsActive, SubInv, SubTypeOK
  <1> QED
    BY <1>1, <1>2, <1>3, SubRowsMove

(* At most one cancellation for each caller, announced or to come.         *)
CancelledForCallers(s) ==
    Cardinality(Cancellations(s)) + Cardinality(Cancelling(s)) <= Cardinality(Caller)

LEMMA CancellationsAreFinite ==
    ASSUME BusInv, NEW s
    PROVE  IsFiniteSet(Cancellations(s)) /\ Cardinality(Cancellations(s)) \in Nat
  <1>1. Cancellations(s) \subseteq eventStore
    BY DEF Cancellations, SubEventsOf
  <1> QED
    BY <1>1, Counts DEF BusInv, StoreIsFinite

LEMMA CancelledForCallersKept ==
    ASSUME SubInv, ActiveRenews, [SubNext]_subVars, NEW s \in Sub, CancelledForCallers(s)
    PROVE  CancelledForCallers(s)'
  <1> DEFINE old == Cancellations(s)
             new == Cancellations(s)'
             fly == Cancelling(s)
             flyNew == Cancelling(s)'
  <1>1. fly \subseteq Caller /\ flyNew \subseteq Caller
    BY DEF Cancelling
  <1>2. /\ IsFiniteSet(fly) /\ IsFiniteSet(flyNew) /\ IsFiniteSet(old)
        /\ Cardinality(fly) \in Nat /\ Cardinality(flyNew) \in Nat /\ Cardinality(old) \in Nat
        /\ Cardinality(Caller) \in Nat /\ Cardinality(flyNew) <= Cardinality(Caller)
    BY <1>1, CallerAssumption, Counts, CancellationsAreFinite DEF SubInv
  <1>3. CASE flyNew \subseteq fly /\ new = old
    <2>1. Cardinality(flyNew) <= Cardinality(fly)
      BY <1>2, <1>3, Counts
    <2> QED
      BY <1>2, <1>3, <2>1 DEF CancelledForCallers
  <1>4. ASSUME flyNew \subseteq fly, NEW c \in fly, c \notin flyNew,
               new = old \cup {pub[c].event}
        PROVE  CancelledForCallers(s)'
    <2>1. Cardinality(flyNew) + 1 <= Cardinality(fly)
      BY <1>2, <1>4, CountsLess
    <2>2. IsFiniteSet(new) /\ Cardinality(new) <= Cardinality(old) + 1
      BY <1>2, <1>4, CountsMore
    <2>3. Cardinality(new) \in Nat
      BY <2>2, FS_CardinalityType
    <2> QED
      BY <1>2, <2>1, <2>2, <2>3 DEF CancelledForCallers
  <1>5. ASSUME NEW c \in flyNew, c \notin fly
        PROVE  CancelledForCallers(s)'
    <2>1. c \in Caller /\ FindSubscription(c) /\ Cancellable(s)
      BY <1>1, <1>5, CancellingMoves
    <2>2. SubEvent("cancel") = "SUBSCRIPTION_CANCELLED" /\ "cancel" \in SubOperation
      BY DEF SubEvent, SubOperation
    <2>3. old = {}
      BY <2>1, <2>2
         DEF Cancellable, ActiveRenews, SubInv, SubEventsShow, SubShows, Cancellations, SubEventsOf
    <2>4. new = {}
      BY <2>1, <2>3 DEF FindSubscription, busVars, Cancellations, SubEventsOf
    <2>5. Cardinality(new) = 0
      BY <2>4, FS_EmptySet
    <2> QED
      BY <1>2, <2>5 DEF CancelledForCallers
  <1>6. new = old \/ \E c \in fly : c \notin flyNew /\ new = old \cup {pub[c].event}
    BY CancellationsMove
  <1> QED
    BY <1>3, <1>4, <1>5, <1>6

(* A subscription is announced as cancelled once for each caller at most:  *)
(* only overlapping calls pass the check together (SubscriptionHandler.ts:54). *)
THEOREM CancellationsOverlap == SubSpec => []CancelledOnlyByOverlap
  <1> DEFINE Inv == ActiveRenews /\ \A s \in Sub : CancelledForCallers(s)
  <1>1. SubInit => Inv
    <2> SUFFICES ASSUME SubInit
                 PROVE  Inv
      OBVIOUS
    <2>1. ActiveRenews
      BY DEF SubInit, ActiveRenews, IsActive, NoSubscription
    <2>2. ASSUME NEW s \in Sub
          PROVE  CancelledForCallers(s)
      <3>1. Cancellations(s) = {} /\ Cancelling(s) = {}
        BY DEF SubInit, BusInit, Cancellations, SubEventsOf, Cancelling, NoSubCall
      <3> QED
        BY <3>1, FS_EmptySet, CallerAssumption, FS_CardinalityType DEF CancelledForCallers
    <2> QED
      BY <2>1, <2>2
  <1>2. SubInv /\ Inv /\ [SubNext]_subVars => Inv'
    BY ActiveStillRenews, CancelledForCallersKept
  <1>3. SubInv /\ Inv => CancelledOnlyByOverlap
    <2> SUFFICES ASSUME SubInv, Inv, NEW s \in Sub
                 PROVE  Cardinality(SubEventsOf(s, "SUBSCRIPTION_CANCELLED")) <= Cardinality(Caller)
      BY DEF CancelledOnlyByOverlap
    <2>1. Cancelling(s) \subseteq Caller
      BY DEF Cancelling
    <2>2. Cardinality(Cancelling(s)) \in Nat /\ Cardinality(Caller) \in Nat
      BY <2>1, CallerAssumption, Counts
    <2>3. Cardinality(Cancellations(s)) \in Nat
      BY CancellationsAreFinite DEF SubInv
    <2> QED
      BY <2>2, <2>3 DEF CancelledForCallers, Cancellations
  <1> QED
    BY <1>1, <1>2, <1>3, SubscriptionInvariant, PTL DEF SubSpec

-----------------------------------------------------------------------------
(* Active subscriptions *)

(* The calls that found no active subscription and will insert one.        *)
InsertingFor(u) == {c \in Caller : subCall[c].pc = "insert" /\ UserOf[subCall[c].sub] = u}

(* At most one for each caller, active or to be inserted.                  *)
ActiveForCallers(u) ==
    /\ IsFiniteSet(ActiveOf(u))
    /\ Cardinality(ActiveOf(u)) + Cardinality(InsertingFor(u)) <= Cardinality(Caller)

(* A user's active subscriptions become fewer, or one more by its insert.  *)
LEMMA ActiveMoves ==
    ASSUME SubInv, [SubNext]_subVars, NEW u \in User
    PROVE  \/ ActiveOf(u)' \subseteq ActiveOf(u)
           \/ \E c \in InsertingFor(u) :
                 /\ c \notin InsertingFor(u)'
                 /\ ActiveOf(u)' \subseteq ActiveOf(u) \cup {subCall[c].sub}
  <1>1. CASE subscriptions' = subscriptions
    BY <1>1 DEF ActiveOf, IsActive
  <1>2. ASSUME NEW c \in Caller, subCall[c].pc = "insert", subCall'[c].pc # "insert",
               NEW s \in Sub, s = subCall[c].sub,
               subscriptions' = [subscriptions EXCEPT ![s] = NewSubscription(s, subCall[c].startDate)]
        PROVE  \/ ActiveOf(u)' \subseteq ActiveOf(u)
               \/ /\ c \in InsertingFor(u) /\ c \notin InsertingFor(u)'
                  /\ ActiveOf(u)' \subseteq ActiveOf(u) \cup {s}
    <2>1. \A t \in Sub \ {s} : subscriptions'[t] = subscriptions[t]
      BY <1>2 DEF SubInv, SubTypeOK
    <2>2. CASE UserOf[s] = u
      BY <1>2, <2>1, <2>2 DEF ActiveOf, IsActive, InsertingFor
    <2>3. CASE UserOf[s] # u
      BY <1>2, <2>1, <2>3 DEF ActiveOf, IsActive
    <2> QED
      BY <2>2, <2>3
  <1>3. ASSUME NEW s \in Sub, SubExists(s),
               subscriptions' = [subscriptions EXCEPT ![s] = Cancelled(subscriptions[s])]
        PROVE  ActiveOf(u)' \subseteq ActiveOf(u)
    <2> DEFINE new == Cancelled(subscriptions[s])
    <2>1. new.status # "ACTIVE"
      BY <1>3 DEF Cancelled, SubInv, SubTypeOK, SubExists, SubRow
    <2> HIDE DEF new
    <2>2. subscriptions' = [subscriptions EXCEPT ![s] = new]
      BY <1>3 DEF new
    <2> QED
      BY <2>1, <2>2 DEF ActiveOf, IsActive, SubInv, SubTypeOK
  <1> QED
    BY <1>1, <1>2, <1>3, SubRowsMove

(* A call goes to insert only when its user has no active subscription.    *)
LEMMA InsertingMoves ==
    ASSUME SubInv, [SubNext]_subVars, NEW u \in User,
           NEW c \in InsertingFor(u)', c \notin InsertingFor(u)
    PROVE  ActiveOf(u)' = {}
  <1>1. c \in Caller /\ subCall'[c].pc = "insert" /\ UserOf[subCall'[c].sub] = u
    BY DEF InsertingFor
  <1>2. /\ FindActive(c) /\ ~HasActive(subCall[c].sub)
        /\ subCall'[c].sub = subCall[c].sub
    BY <1>1, SubCallsMove DEF InsertingFor
  <1>3. ActiveOf(u) = {}
    BY <1>1, <1>2 DEF HasActive, ActiveOf
  <1> QED
    BY <1>2, <1>3 DEF FindActive, ActiveOf, IsActive

LEMMA ActiveForCallersKept ==
    ASSUME SubInv, [SubNext]_subVars, NEW u \in User, ActiveForCallers(u)
    PROVE  ActiveForCallers(u)'
  <1> DEFINE old == ActiveOf(u)
             new == ActiveOf(u)'
             ins == InsertingFor(u)
             insNew == InsertingFor(u)'
  <1>1. ins \subseteq Caller /\ insNew \subseteq Caller
    BY DEF InsertingFor
  <1>2. /\ IsFiniteSet(ins) /\ IsFiniteSet(insNew) /\ IsFiniteSet(old)
        /\ Cardinality(ins) \in Nat /\ Cardinality(insNew) \in Nat /\ Cardinality(old) \in Nat
        /\ Cardinality(Caller) \in Nat /\ Cardinality(insNew) <= Cardinality(Caller)
    BY <1>1, CallerAssumption, Counts, FS_CardinalityType DEF ActiveForCallers
  <1>3. CASE insNew \subseteq ins /\ new \subseteq old
    <2>1. /\ IsFiniteSet(new) /\ Cardinality(new) \in Nat
          /\ Cardinality(insNew) <= Cardinality(ins) /\ Cardinality(new) <= Cardinality(old)
      BY <1>2, <1>3, Counts
    <2> QED
      BY <1>2, <2>1 DEF ActiveForCallers
  <1>4. ASSUME insNew \subseteq ins, NEW c \in ins, c \notin insNew,
               new \subseteq old \cup {subCall[c].sub}
        PROVE  ActiveForCallers(u)'
    <2>1. Cardinality(insNew) + 1 <= Cardinality(ins)
      BY <1>2, <1>4, CountsLess
    <2>2. IsFiniteSet(new) /\ Cardinality(new) <= Cardinality(old) + 1
      BY <1>2, <1>4, CountsMore
    <2>3. Cardinality(new) \in Nat
      BY <2>2, FS_CardinalityType
    <2> QED
      BY <1>2, <2>1, <2>2, <2>3 DEF ActiveForCallers
  <1>5. ASSUME NEW c \in insNew, c \notin ins
        PROVE  ActiveForCallers(u)'
    <2>1. new = {}
      BY <1>5, InsertingMoves
    <2>2. IsFiniteSet(new) /\ Cardinality(new) = 0
      BY <2>1, FS_EmptySet
    <2> QED
      BY <1>2, <2>2 DEF ActiveForCallers
  <1>6. \/ new \subseteq old
        \/ \E c \in ins : c \notin insNew /\ new \subseteq old \cup {subCall[c].sub}
    BY ActiveMoves
  <1> QED
    BY <1>3, <1>4, <1>5, <1>6

(* A user has one active subscription for each caller at most: only calls  *)
(* that overlap pass the check together (SubscriptionHandler.ts:18).       *)
THEOREM ActiveOverlap == SubSpec => []ActiveOnlyByOverlap
  <1> DEFINE Inv == \A u \in User : ActiveForCallers(u)
  <1>1. SubInit => Inv
    <2> SUFFICES ASSUME SubInit, NEW u \in User
                 PROVE  ActiveForCallers(u)
      OBVIOUS
    <2>1. ActiveOf(u) = {} /\ InsertingFor(u) = {}
      BY DEF SubInit, ActiveOf, IsActive, NoSubscription, InsertingFor, NoSubCall
    <2> QED
      BY <2>1, FS_EmptySet, CallerAssumption, FS_CardinalityType DEF ActiveForCallers
  <1>2. SubInv /\ Inv /\ [SubNext]_subVars => Inv'
    BY ActiveForCallersKept
  <1>3. Inv => ActiveOnlyByOverlap
    <2> SUFFICES ASSUME Inv, NEW u \in User
                 PROVE  Cardinality(ActiveOf(u)) <= Cardinality(Caller)
      BY DEF ActiveOnlyByOverlap
    <2>1. InsertingFor(u) \subseteq Caller
      BY DEF InsertingFor
    <2>2. Cardinality(InsertingFor(u)) \in Nat /\ Cardinality(Caller) \in Nat
      BY <2>1, CallerAssumption, Counts
    <2>3. Cardinality(ActiveOf(u)) \in Nat
      BY FS_CardinalityType DEF ActiveForCallers
    <2> QED
      BY <2>2, <2>3 DEF ActiveForCallers
  <1> QED
    BY <1>1, <1>2, <1>3, SubscriptionInvariant, PTL DEF SubSpec
=============================================================================
