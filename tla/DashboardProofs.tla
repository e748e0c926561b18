--------------------------- MODULE DashboardProofs ---------------------------
(***************************************************************************)
(* The pages of the console, for any number of connections and             *)
(* subscriptions: they leave the subscription operations what they are,    *)
(* and show what they promise, whatever is lost, late or left behind.      *)
(***************************************************************************)
EXTENDS Dashboard, SubscriptionHandlerProofs

(* The page will change what it shows when connection c answers.           *)
BusyAsk(c) == asks[c] # NoAsk /\ asks[c].kind \notin {"load", "create"}

(* Each request belongs to its page, and its answer to the request.        *)
AskOfPage(c) ==
    /\ BusyAsk(c) => asks[c].id \in Sub
    /\ asks[c].kind \in {"list", "filter"} => view.page # "subscriptions"
    /\ asks[c].kind = "cancel" => view.page = "subscriptions"
    /\ BusyAsk(c) /\ asks[c].data # NoData => asks[c].data.id = asks[c].id

(* A cancellation is served by the call on its connection, as long as the  *)
(* process lives, and is answered when it is done.                         *)
CancelIsServed(c) ==
    asks[c].kind = "cancel" =>
        /\ asks[c].step = "serving" /\ subCall[c] # NoSubCall =>
              subCall[c].op = "cancel" /\ subCall[c].sub = asks[c].id
        /\ asks[c].step = "answered" => subscriptions[asks[c].id].status = "CANCELLED"

CancelledRows == \A s \in trail.cancelled : subscriptions[s].status = "CANCELLED"

PageOfCancelled == view.page # "subscriptions" => trail.cancelled = {}

AllBusyAre(kinds) == \A c \in Caller : BusyAsk(c) => asks[c].kind \in kinds

(* Requests that do not overlap: one at a time, for what was asked last.   *)
OneBusy == \A c, d \in Caller : BusyAsk(c) /\ BusyAsk(d) => c = d

BusyIsAsked == \A c \in Caller : BusyAsk(c) => asks[c].id = trail.asked

ShownOrAwaited ==
    AllBusyAre({"cancel", "refresh"}) /\ view.shown # NoData =>
        view.shown.id = trail.asked \/ (view.page # "subscriptions" /\ trail.failed)

OfferedBesideError ==
    /\ AllBusyAre({"cancel"})
    /\ view.shown.status = "ACTIVE"
    /\ view.shown.id \in trail.cancelled
    => view.error

AnswersAreNew ==
    \A c \in Caller :
        BusyAsk(c) /\ asks[c].data.status = "ACTIVE" => asks[c].data.id \notin trail.cancelled

Unraced ==
    ~trail.raced =>
        OneBusy /\ BusyIsAsked /\ ShownOrAwaited /\ OfferedBesideError /\ AnswersAreNew

DashInv ==
    /\ DashTypeOK
    /\ \A c \in Caller : AskOfPage(c) /\ CancelIsServed(c)
    /\ CancelledRows
    /\ PageOfCancelled
    /\ Unraced
    /\ LoadingIsAwaited

-----------------------------------------------------------------------------
(* The pages and the operations behind them *)

(* What the pages do to the operations is what any client may do.          *)
LEMMA PagesAreClients ==
    ASSUME [DashNext]_dashVars
    PROVE  [SubNext]_subVars
  <1>1. ASSUME NEW c \in Caller, Accept(c)
        PROVE  SubNext
    BY <1>1 DEF Accept, SubNext, SubBegin
  <1>2. ASSUME NEW c \in Caller, Respond(c)
        PROVE  SubNext
    BY <1>2 DEF Respond, SubNext
  <1>3. ASSUME NEW c \in Caller, ServerOnly(SubCallStep(c)) \/ ServerOnly(SubCallFault(c))
        PROVE  SubNext
    BY <1>3 DEF ServerOnly, SubNext
  <1>4. ASSUME ServerOnly(SubCrash)
        PROVE  SubNext
    BY <1>4 DEF ServerOnly, SubNext
  <1>5. ASSUME NEW c \in Caller, NEW i \in Sub,
               SearchPayments(c, i) \/ SearchByAggregate(c, i) \/ SearchSubscription(c, i)
        PROVE  UNCHANGED subVars
    BY <1>5 DEF SearchPayments, SearchByAggregate, SearchSubscription, Asking
  <1>6. ASSUME NEW c \in Caller,
               Cancel(c) \/ Create(c) \/ Query(c) \/ NetworkFails(c) \/ Settle(c)
        PROVE  UNCHANGED subVars
    BY <1>6 DEF Cancel, Create, Asking, Query, NetworkFails, Settle
  <1>7. ASSUME ClearFilter \/ \E p \in Page : Open(p)
        PROVE  UNCHANGED subVars
    BY <1>7 DEF ClearFilter, Open
  <1>8. CASE UNCHANGED dashVars
    BY <1>8 DEF dashVars
  <1> QED
    BY <1>1, <1>2, <1>3, <1>4, <1>5, <1>6, <1>7, <1>8 DEF DashNext

(* The operations keep their promises behind the pages: every behaviour of *)
(* the console is one of the subscription operations.                      *)
THEOREM PagesKeepOperations == DashSpec => SubSpec
  <1>1. DashInit => SubInit
    BY DEF DashInit
  <1>2. [DashNext]_dashVars => [SubNext]_subVars
    BY PagesAreClients
  <1> QED
    BY <1>1, <1>2, PTL DEF DashSpec, SubSpec

(* No step of the operations takes a cancellation back.                    *)
LEMMA CancellationStays ==
    ASSUME SubInv, [SubNext]_subVars, NEW s, subscriptions[s].status = "CANCELLED", s \in Sub
    PROVE  subscriptions'[s].status = "CANCELLED"
  <1>2. CASE subscriptions' = subscriptions
    BY <1>2
  <1>3. ASSUME NEW c \in Caller, InsertSubscription(c) \/ InsertSubscriptionReplyLost(c)
        PROVE  subscriptions'[s].status = "CANCELLED"
    <2>1. subCall[c].pc = "insert" /\ eventStore' = eventStore
      BY <1>3 DEF InsertSubscription, InsertSubscriptionReplyLost, Publish, busVars
    <2>2. PICK t \in Sub : t = subCall[c].sub
      BY <2>1, RunningSubCall DEF SubInv
    <2> QED
      BY <1>3, <2>1, <2>2, InsertsSubscription DEF InsertSubscription, InsertSubscriptionReplyLost
  <1>4. ASSUME NEW c \in Caller, CancelSubscription(c) \/ CancelReplyLost(c)
        PROVE  subscriptions'[s].status = "CANCELLED"
    <2>1. subCall[c].pc = "update" /\ eventStore' = eventStore
      BY <1>4 DEF CancelSubscription, CancelReplyLost, Publish, busVars
    <2>2. PICK t \in Sub : t = subCall[c].sub
      BY <2>1, RunningSubCall DEF SubInv
    <2> QED
      BY <1>4, <2>1, <2>2, CancelsSubscription DEF CancelSubscription, CancelReplyLost
  <1>5. CASE subscriptions' # subscriptions
    <2>1. \E c \in Caller : \/ InsertSubscription(c) \/ InsertSubscriptionReplyLost(c)
                            \/ CancelSubscription(c) \/ CancelReplyLost(c)
      BY <1>5 DEF SubNext, SubCallStep, SubCallFault, SubBegin, SubReturn, FindActive,
                  FindSubscription, SubPublishStep, SubPublishReturns, SubStatementFails,
                  SubPublishFault, Tick, SubCrash, subVars
    <2> QED
      BY <1>3, <1>4, <2>1
  <1> QED
    BY <1>2, <1>5

(* A call stays the call that it is, until it returns or the process dies. *)
LEMMA CallGoesOn ==
    ASSUME SubInv, NEW c \in Caller, SubCallStep(c) \/ SubCallFault(c)
    PROVE  /\ subCall[c].pc # "idle"
           /\ subCall'[c].op = subCall[c].op
           /\ subCall'[c].sub = subCall[c].sub
           /\ \A d \in Caller \ {c} : subCall'[d] = subCall[d]
  <1>1. CASE FindActive(c)
    <2> DEFINE pc == IF HasActive(subCall[c].sub) THEN "error" ELSE "insert"
               start == IF HasActive(subCall[c].sub) THEN 0 ELSE now
    <2>1. subCall[c].pc = "findActive"
      BY <1>1 DEF FindActive
    <2>2. subCall[c] \in SubCall
      BY <2>1, RunningSubCall DEF SubInv
    <2>3. subCall' = [subCall EXCEPT ![c] = [subCall[c] EXCEPT !.pc = pc, !.startDate = start]]
      BY <1>1 DEF FindActive
    <2> HIDE DEF pc, start
    <2> QED
      BY <2>1, <2>2, <2>3 DEF SubInv, SubTypeOK, SubCall
  <1>2. CASE SubPublishStep(c) \/ SubPublishFault(c)
    BY <1>2 DEF SubPublishStep, SubPublishFault
  <1>3. CASE \/ InsertSubscription(c) \/ FindSubscription(c) \/ CancelSubscription(c)
             \/ SubPublishReturns(c) \/ SubStatementFails(c)
             \/ InsertSubscriptionReplyLost(c) \/ CancelReplyLost(c)
    <2>1. PICK pc \in SubPc : SubContinue(c, pc) /\ subCall[c].pc # "idle"
      BY <1>3 DEF InsertSubscription, FindSubscription, CancelSubscription, SubPublishReturns,
                  SubStatementFails, InsertSubscriptionReplyLost, CancelReplyLost, SubPc
    <2> QED
      BY <2>1, SubContinueProperties DEF SubInv
  <1> QED
    BY <1>1, <1>2, <1>3 DEF SubCallStep, SubCallFault

(* Where no worker renews, a call that cancelled finds the row cancelled.  *)
CancellationsStand ==
    \A c \in Caller :
        subCall[c].pc \in {"publish", "ok"} /\ subCall[c].op = "cancel" =>
            subscriptions[subCall[c].sub].status = "CANCELLED"

LEMMA CancellationsStandInductive ==
    ASSUME SubInv, CancellationsStand, [SubNext]_subVars
    PROVE  CancellationsStand'
  <1> SUFFICES ASSUME NEW c \in Caller, subCall'[c].pc \in {"publish", "ok"},
                      subCall'[c].op = "cancel"
               PROVE  subscriptions'[subCall'[c].sub].status = "CANCELLED"
    BY DEF CancellationsStand
  <1>1. CASE subCall'[c] = subCall[c]
    <2>1. subCall[c].sub \in Sub /\ subscriptions[subCall[c].sub].status = "CANCELLED"
      BY <1>1, RunningSubCall DEF CancellationsStand, SubInv
    <2> QED
      BY <1>1, <2>1, CancellationStays
  <1>2. CASE SubCallStep(c) \/ SubCallFault(c)
    <2>1. /\ subCall[c].pc # "idle" /\ subCall[c].sub \in Sub
          /\ subCall[c].op = "cancel" /\ subCall'[c].sub = subCall[c].sub
      BY <1>2, CallGoesOn, RunningSubCall DEF SubInv
    <2>2. CASE subCall[c].pc \in {"publish", "ok"}
      BY <2>1, <2>2, CancellationStays DEF CancellationsStand
    <2>3. CASE CancelSubscription(c)
      <3>1. subCall[c].pc = "update" /\ eventStore' = eventStore
        BY <2>3 DEF CancelSubscription, Publish
      <3>2. subscriptions' = [subscriptions EXCEPT
                                 ![subCall[c].sub] = Cancelled(subscriptions[subCall[c].sub])]
        BY <2>3 DEF CancelSubscription
      <3> QED
        BY <2>1, <3>1, <3>2, CancelsSubscription
    <2>4. CASE subCall[c].pc \notin {"publish", "ok"} /\ ~CancelSubscription(c)
      <3>1. \/ FindActive(c) \/ InsertSubscription(c) \/ FindSubscription(c)
            \/ SubStatementFails(c) \/ InsertSubscriptionReplyLost(c) \/ CancelReplyLost(c)
        BY <1>2, <2>4 DEF SubCallStep, SubCallFault, SubPublishStep, SubPublishReturns, SubPublishFault
      <3>2. ~FindActive(c) /\ ~InsertSubscription(c)
        BY <2>1 DEF SubInv, SubCallInv, SubCallFollowsRow, FindActive, InsertSubscription
      <3>3. PICK pc \in {"update", "error"} : SubContinue(c, pc)
        BY <3>1, <3>2 DEF FindSubscription, SubStatementFails, InsertSubscriptionReplyLost,
                          CancelReplyLost
      <3> QED
        BY <2>1, <3>3, SubContinueProperties DEF SubInv, SubPc
    <2> QED
      BY <2>2, <2>3, <2>4
  <1>3. ASSUME NEW d \in Caller, d # c, SubCallStep(d) \/ SubCallFault(d)
        PROVE  subCall'[c] = subCall[c]
    BY <1>3, CallGoesOn
  <1>4. ASSUME NEW d \in Caller, NEW op \in SubOp, NEW s \in Sub, SubBegin(d, op, s)
        PROVE  subCall'[c] = subCall[c]
    BY <1>4 DEF SubBegin, SubInv, SubTypeOK
  <1>5. ASSUME NEW d \in Caller, SubReturn(d)
        PROVE  subCall'[c] = subCall[c]
    BY <1>5 DEF SubReturn, SubInv, SubTypeOK, NoSubCall
  <1>6. CASE Tick \/ UNCHANGED subVars
    BY <1>1, <1>6 DEF Tick, subVars
  <1>7. CASE SubCrash
    BY <1>7 DEF SubCrash, NoSubCall
  <1> QED
    BY <1>1, <1>2, <1>3, <1>4, <1>5, <1>6, <1>7 DEF SubNext

-----------------------------------------------------------------------------
(* Requests and views *)

LEMMA NewAskProperties ==
    ASSUME NEW kind \in Kind, NEW i \in Sub \cup {NoId}
    PROVE  /\ NewAsk(kind, i) \in Ask
           /\ NewAsk(kind, i).kind = kind
           /\ NewAsk(kind, i).id = i
           /\ NewAsk(kind, i).step = "sent"
           /\ NewAsk(kind, i).data = NoData
           /\ NewAsk(kind, i) # NoAsk
  <1>1. NewAsk(kind, i).kind = kind
    BY DEF NewAsk
  <1> QED
    BY <1>1 DEF NewAsk, Ask, NoAsk, Kind

LEMMA AskType ==
    ASSUME DashTypeOK, NEW c \in Caller
    PROVE  /\ asks[c] # NoAsk <=> asks[c].kind \in Kind
           /\ asks[c].kind \in Kind => asks[c] \in Ask
  BY DEF DashTypeOK, Ask, NoAsk, Kind

LEMMA ViewType ==
    ASSUME NEW v \in View
    PROVE  /\ v.page \in Page
           /\ v.shown \in {NoData} \cup Data
           /\ v.shown.status = "ACTIVE" => v.shown.id \in Sub /\ v.shown # NoData
  BY DEF View, Data, NoData

LEMMA OpenedProperties ==
    ASSUME NEW p \in Page
    PROVE  Opened(p) \in View
  BY DEF Opened, View, Loads

(* What an answer or an error changes on a page.                           *)
LEMMA UpdatesProperties ==
    ASSUME NEW v \in View, NEW a \in Ask
    PROVE  /\ Updates(v, a) \in View
           /\ Updates(v, a).page = v.page
           /\ Updates(v, a).loading => v.loading /\ a.kind \notin {"load", "list"}
           /\ a.kind \in {"load", "cancel", "create"} => Updates(v, a).shown = v.shown
           /\ a.kind \in {"list", "filter", "search", "refresh"} /\ a.step # "failed" =>
                 Updates(v, a).shown = a.data
           /\ a.kind \in {"list", "filter", "refresh"} /\ a.step = "failed" =>
                 Updates(v, a).shown = v.shown
           /\ a.kind = "search" /\ a.step = "failed" => Updates(v, a).shown = NoData
           /\ v.error => Updates(v, a).error
           /\ a.kind \in {"refresh", "cancel"} /\ a.step = "failed" => Updates(v, a).error
  <1>1. /\ a.kind \in Kind
        /\ a.data \in {NoData} \cup Data
        /\ v.page \in Page /\ v.loading \in BOOLEAN
        /\ v.shown \in {NoData} \cup Data /\ v.error \in BOOLEAN
    BY DEF View, Ask
  <1>2. \A u \in View : /\ Finally(u, a) \in View
                        /\ Finally(u, a) = [u EXCEPT !.loading = FALSE]
                        /\ Finally(u, a).page = u.page
                        /\ Finally(u, a).loading = FALSE
                        /\ Finally(u, a).shown = u.shown
                        /\ Finally(u, a).error = u.error
    BY DEF Finally, View
  <1>3. /\ Shows(v, a) \in View
        /\ Shows(v, a).page = v.page
        /\ Shows(v, a).loading = v.loading
        /\ Shows(v, a).error = v.error
        /\ Shows(v, a).shown = IF a.step = "failed" THEN v.shown ELSE a.data
    BY <1>1 DEF Shows, View
  <1>4. /\ ShowsOrClears(v, a) \in View
        /\ ShowsOrClears(v, a).page = v.page
        /\ ShowsOrClears(v, a).loading = v.loading
        /\ ShowsOrClears(v, a).error = v.error
        /\ ShowsOrClears(v, a).shown = IF a.step = "failed" THEN NoData ELSE a.data
    BY <1>1, <1>3 DEF ShowsOrClears, View
  <1>5. \A u \in View : /\ Catches(u, a) \in View
                        /\ Catches(u, a).page = u.page
                        /\ Catches(u, a).loading = u.loading
                        /\ Catches(u, a).shown = u.shown
                        /\ u.error \/ a.step = "failed" => Catches(u, a).error
    BY DEF Catches, View
  <1>6. CASE a.kind = "load"
    BY <1>2, <1>6 DEF Updates
  <1>7. CASE a.kind = "list"
    BY <1>2, <1>3, <1>7 DEF Updates
  <1>8. CASE a.kind = "filter"
    BY <1>3, <1>8 DEF Updates
  <1>9. CASE a.kind = "search"
    BY <1>4, <1>5, <1>9 DEF Updates
  <1>10. CASE a.kind = "refresh"
    BY <1>3, <1>5, <1>10 DEF Updates
  <1>11. CASE a.kind = "cancel"
    BY <1>5, <1>11 DEF Updates
  <1>12. CASE a.kind = "create"
    BY <1>12 DEF Updates
  <1> QED
    BY <1>1, <1>6, <1>7, <1>8, <1>9, <1>10, <1>11, <1>12 DEF Kind

(* What a query finds is about what was asked.                             *)
LEMMA AnswerProperties ==
    ASSUME SubTypeOK, NEW a \in Ask, a.kind \notin {"create", "cancel"},
           a.kind # "load" => a.id \in Sub
    PROVE  /\ Answer(a) \in {NoData} \cup Data
           /\ Answer(a) # NoData => Answer(a).id = a.id
           /\ Answer(a).status = "ACTIVE" => a.id \in Sub /\ subscriptions[a.id].status = "ACTIVE"
  <1>1. CASE a.kind = "load"
    BY <1>1 DEF Answer, NoData
  <1>2. CASE a.kind \in {"list", "filter"}
    <2>1. Answer(a) = [id |-> a.id, status |-> "list"]
      BY <1>2 DEF Answer, GetUserPayments, GetEventsByAggregate
    <2> QED
      BY <1>2, <2>1 DEF Data
  <1>3. CASE a.kind \in {"search", "refresh"}
    <2>1. Answer(a) = GetSubscription(a.id) /\ a.id \in Sub
      BY <1>3 DEF Answer
    <2>2. CASE ~SubExists(a.id)
      BY <2>1, <2>2 DEF GetSubscription, NoData
    <2>3. CASE SubExists(a.id)
      <3>1. subscriptions[a.id].status \in SubStatus
        BY <2>1, <2>3 DEF SubTypeOK, SubExists, SubRow
      <3>2. Answer(a) = [id |-> a.id, status |-> subscriptions[a.id].status]
        BY <2>1, <2>3 DEF GetSubscription
      <3> QED
        BY <2>1, <3>1, <3>2 DEF Data
    <2> QED
      BY <2>2, <2>3
  <1> QED
    BY <1>1, <1>2, <1>3 DEF Ask, Kind

-----------------------------------------------------------------------------
(* What the operations behind the pages leave. *)

LEMMA CancelledRowsKept ==
    ASSUME SubInv, [SubNext]_subVars, DashInv, trail' = trail
    PROVE  CancelledRows'
  <1>1. trail.cancelled \subseteq Sub
    BY DEF DashInv, DashTypeOK
  <1> QED
    BY <1>1, CancellationStays DEF DashInv, CancelledRows

LEMMA CancelServedKept ==
    ASSUME SubInv, [SubNext]_subVars, DashInv, NEW d \in Caller, asks'[d] = asks[d],
           subCall'[d] # NoSubCall =>
               /\ subCall[d] # NoSubCall
               /\ subCall'[d].op = subCall[d].op
               /\ subCall'[d].sub = subCall[d].sub
    PROVE  CancelIsServed(d)'
  <1> SUFFICES ASSUME asks[d].kind = "cancel"
               PROVE  CancelIsServed(d)'
    BY DEF CancelIsServed
  <1>1. asks[d].id \in Sub
    BY AskType DEF DashInv, AskOfPage, BusyAsk, Kind
  <1> QED
    BY <1>1, CancellationStays DEF DashInv, CancelIsServed

(* Requests go on to their answers, each about what was asked, and new.    *)
LEMMA AnswersMove ==
    ASSUME SubInv, [SubNext]_subVars, DashInv,
           asks' \in [Caller -> {NoAsk} \cup Ask], view' = view, trail' = trail,
           \A d \in Caller : asks'[d].kind = asks[d].kind,
           \A d \in Caller : BusyAsk(d) => asks'[d].id = asks[d].id,
           \A d \in Caller :
               BusyAsk(d) => \/ asks'[d].data = asks[d].data
                             \/ /\ asks'[d].data # NoData => asks'[d].data.id = asks[d].id
                                /\ asks'[d].data.status = "ACTIVE" =>
                                      subscriptions[asks[d].id].status = "ACTIVE",
           \A d \in Caller : CancelIsServed(d)'
    PROVE  DashInv'
  <1>1. DashTypeOK'
    BY DEF DashInv, DashTypeOK
  <1>2. \A d \in Caller : asks'[d] # NoAsk <=> asks[d] # NoAsk
    BY <1>1, AskType DEF DashInv, DashTypeOK, Ask, NoAsk, Kind
  <1>3. \A d \in Caller : BusyAsk(d)' <=> BusyAsk(d)
    BY <1>2 DEF BusyAsk
  <1>4. ASSUME NEW d \in Caller
        PROVE  AskOfPage(d)'
    BY <1>3 DEF DashInv, AskOfPage
  <1>5. CancelledRows'
    BY CancelledRowsKept
  <1>6. PageOfCancelled'
    BY DEF DashInv, PageOfCancelled
  <1>7. Unraced'
    <2> SUFFICES ASSUME ~trail.raced
                 PROVE  (OneBusy /\ BusyIsAsked /\ ShownOrAwaited /\ OfferedBesideError /\ AnswersAreNew)'
      BY DEF Unraced
    <2>1. OneBusy /\ BusyIsAsked /\ ShownOrAwaited /\ OfferedBesideError /\ AnswersAreNew
      BY DEF DashInv, Unraced
    <2>2. OneBusy' /\ BusyIsAsked'
      BY <1>3, <2>1 DEF OneBusy, BusyIsAsked
    <2>3. ShownOrAwaited' /\ OfferedBesideError'
      BY <1>3, <2>1 DEF ShownOrAwaited, OfferedBesideError, AllBusyAre
    <2>4. AnswersAreNew'
      <3> SUFFICES ASSUME NEW d \in Caller, BusyAsk(d), asks'[d].data.status = "ACTIVE"
                   PROVE  asks'[d].data.id \notin trail.cancelled
        BY <1>3 DEF AnswersAreNew
      <3>1. CASE asks'[d].data = asks[d].data
        BY <2>1, <3>1 DEF AnswersAreNew
      <3>2. CASE asks'[d].data # asks[d].data
        <4>1. asks'[d].data # NoData
          BY DEF NoData
        <4> QED
          BY <3>2, <4>1 DEF DashInv, CancelledRows
      <3> QED
        BY <3>1, <3>2
    <2> QED
      BY <2>2, <2>3, <2>4
  <1>8. LoadingIsAwaited'
    BY <1>2 DEF DashInv, LoadingIsAwaited
  <1> QED
    BY <1>1, <1>4, <1>5, <1>6, <1>7, <1>8 DEF DashInv

(* One request goes to another step, with the data it has or with others.  *)
LEMMA StepProperties ==
    ASSUME DashTypeOK, NEW c \in Caller, asks[c] # NoAsk,
           NEW step \in {"sent", "serving", "answered", "failed"}, NEW data \in {NoData} \cup Data,
           asks' = [asks EXCEPT ![c] = [asks[c] EXCEPT !.step = step, !.data = data]]
    PROVE  /\ asks' \in [Caller -> {NoAsk} \cup Ask]
           /\ asks'[c].kind = asks[c].kind
           /\ asks'[c].id = asks[c].id
           /\ asks'[c].step = step
           /\ asks'[c].data = data
           /\ \A d \in Caller \ {c} : asks'[d] = asks[d]
  <1>1. asks[c] \in Ask
    BY DEF DashTypeOK
  <1>2. [asks[c] EXCEPT !.step = step, !.data = data] \in Ask
    BY <1>1 DEF Ask
  <1> QED
    BY <1>1, <1>2 DEF DashTypeOK, Ask

LEMMA ToStepProperties ==
    ASSUME DashTypeOK, NEW c \in Caller, asks[c] # NoAsk,
           NEW step \in {"sent", "serving", "answered", "failed"}, ToStep(c, step)
    PROVE  /\ asks' \in [Caller -> {NoAsk} \cup Ask]
           /\ asks'[c].kind = asks[c].kind
           /\ asks'[c].id = asks[c].id
           /\ asks'[c].step = step
           /\ asks'[c].data = asks[c].data
           /\ \A d \in Caller \ {c} : asks'[d] = asks[d]
  <1>1. asks[c] \in Ask
    BY DEF DashTypeOK
  <1>2. [asks[c] EXCEPT !.step = step] \in Ask
    BY <1>1 DEF Ask
  <1>3. asks' = [asks EXCEPT ![c] = [asks[c] EXCEPT !.step = step]]
    BY DEF ToStep
  <1> QED
    BY <1>1, <1>2, <1>3 DEF DashTypeOK, Ask

LEMMA QueryKeeps ==
    ASSUME SubInv, DashInv, NEW c \in Caller, Query(c)
    PROVE  DashInv'
  <1> DEFINE data == Answer(asks[c])
             step == IF asks[c].kind = "load" \/ data # NoData THEN "answered" ELSE "failed"
  <1>1. /\ DashTypeOK /\ asks[c] # NoAsk
        /\ asks[c] \in Ask
        /\ asks[c].kind \notin {"create", "cancel"}
        /\ asks[c].kind # "load" => asks[c].id \in Sub
    BY DEF Query, DashInv, DashTypeOK, AskOfPage, BusyAsk
  <1>2. /\ data \in {NoData} \cup Data
        /\ data # NoData => data.id = asks[c].id
        /\ data.status = "ACTIVE" => subscriptions[asks[c].id].status = "ACTIVE"
    BY <1>1, AnswerProperties DEF SubInv
  <1>3. asks' = [asks EXCEPT ![c] = [asks[c] EXCEPT !.step = step, !.data = data]]
    BY DEF Query
  <1>4. step \in {"sent", "serving", "answered", "failed"}
    OBVIOUS
  <1> HIDE DEF data, step
  <1>5. /\ asks' \in [Caller -> {NoAsk} \cup Ask]
        /\ asks'[c].kind = asks[c].kind
        /\ asks'[c].id = asks[c].id
        /\ asks'[c].data = data
        /\ \A d \in Caller \ {c} : asks'[d] = asks[d]
    BY <1>1, <1>2, <1>3, <1>4, StepProperties
  <1>6. UNCHANGED subVars /\ view' = view /\ trail' = trail /\ subCall' = subCall
    BY DEF Query, subVars
  <1>7. ASSUME NEW d \in Caller
        PROVE  CancelIsServed(d)'
    <2>1. CASE d = c
      BY <1>1, <1>5, <2>1 DEF CancelIsServed
    <2>2. CASE d # c
      BY <1>5, <1>6, <2>2, CancelServedKept
    <2> QED
      BY <2>1, <2>2
  <1> QED
    BY <1>2, <1>5, <1>6, <1>7, AnswersMove

LEMMA NetworkFailsKeeps ==
    ASSUME SubInv, DashInv, NEW c \in Caller, NetworkFails(c)
    PROVE  DashInv'
  <1>1. asks' = [asks EXCEPT ![c] = [asks[c] EXCEPT !.step = "failed", !.data = NoData]]
    BY DEF NetworkFails, Rejects
  <1>2. /\ asks' \in [Caller -> {NoAsk} \cup Ask]
        /\ asks'[c].kind = asks[c].kind
        /\ asks'[c].id = asks[c].id
        /\ asks'[c].step = "failed"
        /\ asks'[c].data = NoData
        /\ \A d \in Caller \ {c} : asks'[d] = asks[d]
    BY <1>1, StepProperties DEF NetworkFails, DashInv
  <1>3. UNCHANGED subVars /\ view' = view /\ trail' = trail /\ subCall' = subCall
    BY DEF NetworkFails, subVars
  <1>4. ASSUME NEW d \in Caller
        PROVE  CancelIsServed(d)'
    <2>1. CASE d = c
      BY <1>2, <2>1 DEF CancelIsServed
    <2>2. CASE d # c
      BY <1>2, <1>3, <2>2, CancelServedKept
    <2> QED
      BY <2>1, <2>2
  <1>5. NoData.status # "ACTIVE"
    BY DEF NoData
  <1> QED
    BY <1>2, <1>3, <1>4, <1>5, AnswersMove

LEMMA AcceptKeeps ==
    ASSUME SubInv, DashInv, NEW c \in Caller, Accept(c)
    PROVE  DashInv'
  <1>1. /\ asks' \in [Caller -> {NoAsk} \cup Ask]
        /\ asks'[c].kind = asks[c].kind
        /\ asks'[c].id = asks[c].id
        /\ asks'[c].step = "serving"
        /\ asks'[c].data = asks[c].data
        /\ \A d \in Caller \ {c} : asks'[d] = asks[d]
    BY ToStepProperties DEF Accept, DashInv
  <1>2. PICK s \in Sub : /\ asks[c].kind = "cancel" => s = asks[c].id
                         /\ SubBegin(c, asks[c].kind, s)
    BY DEF Accept
  <1>3. /\ asks[c].kind = "cancel" => subCall'[c].op = "cancel" /\ subCall'[c].sub = asks[c].id
        /\ \A d \in Caller \ {c} : subCall'[d] = subCall[d]
    BY <1>2 DEF SubBegin, SubInv, SubTypeOK
  <1>4. SubNext /\ view' = view /\ trail' = trail
    BY <1>2 DEF Accept, SubNext, SubBegin
  <1>5. ASSUME NEW d \in Caller
        PROVE  CancelIsServed(d)'
    <2>1. CASE d = c
      BY <1>1, <1>3, <2>1 DEF CancelIsServed
    <2>2. CASE d # c
      BY <1>1, <1>3, <1>4, <2>2, CancelServedKept
    <2> QED
      BY <2>1, <2>2
  <1> QED
    BY <1>1, <1>4, <1>5, AnswersMove

LEMMA RespondKeeps ==
    ASSUME SubInv, CancellationsStand, DashInv, NEW c \in Caller, Respond(c)
    PROVE  DashInv'
  <1>1. /\ subCall[c].pc \in {"ok", "error"}
        /\ subCall' = [subCall EXCEPT ![c] = NoSubCall]
        /\ subscriptions' = subscriptions
        /\ SubNext /\ view' = view /\ trail' = trail
    BY DEF Respond, SubReturn, SubNext
  <1>2. subCall'[c] = NoSubCall /\ \A d \in Caller \ {c} : subCall'[d] = subCall[d]
    BY <1>1 DEF SubInv, SubTypeOK
  <1>3. CASE asks[c] # NoAsk /\ asks[c].step = "serving"
    <2> DEFINE step == IF subCall[c].pc = "ok" THEN "answered" ELSE "failed"
    <2>1. /\ asks' \in [Caller -> {NoAsk} \cup Ask]
          /\ asks'[c].kind = asks[c].kind
          /\ asks'[c].id = asks[c].id
          /\ asks'[c].step = step
          /\ asks'[c].data = asks[c].data
          /\ \A d \in Caller \ {c} : asks'[d] = asks[d]
      BY <1>3, ToStepProperties DEF Respond, DashInv
    <2>2. CancelIsServed(c)'
      <3>1. asks[c].kind = "cancel" /\ subCall[c].pc = "ok" =>
               subscriptions[asks[c].id].status = "CANCELLED"
        BY <1>3 DEF NoSubCall, DashInv, CancelIsServed, CancellationsStand
      <3> QED
        BY <1>1, <2>1, <3>1 DEF CancelIsServed
    <2>3. ASSUME NEW d \in Caller
          PROVE  CancelIsServed(d)'
      BY <1>1, <1>2, <2>1, <2>2, CancelServedKept
    <2> QED
      BY <1>1, <2>1, <2>3, AnswersMove
  <1>4. CASE ~(asks[c] # NoAsk /\ asks[c].step = "serving")
    <2>1. asks' = asks
      BY <1>4 DEF Respond
    <2>2. ASSUME NEW d \in Caller
          PROVE  CancelIsServed(d)'
      BY <1>1, <1>2, <2>1, CancelServedKept
    <2> QED
      BY <1>1, <2>1, <2>2, AnswersMove DEF DashInv, DashTypeOK
  <1> QED
    BY <1>3, <1>4

LEMMA ServerKeeps ==
    ASSUME SubInv, DashInv, UNCHANGED <<view, asks, trail>>,
           \/ SubCrash
           \/ \E c \in Caller : SubCallStep(c) \/ SubCallFault(c)
           \/ UNCHANGED subVars
    PROVE  DashInv'
  <1>1. [SubNext]_subVars
    BY DEF SubNext
  <1>2. ASSUME NEW d \in Caller, subCall'[d] # NoSubCall
        PROVE  /\ subCall[d] # NoSubCall
               /\ subCall'[d].op = subCall[d].op
               /\ subCall'[d].sub = subCall[d].sub
    <2>1. CASE SubCrash
      BY <1>2, <2>1 DEF SubCrash
    <2>2. CASE UNCHANGED subVars
      BY <1>2, <2>2 DEF subVars
    <2>3. CASE \E c \in Caller : SubCallStep(c) \/ SubCallFault(c)
      BY <1>2, <2>3, CallGoesOn DEF NoSubCall
    <2> QED
      BY <2>1, <2>2, <2>3
  <1>3. ASSUME NEW d \in Caller
        PROVE  CancelIsServed(d)'
    BY <1>1, <1>2, CancelServedKept
  <1> QED
    BY <1>1, <1>3, AnswersMove DEF DashInv, DashTypeOK

-----------------------------------------------------------------------------
(* The operator asks. *)

LEMMA AskingProperties ==
    ASSUME DashInv, NEW c \in Caller, NEW kind \in Kind, NEW i \in Sub \cup {NoId},
           Asking(c, kind, i)
    PROVE  /\ asks' \in [Caller -> {NoAsk} \cup Ask]
           /\ asks[c] = NoAsk
           /\ asks'[c] # NoAsk
           /\ asks'[c].kind = kind
           /\ asks'[c].id = i
           /\ asks'[c].step = "sent"
           /\ asks'[c].data = NoData
           /\ \A d \in Caller \ {c} : asks'[d] = asks[d]
           /\ \A d \in Caller \ {c} : BusyAsk(d)' <=> BusyAsk(d)
           /\ UNCHANGED subVars
  <1> DEFINE new == NewAsk(kind, i)
  <1>1. /\ new \in Ask /\ new.kind = kind /\ new.id = i
        /\ new.step = "sent" /\ new.data = NoData /\ new # NoAsk
    BY NewAskProperties
  <1> HIDE DEF new
  <1>2. asks' = [asks EXCEPT ![c] = new] /\ asks[c] = NoAsk /\ UNCHANGED subVars
    BY DEF Asking, FreeConn, new
  <1>3. /\ asks' \in [Caller -> {NoAsk} \cup Ask]
        /\ asks'[c] = new
        /\ \A d \in Caller \ {c} : asks'[d] = asks[d]
    BY <1>1, <1>2 DEF DashInv, DashTypeOK
  <1> QED
    BY <1>1, <1>2, <1>3 DEF BusyAsk

(* What a new request leaves of the invariant, whatever it asks.           *)
LEMMA AskingKeeps ==
    ASSUME SubInv, DashInv, NEW c \in Caller, NEW kind \in Kind, NEW i \in Sub \cup {NoId},
           Asking(c, kind, i),
           kind \notin {"load", "create"} => i \in Sub,
           kind \in {"list", "filter"} => view.page # "subscriptions",
           kind = "cancel" => view.page = "subscriptions",
           view'.page = view.page,
           trail'.cancelled = trail.cancelled
    PROVE  /\ \A d \in Caller : AskOfPage(d)' /\ CancelIsServed(d)'
           /\ CancelledRows'
           /\ PageOfCancelled'
  <1>1. /\ asks[c] = NoAsk
        /\ asks'[c] # NoAsk
        /\ asks'[c].kind = kind
        /\ asks'[c].id = i
        /\ asks'[c].step = "sent"
        /\ asks'[c].data = NoData
        /\ \A d \in Caller \ {c} : asks'[d] = asks[d]
        /\ UNCHANGED subVars
    BY AskingProperties
  <1>2. subCall' = subCall /\ subscriptions' = subscriptions
    BY <1>1 DEF subVars
  <1>3. ASSUME NEW d \in Caller
        PROVE  AskOfPage(d)' /\ CancelIsServed(d)'
    <2>1. CASE d = c
      BY <1>1, <2>1 DEF AskOfPage, CancelIsServed, BusyAsk
    <2>2. CASE d # c
      BY <1>1, <1>2, <2>2 DEF DashInv, AskOfPage, CancelIsServed, BusyAsk
    <2> QED
      BY <2>1, <2>2
  <1>4. CancelledRows' /\ PageOfCancelled'
    BY <1>2 DEF DashInv, CancelledRows, PageOfCancelled
  <1> QED
    BY <1>3, <1>4

LEMMA SearchingProperties ==
    ASSUME DashTypeOK, NEW i \in Sub \cup {NoId}, Searching(i)
    PROVE  /\ trail' \in [asked : Sub \cup {NoId}, raced : BOOLEAN, failed : BOOLEAN,
                          cancelled : SUBSET Sub]
           /\ trail'.asked = i
           /\ trail'.raced = Busy
           /\ trail'.cancelled = trail.cancelled
  <1>1. Busy \in BOOLEAN
    BY DEF Busy
  <1>2. trail \in [asked : Sub \cup {NoId}, raced : BOOLEAN, failed : BOOLEAN,
                   cancelled : SUBSET Sub]
    BY DEF DashTypeOK
  <1> HIDE DEF Busy
  <1> QED
    BY <1>1, <1>2 DEF Searching

(* A search asks for something else, and nothing is awaited beside it, or  *)
(* the history notes that it is.                                           *)
LEMMA SearchKeeps ==
    ASSUME SubInv, DashInv, NEW c \in Caller, NEW i \in Sub, NEW kind \in {"list", "filter", "search"},
           Asking(c, kind, i), Searching(i),
           kind \in {"list", "filter"} => view.page # "subscriptions",
           view' \in View, view'.page = view.page,
           view'.loading => view.loading \/ kind = "list"
    PROVE  DashInv'
  <1>1. kind \in Kind /\ kind \notin {"load", "create", "cancel", "refresh"}
    BY DEF Kind
  <1>2. /\ asks' \in [Caller -> {NoAsk} \cup Ask]
        /\ asks[c] = NoAsk
        /\ asks'[c] # NoAsk
        /\ asks'[c].kind = kind
        /\ asks'[c].id = i
        /\ asks'[c].data = NoData
        /\ \A d \in Caller \ {c} : asks'[d] = asks[d]
        /\ \A d \in Caller \ {c} : BusyAsk(d)' <=> BusyAsk(d)
        /\ UNCHANGED subVars
    BY <1>1, AskingProperties
  <1>3. /\ trail' \in [asked : Sub \cup {NoId}, raced : BOOLEAN, failed : BOOLEAN,
                       cancelled : SUBSET Sub]
        /\ trail'.asked = i
        /\ trail'.raced = Busy
        /\ trail'.cancelled = trail.cancelled
    BY SearchingProperties DEF DashInv
  <1>4. DashTypeOK'
    BY <1>2, <1>3 DEF DashTypeOK
  <1>5. /\ \A d \in Caller : AskOfPage(d)' /\ CancelIsServed(d)'
        /\ CancelledRows'
        /\ PageOfCancelled'
    BY <1>1, <1>3, AskingKeeps
  <1>6. Unraced'
    <2> SUFFICES ASSUME ~Busy
                 PROVE  (OneBusy /\ BusyIsAsked /\ ShownOrAwaited /\ OfferedBesideError /\ AnswersAreNew)'
      BY <1>3 DEF Unraced
    <2>1. \A d \in Caller : BusyAsk(d)' <=> d = c
      BY <1>1, <1>2 DEF Busy, BusyAsk
    <2>2. OneBusy' /\ BusyIsAsked'
      BY <1>2, <1>3, <2>1 DEF OneBusy, BusyIsAsked
    <2>3. ShownOrAwaited' /\ OfferedBesideError'
      BY <1>1, <1>2, <2>1 DEF ShownOrAwaited, OfferedBesideError, AllBusyAre
    <2>4. AnswersAreNew'
      BY <1>2, <2>1 DEF AnswersAreNew, NoData
    <2> QED
      BY <2>2, <2>3, <2>4
  <1>7. LoadingIsAwaited'
    BY <1>2 DEF DashInv, LoadingIsAwaited, NoAsk
  <1> QED
    BY <1>4, <1>5, <1>6, <1>7 DEF DashInv

LEMMA SearchesKeep ==
    ASSUME SubInv, DashInv, NEW c \in Caller, NEW i \in Sub,
           SearchPayments(c, i) \/ SearchByAggregate(c, i) \/ SearchSubscription(c, i)
    PROVE  DashInv'
  <1>1. view \in View
    BY DEF DashInv, DashTypeOK
  <1>2. CASE SearchPayments(c, i)
    <2>1. view' \in View /\ view'.page = view.page
      BY <1>1, <1>2 DEF SearchPayments, View
    <2> QED
      BY <1>2, <2>1, SearchKeeps DEF SearchPayments
  <1>3. CASE SearchByAggregate(c, i)
    BY <1>1, <1>3, SearchKeeps DEF SearchByAggregate
  <1>4. CASE SearchSubscription(c, i)
    <2>1. view' \in View /\ view'.page = view.page /\ view'.loading = view.loading
      BY <1>1, <1>4 DEF SearchSubscription, View
    <2> QED
      BY <1>4, <2>1, SearchKeeps DEF SearchSubscription
  <1> QED
    BY <1>2, <1>3, <1>4

LEMMA CancelKeeps ==
    ASSUME SubInv, DashInv, NEW c \in Caller, Cancel(c)
    PROVE  DashInv'
  <1> DEFINE i == view.shown.id
  <1>1. /\ view.page = "subscriptions" /\ view.shown.status = "ACTIVE"
        /\ Asking(c, "cancel", i)
        /\ trail' = [trail EXCEPT !.raced = trail.raced \/ Busy]
        /\ view' = view
    BY DEF Cancel
  <1>2. i \in Sub /\ view.shown # NoData /\ "cancel" \in Kind
    BY <1>1, ViewType DEF DashInv, DashTypeOK, Kind
  <1>3. /\ asks' \in [Caller -> {NoAsk} \cup Ask]
        /\ asks[c] = NoAsk
        /\ asks'[c].kind = "cancel"
        /\ asks'[c].id = i
        /\ asks'[c].data = NoData
        /\ \A d \in Caller \ {c} : asks'[d] = asks[d]
        /\ \A d \in Caller \ {c} : BusyAsk(d)' <=> BusyAsk(d)
    BY <1>1, <1>2, AskingProperties
  <1>4. /\ trail' \in [asked : Sub \cup {NoId}, raced : BOOLEAN, failed : BOOLEAN,
                       cancelled : SUBSET Sub]
        /\ trail'.asked = trail.asked
        /\ trail'.failed = trail.failed
        /\ trail'.cancelled = trail.cancelled
        /\ trail.raced \/ Busy => trail'.raced
    <2>1. (trail.raced \/ Busy) \in BOOLEAN
      OBVIOUS
    <2> HIDE DEF Busy
    <2> QED
      BY <1>1, <2>1 DEF DashInv, DashTypeOK
  <1>5. DashTypeOK'
    BY <1>1, <1>3, <1>4 DEF DashInv, DashTypeOK
  <1>6. /\ \A d \in Caller : AskOfPage(d)' /\ CancelIsServed(d)'
        /\ CancelledRows'
        /\ PageOfCancelled'
    BY <1>1, <1>2, <1>4, AskingKeeps
  <1>7. Unraced'
    <2> SUFFICES ASSUME ~trail'.raced
                 PROVE  (OneBusy /\ BusyIsAsked /\ ShownOrAwaited /\ OfferedBesideError /\ AnswersAreNew)'
      BY DEF Unraced
    <2>1. ~trail.raced /\ ~Busy
      BY <1>4
    <2>2. \A d \in Caller : ~BusyAsk(d)
      BY <2>1 DEF Busy, BusyAsk
    <2>3. ShownOrAwaited /\ OfferedBesideError
      BY <2>1 DEF DashInv, Unraced
    <2>4. i = trail.asked
      BY <1>1, <1>2, <2>2, <2>3 DEF ShownOrAwaited, AllBusyAre
    <2>5. OneBusy' /\ BusyIsAsked'
      BY <1>3, <1>4, <2>2, <2>4 DEF OneBusy, BusyIsAsked
    <2>6. ShownOrAwaited' /\ OfferedBesideError'
      BY <1>1, <1>4, <2>2, <2>3 DEF ShownOrAwaited, OfferedBesideError, AllBusyAre
    <2>7. AnswersAreNew'
      BY <1>3, <2>2 DEF AnswersAreNew, NoData
    <2> QED
      BY <2>5, <2>6, <2>7
  <1>8. LoadingIsAwaited'
    BY <1>1, <1>3 DEF DashInv, LoadingIsAwaited, NoAsk
  <1> QED
    BY <1>5, <1>6, <1>7, <1>8 DEF DashInv

LEMMA CreateKeeps ==
    ASSUME SubInv, DashInv, NEW c \in Caller, Create(c)
    PROVE  DashInv'
  <1>1. Asking(c, "create", NoId) /\ view' = view /\ trail' = trail /\ "create" \in Kind
    BY DEF Create, Kind
  <1>2. /\ asks' \in [Caller -> {NoAsk} \cup Ask]
        /\ asks[c] = NoAsk
        /\ asks'[c].kind = "create"
        /\ \A d \in Caller \ {c} : asks'[d] = asks[d]
        /\ \A d \in Caller \ {c} : BusyAsk(d)' <=> BusyAsk(d)
    BY <1>1, AskingProperties
  <1>3. DashTypeOK'
    BY <1>1, <1>2 DEF DashInv, DashTypeOK
  <1>4. /\ \A d \in Caller : AskOfPage(d)' /\ CancelIsServed(d)'
        /\ CancelledRows'
        /\ PageOfCancelled'
    BY <1>1, AskingKeeps
  <1>5. \A d \in Caller : BusyAsk(d)' <=> BusyAsk(d)
    BY <1>2 DEF BusyAsk
  <1>6. \A d \in Caller : BusyAsk(d) => asks'[d] = asks[d]
    BY <1>2 DEF BusyAsk
  <1>7. Unraced'
    BY <1>1, <1>5, <1>6
       DEF DashInv, Unraced, OneBusy, BusyIsAsked, ShownOrAwaited, OfferedBesideError,
           AnswersAreNew, AllBusyAre
  <1>8. LoadingIsAwaited'
    BY <1>1, <1>2 DEF DashInv, LoadingIsAwaited, NoAsk
  <1> QED
    BY <1>3, <1>4, <1>7, <1>8 DEF DashInv

LEMMA ClearFilterKeeps ==
    ASSUME SubInv, DashInv, ClearFilter
    PROVE  DashInv'
  <1>1. /\ view.page = "events"
        /\ view' = [view EXCEPT !.shown = NoData]
        /\ Searching(NoId)
        /\ asks' = asks /\ UNCHANGED subVars
    BY DEF ClearFilter
  <1>2. view' \in View /\ view'.page = view.page /\ view'.loading = view.loading /\ view'.shown = NoData
    BY <1>1 DEF DashInv, DashTypeOK, View
  <1>3. /\ trail' \in [asked : Sub \cup {NoId}, raced : BOOLEAN, failed : BOOLEAN,
                       cancelled : SUBSET Sub]
        /\ trail'.raced = Busy
        /\ trail'.cancelled = trail.cancelled
    BY <1>1, SearchingProperties DEF DashInv
  <1>4. DashTypeOK'
    BY <1>1, <1>2, <1>3 DEF DashInv, DashTypeOK
  <1>5. subCall' = subCall /\ subscriptions' = subscriptions
    BY <1>1 DEF subVars
  <1>6. \A d \in Caller : AskOfPage(d)' /\ CancelIsServed(d)'
    BY <1>1, <1>2, <1>5 DEF DashInv, AskOfPage, CancelIsServed, BusyAsk
  <1>7. CancelledRows' /\ PageOfCancelled'
    BY <1>2, <1>3, <1>5 DEF DashInv, CancelledRows, PageOfCancelled
  <1>8. Unraced'
    <2> SUFFICES ASSUME ~Busy
                 PROVE  (OneBusy /\ BusyIsAsked /\ ShownOrAwaited /\ OfferedBesideError /\ AnswersAreNew)'
      BY <1>3 DEF Unraced
    <2>1. \A d \in Caller : ~BusyAsk(d)'
      BY <1>1 DEF Busy, BusyAsk
    <2>2. OneBusy' /\ BusyIsAsked' /\ AnswersAreNew'
      BY <2>1 DEF OneBusy, BusyIsAsked, AnswersAreNew
    <2>3. ShownOrAwaited' /\ OfferedBesideError'
      BY <1>2 DEF ShownOrAwaited, OfferedBesideError, NoData
    <2> QED
      BY <2>2, <2>3
  <1>9. LoadingIsAwaited'
    BY <1>1, <1>2 DEF DashInv, LoadingIsAwaited
  <1> QED
    BY <1>4, <1>6, <1>7, <1>8, <1>9 DEF DashInv

(* A page that opens awaits nothing of the page before.                    *)
LEMMA OpenKeeps ==
    ASSUME SubInv, DashInv, NEW p \in Page, Open(p)
    PROVE  DashInv'
  <1>1. view' = Opened(p) /\ trail' = NoTrail /\ UNCHANGED subVars
    BY DEF Open
  <1>2. /\ view' \in View /\ view'.page = p /\ view'.shown = NoData
        /\ view'.loading = Loads(p)
    BY <1>1, OpenedProperties DEF Opened
  <1>3. /\ trail' \in [asked : Sub \cup {NoId}, raced : BOOLEAN, failed : BOOLEAN,
                       cancelled : SUBSET Sub]
        /\ trail'.cancelled = {}
    BY <1>1 DEF NoTrail
  <1>4. /\ asks' \in [Caller -> {NoAsk} \cup Ask]
        /\ \A d \in Caller : asks'[d] = NoAsk \/ asks'[d].kind = "load"
        /\ Loads(p) => \E d \in Caller : asks'[d] # NoAsk
    <2> DEFINE none == [d \in Caller |-> NoAsk]
               new == NewAsk("load", NoId)
    <2>1. new \in Ask /\ new.kind = "load" /\ new # NoAsk
      BY NewAskProperties DEF Kind
    <2> HIDE DEF new
    <2>2. CASE Loads(p)
      <3>1. PICK c \in Caller : asks' = [none EXCEPT ![c] = new]
        BY <2>2 DEF Open, new
      <3> QED
        BY <2>1, <3>1
    <2>3. CASE ~Loads(p)
      BY <2>3 DEF Open
    <2> QED
      BY <2>2, <2>3
  <1>5. DashTypeOK'
    BY <1>2, <1>3, <1>4 DEF DashTypeOK
  <1>6. \A d \in Caller : ~BusyAsk(d)'
    BY <1>4 DEF BusyAsk
  <1>7. \A d \in Caller : AskOfPage(d)' /\ CancelIsServed(d)'
    BY <1>4, <1>6 DEF AskOfPage, CancelIsServed, NoAsk
  <1>8. CancelledRows' /\ PageOfCancelled'
    BY <1>3 DEF CancelledRows, PageOfCancelled
  <1>9. Unraced'
    BY <1>2, <1>6
       DEF Unraced, OneBusy, BusyIsAsked, AnswersAreNew, ShownOrAwaited, OfferedBesideError, NoData
  <1>10. LoadingIsAwaited'
    BY <1>2, <1>4 DEF LoadingIsAwaited
  <1> QED
    BY <1>5, <1>7, <1>8, <1>9, <1>10 DEF DashInv

-----------------------------------------------------------------------------
(* The page goes on. *)

LEMMA SettleProperties ==
    ASSUME DashInv, NEW c \in Caller, Settle(c)
    PROVE  LET a == asks[c]
           IN  /\ a \in Ask
               /\ a.kind \in Kind
               /\ a.step \in {"answered", "failed"}
               /\ asks' \in [Caller -> {NoAsk} \cup Ask]
               /\ asks'[c] # NoAsk =>
                     /\ a.kind = "cancel" /\ a.step = "answered"
                     /\ asks'[c].kind = "refresh" /\ asks'[c].id = a.id
                     /\ asks'[c].data = NoData
               /\ a.kind = "cancel" /\ a.step = "answered" => asks'[c] # NoAsk
               /\ \A d \in Caller \ {c} : asks'[d] = asks[d]
               /\ \A d \in Caller \ {c} : BusyAsk(d)' <=> BusyAsk(d)
               /\ trail' \in [asked : Sub \cup {NoId}, raced : BOOLEAN, failed : BOOLEAN,
                              cancelled : SUBSET Sub]
               /\ trail'.asked = trail.asked
               /\ trail'.raced = trail.raced
               /\ trail.failed => trail'.failed
               /\ a.kind \in {"list", "filter"} /\ a.step = "failed" => trail'.failed
               /\ trail'.cancelled = IF a.kind = "cancel" /\ a.step = "answered"
                                     THEN trail.cancelled \cup {a.id} ELSE trail.cancelled
  <1> DEFINE a == asks[c]
             next == Continuation(a)
             lost == trail.failed \/ (a.kind \in {"list", "filter"} /\ a.step = "failed")
             done == IF a.kind = "cancel" /\ a.step = "answered"
                     THEN trail.cancelled \cup {a.id} ELSE trail.cancelled
  <1>1. a \in Ask /\ a.kind \in Kind /\ a.step \in {"answered", "failed"}
    BY DEF Settle, DashInv, DashTypeOK, Ask
  <1>2. a.kind = "cancel" => a.id \in Sub
    BY <1>1 DEF Settle, DashInv, AskOfPage, BusyAsk
  <1>3. /\ next \in {NoAsk} \cup Ask
        /\ next # NoAsk =>
              /\ a.kind = "cancel" /\ a.step = "answered"
              /\ next.kind = "refresh" /\ next.id = a.id /\ next.data = NoData
        /\ a.kind = "cancel" /\ a.step = "answered" => next # NoAsk
    BY <1>2, NewAskProperties DEF Continuation, Kind
  <1>4. asks' = [asks EXCEPT ![c] = next]
    BY DEF Settle
  <1>5. trail' = [trail EXCEPT !.failed = lost, !.cancelled = done]
    BY DEF Settle
  <1>6. lost \in BOOLEAN /\ done \subseteq Sub
    BY <1>2 DEF DashInv, DashTypeOK
  <1>7. /\ trail.failed => lost
        /\ a.kind \in {"list", "filter"} /\ a.step = "failed" => lost
    OBVIOUS
  <1> HIDE DEF next, lost, done
  <1>8. /\ asks' \in [Caller -> {NoAsk} \cup Ask]
        /\ asks'[c] = next
        /\ \A d \in Caller \ {c} : asks'[d] = asks[d]
    BY <1>3, <1>4 DEF DashInv, DashTypeOK
  <1>9. /\ trail' \in [asked : Sub \cup {NoId}, raced : BOOLEAN, failed : BOOLEAN,
                       cancelled : SUBSET Sub]
        /\ trail'.asked = trail.asked
        /\ trail'.raced = trail.raced
        /\ trail'.failed = lost
        /\ trail'.cancelled = done
    BY <1>5, <1>6 DEF DashInv, DashTypeOK
  <1>10. \A d \in Caller \ {c} : BusyAsk(d)' <=> BusyAsk(d)
    BY <1>8 DEF BusyAsk
  <1> QED
    BY <1>1, <1>3, <1>7, <1>8, <1>9, <1>10 DEF done

LEMMA SettleKeeps ==
    ASSUME SubInv, DashInv, NEW c \in Caller, Settle(c)
    PROVE  DashInv'
  <1> DEFINE a == asks[c]
             told == a.kind = "cancel" /\ a.step = "answered"
  <1>1. /\ a \in Ask
        /\ a.kind \in Kind
        /\ a.step \in {"answered", "failed"}
        /\ asks' \in [Caller -> {NoAsk} \cup Ask]
        /\ asks'[c] # NoAsk =>
              /\ told
              /\ asks'[c].kind = "refresh" /\ asks'[c].id = a.id
              /\ asks'[c].data = NoData
        /\ told => asks'[c] # NoAsk
        /\ \A d \in Caller \ {c} : asks'[d] = asks[d]
        /\ \A d \in Caller \ {c} : BusyAsk(d)' <=> BusyAsk(d)
    BY SettleProperties
  <1>2. /\ trail' \in [asked : Sub \cup {NoId}, raced : BOOLEAN, failed : BOOLEAN,
                       cancelled : SUBSET Sub]
        /\ trail'.asked = trail.asked
        /\ trail'.raced = trail.raced
        /\ trail.failed => trail'.failed
        /\ a.kind \in {"list", "filter"} /\ a.step = "failed" => trail'.failed
        /\ trail'.cancelled = IF told THEN trail.cancelled \cup {a.id} ELSE trail.cancelled
    BY SettleProperties
  <1>3. view \in View /\ view' = Updates(view, a) /\ a # NoAsk
    BY DEF DashInv, DashTypeOK, Settle
  <1>4. /\ view' \in View
        /\ view'.page = view.page
        /\ view'.loading => view.loading /\ a.kind \notin {"load", "list"}
        /\ a.kind \in {"load", "cancel", "create"} => view'.shown = view.shown
        /\ a.kind \in {"list", "filter", "search", "refresh"} /\ a.step # "failed" =>
              view'.shown = a.data
        /\ a.kind \in {"list", "filter", "refresh"} /\ a.step = "failed" =>
              view'.shown = view.shown
        /\ a.kind = "search" /\ a.step = "failed" => view'.shown = NoData
        /\ view.error => view'.error
        /\ a.kind \in {"refresh", "cancel"} /\ a.step = "failed" => view'.error
    BY <1>1, <1>3, UpdatesProperties
  <1>5. subCall' = subCall /\ subscriptions' = subscriptions
    BY DEF Settle, subVars
  <1>6. AskOfPage(c) /\ CancelIsServed(c)
    BY DEF DashInv
  <1>7. told => /\ view.page = "subscriptions" /\ a.id \in Sub
                /\ subscriptions[a.id].status = "CANCELLED"
    BY <1>3, <1>6 DEF AskOfPage, CancelIsServed, BusyAsk
  <1> HIDE DEF a
  <1>8. DashTypeOK'
    BY <1>1, <1>2, <1>4 DEF DashTypeOK
  <1>9. ASSUME NEW d \in Caller
        PROVE  AskOfPage(d)' /\ CancelIsServed(d)'
    <2>1. CASE d # c
      BY <1>1, <1>4, <1>5, <2>1 DEF DashInv, AskOfPage, CancelIsServed, BusyAsk
    <2>2. CASE d = c /\ asks'[c] = NoAsk
      BY <2>2 DEF AskOfPage, CancelIsServed, BusyAsk, NoAsk
    <2>3. CASE d = c /\ asks'[c] # NoAsk
      BY <1>1, <1>7, <2>3 DEF AskOfPage, CancelIsServed, BusyAsk
    <2> QED
      BY <2>1, <2>2, <2>3
  <1>10. CancelledRows'
    BY <1>2, <1>5, <1>7 DEF DashInv, CancelledRows
  <1>11. PageOfCancelled'
    BY <1>2, <1>4, <1>7 DEF DashInv, PageOfCancelled
  <1>12. LoadingIsAwaited'
    BY <1>1, <1>4 DEF DashInv, LoadingIsAwaited, a
  <1>13. Unraced'
    <2> SUFFICES ASSUME ~trail.raced
                 PROVE  (OneBusy /\ BusyIsAsked /\ ShownOrAwaited /\ OfferedBesideError /\ AnswersAreNew)'
      BY <1>2 DEF Unraced
    <2>1. OneBusy /\ BusyIsAsked /\ ShownOrAwaited /\ OfferedBesideError /\ AnswersAreNew
      BY DEF DashInv, Unraced
    <2>2. BusyAsk(c) <=> a.kind \notin {"load", "create"}
      BY <1>3 DEF BusyAsk, a
    <2>3. BusyAsk(c)' <=> told
      BY <1>1 DEF BusyAsk
    <2>4. CASE a.kind \in {"load", "create"}
      <3>1. \A d \in Caller : BusyAsk(d) => d # c /\ asks'[d] = asks[d]
        BY <1>1, <2>2, <2>4
      <3>2. \A d \in Caller : BusyAsk(d)' <=> BusyAsk(d)
        BY <1>1, <2>2, <2>3, <2>4
      <3>3. trail'.cancelled = trail.cancelled /\ view'.shown = view.shown
        BY <1>2, <1>4, <2>4
      <3>4. OneBusy' /\ BusyIsAsked'
        BY <1>2, <2>1, <3>1, <3>2 DEF OneBusy, BusyIsAsked
      <3>5. ShownOrAwaited'
        BY <1>2, <1>4, <2>1, <3>1, <3>2, <3>3 DEF ShownOrAwaited, AllBusyAre
      <3>6. OfferedBesideError'
        BY <1>4, <2>1, <3>1, <3>2, <3>3 DEF OfferedBesideError, AllBusyAre
      <3>7. AnswersAreNew'
        BY <2>1, <3>1, <3>2, <3>3 DEF AnswersAreNew
      <3> QED
        BY <3>4, <3>5, <3>6, <3>7
    <2>5. CASE a.kind \notin {"load", "create"}
      <3>1. BusyAsk(c) /\ \A d \in Caller \ {c} : ~BusyAsk(d)
        BY <2>1, <2>2, <2>5 DEF OneBusy
      <3>2. \A d \in Caller : BusyAsk(d)' <=> d = c /\ told
        BY <1>1, <2>3, <3>1
      <3>3. a.id = trail.asked
        BY <2>1, <3>1 DEF BusyIsAsked, a
      <3>4. a.data # NoData => a.data.id = a.id
        BY <1>6, <3>1 DEF AskOfPage, a
      <3>5. OneBusy' /\ BusyIsAsked' /\ AnswersAreNew'
        BY <1>1, <1>2, <3>2, <3>3 DEF OneBusy, BusyIsAsked, AnswersAreNew, NoData
      <3>6. ShownOrAwaited'
        <4>1. CASE a.kind \in {"cancel", "refresh"} /\ view'.shown = view.shown
          <5>1. AllBusyAre({"cancel", "refresh"})
            BY <3>1, <4>1 DEF AllBusyAre, a
          <5> QED
            BY <1>2, <1>4, <2>1, <4>1, <5>1 DEF ShownOrAwaited
        <4>2. CASE view'.shown = a.data
          BY <1>2, <3>3, <3>4, <4>2 DEF ShownOrAwaited
        <4>3. CASE view'.shown = NoData
          BY <4>3 DEF ShownOrAwaited
        <4>4. CASE a.kind \in {"list", "filter"} /\ a.step = "failed"
          <5>1. view.page # "subscriptions"
            BY <1>6, <4>4 DEF AskOfPage, a
          <5> QED
            BY <1>2, <1>4, <4>4, <5>1 DEF ShownOrAwaited
        <4> QED
          BY <1>1, <1>4, <2>5, <4>1, <4>2, <4>3, <4>4 DEF Kind
      <3>7. OfferedBesideError'
        <4>1. CASE told
          BY <1>1, <3>2, <4>1 DEF OfferedBesideError, AllBusyAre
        <4>2. CASE a.kind \in {"refresh", "cancel"} /\ a.step = "failed"
          BY <1>4, <4>2 DEF OfferedBesideError
        <4>3. CASE ~told /\ view'.shown = a.data
          BY <1>2, <2>1, <3>1, <4>3 DEF OfferedBesideError, AnswersAreNew, a
        <4>4. CASE view'.shown = NoData
          BY <4>4 DEF OfferedBesideError, NoData
        <4>5. CASE a.kind \in {"list", "filter"} /\ a.step = "failed"
          <5>1. trail.cancelled = {}
            BY <1>6, <4>5 DEF AskOfPage, DashInv, PageOfCancelled, a
          <5> QED
            BY <1>2, <4>5, <5>1 DEF OfferedBesideError
        <4> QED
          BY <1>1, <1>4, <2>5, <4>1, <4>2, <4>3, <4>4, <4>5 DEF Kind
      <3> QED
        BY <3>5, <3>6, <3>7
    <2> QED
      BY <2>4, <2>5
  <1> QED
    BY <1>8, <1>9, <1>10, <1>11, <1>12, <1>13 DEF DashInv

-----------------------------------------------------------------------------
LEMMA DashInvInitially ==
    ASSUME DashInit
    PROVE  DashInv
  <1>1. /\ view = Opened("payments") /\ trail = NoTrail
        /\ \A c \in Caller : asks[c] = NoAsk
        /\ asks \in [Caller -> {NoAsk} \cup Ask]
    BY DEF DashInit
  <1>2. view \in View /\ view.shown = NoData /\ ~view.loading
    <2>1. "payments" \in Page /\ ~Loads("payments")
      BY DEF Page, Loads
    <2>2. view \in View
      BY <1>1, <2>1, OpenedProperties
    <2>3. view.shown = NoData /\ view.loading = Loads("payments")
      BY <1>1 DEF Opened
    <2> QED
      BY <2>1, <2>2, <2>3
  <1>3. DashTypeOK
    BY <1>1, <1>2 DEF DashTypeOK, NoTrail
  <1>4. \A c \in Caller : ~BusyAsk(c)
    BY <1>1 DEF BusyAsk
  <1>5. \A c \in Caller : AskOfPage(c) /\ CancelIsServed(c)
    <2>1. NoAsk.kind = "none"
      BY DEF NoAsk
    <2> SUFFICES ASSUME NEW c \in Caller
                 PROVE  AskOfPage(c) /\ CancelIsServed(c)
      OBVIOUS
    <2>2. ~BusyAsk(c) /\ asks[c].kind = "none"
      BY <1>1, <1>4, <2>1
    <2>3. AskOfPage(c)
      BY <2>2 DEF AskOfPage
    <2>4. CancelIsServed(c)
      BY <2>2 DEF CancelIsServed
    <2> QED
      BY <2>3, <2>4
  <1>6. CancelledRows /\ PageOfCancelled
    BY <1>1 DEF CancelledRows, PageOfCancelled, NoTrail
  <1>7. Unraced
    BY <1>2, <1>4
       DEF Unraced, OneBusy, BusyIsAsked, AnswersAreNew, ShownOrAwaited, OfferedBesideError, NoData
  <1>8. LoadingIsAwaited
    BY <1>2 DEF LoadingIsAwaited
  <1> QED
    BY <1>3, <1>5, <1>6, <1>7, <1>8 DEF DashInv

LEMMA DashInvInductive ==
    ASSUME SubInv, CancellationsStand, DashInv, [DashNext]_dashVars
    PROVE  DashInv'
  <1>1. ASSUME NEW p \in Page, Open(p)
        PROVE  DashInv'
    BY <1>1, OpenKeeps
  <1>2. CASE ClearFilter
    BY <1>2, ClearFilterKeeps
  <1>3. ASSUME NEW c \in Caller, NEW i \in Sub,
               SearchPayments(c, i) \/ SearchByAggregate(c, i) \/ SearchSubscription(c, i)
        PROVE  DashInv'
    BY <1>3, SearchesKeep
  <1>4. ASSUME NEW c \in Caller,
               \/ Cancel(c) \/ Create(c) \/ Query(c) \/ Accept(c)
               \/ Respond(c) \/ NetworkFails(c) \/ Settle(c)
        PROVE  DashInv'
    BY <1>4, CancelKeeps, CreateKeeps, QueryKeeps, AcceptKeeps, RespondKeeps,
       NetworkFailsKeeps, SettleKeeps
  <1>5. ASSUME NEW c \in Caller, ServerOnly(SubCallStep(c)) \/ ServerOnly(SubCallFault(c))
        PROVE  DashInv'
    BY <1>5, ServerKeeps DEF ServerOnly
  <1>6. CASE ServerOnly(SubCrash)
    BY <1>6, ServerKeeps DEF ServerOnly
  <1>7. CASE UNCHANGED dashVars
    BY <1>7, ServerKeeps DEF dashVars
  <1> QED
    BY <1>1, <1>2, <1>3, <1>4, <1>5, <1>6, <1>7 DEF DashNext

(* The inductive invariant of the pages, on top of that of the operations. *)
THEOREM DashboardInvariant == DashSpec => []DashInv
  <1>1. DashInit => DashInv
    BY DashInvInitially
  <1>2. SubInv /\ CancellationsStand /\ DashInv /\ [DashNext]_dashVars => DashInv'
    BY DashInvInductive
  <1>3. DashSpec => []SubInv
    BY PagesKeepOperations, SubscriptionInvariant, PTL
  <1>4. DashSpec => []CancellationsStand
    <2>1. SubInit => CancellationsStand
      BY DEF SubInit, CancellationsStand, NoSubCall
    <2>2. SubInv /\ CancellationsStand /\ [SubNext]_subVars => CancellationsStand'
      BY CancellationsStandInductive
    <2> QED
      BY <2>1, <2>2, PagesKeepOperations, SubscriptionInvariant, PTL DEF SubSpec
  <1> QED
    BY <1>1, <1>2, <1>3, <1>4, PTL DEF DashSpec

(* Every variable of the pages keeps its type.                             *)
THEOREM DashTypeCorrect == DashSpec => []DashTypeOK
  BY DashboardInvariant, PTL DEF DashInv

(* "Loading..." goes with an answer that takes it away (events/page.tsx:20). *)
THEOREM LoadingEnds == DashSpec => []LoadingIsAwaited
  BY DashboardInvariant, PTL DEF DashInv

(* With no two requests overlapping, and none failed on a page that keeps  *)
(* its list, a page shows what was asked last (subscriptions/page.tsx:34). *)
THEOREM PageShowsWhatWasAsked == DashSpec => []ShownIsAsked
  <1>1. DashInv => ShownIsAsked
    BY DEF DashInv, ShownIsAsked, Unraced, ShownOrAwaited, AllBusyAre, Busy, BusyAsk
  <1> QED
    BY <1>1, DashboardInvariant, PTL

(* A cancellation that succeeded is not offered again but beside an error, *)
(* or when requests overlapped (subscriptions/page.tsx:42).                *)
THEOREM CancellationIsShown == DashSpec => []CancelledIsShown
  <1>1. DashInv => CancelledIsShown
    BY DEF DashInv, CancelledIsShown, Unraced, OfferedBesideError, AllBusyAre, Busy, BusyAsk
  <1> QED
    BY <1>1, DashboardInvariant, PTL
=============================================================================
