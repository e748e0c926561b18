------------------------------ MODULE Dashboard ------------------------------
(***************************************************************************)
(* The pages of the operations console (dashboard/app), in front of the    *)
(* subscription operations.  One page is mounted at a time.  What it asks  *)
(* of the API travels over connections, any number at once: answers come   *)
(* in any order, fail, or find that their page is gone.  No page numbers   *)
(* its requests or aborts one.  No renewal runs beside the pages.          *)
(*                                                                         *)
(* Of what a page shows, the model keeps whose data it is and, of a        *)
(* subscription, the status.  The texts of a form's result and the         *)
(* payments that the payments page creates are left out.                   *)
(***************************************************************************)
EXTENDS SubscriptionHandler

CONSTANTS NoId

VARIABLES
    view,   \* the page that is mounted, and what it shows
    asks,   \* asks[c]: what the page awaits on connection c
    trail   \* history: what the page was asked for last, and what became of it

dashVars == <<subVars, view, asks, trail>>

Page == {"overview", "payments", "subscriptions", "events"}

NoData == [id |-> NoId, status |-> "none"]

Data == [id : Sub, status : SubStatus \cup {"list"}]

View == [page : Page, loading : BOOLEAN, shown : {NoData} \cup Data, error : BOOLEAN]

NoAsk == [kind |-> "none"]

Kind == {"load", "list", "filter", "search", "refresh", "create", "cancel"}

Ask == [kind : Kind, id : Sub \cup {NoId}, step : {"sent", "serving", "answered", "failed"},
        data : {NoData} \cup Data]

NoTrail == [asked |-> NoId, raced |-> FALSE, failed |-> FALSE, cancelled |-> {}]

DashTypeOK ==
    /\ view \in View
    /\ asks \in [Caller -> {NoAsk} \cup Ask]
    /\ trail \in [asked : Sub \cup {NoId}, raced : BOOLEAN, failed : BOOLEAN,
                  cancelled : SUBSET Sub]

NewAsk(kind, i) ==
    [kind |-> kind, id |-> i, step |-> "sent", data |-> NoData]

FreeConn(c) == asks[c] = NoAsk /\ subCall[c] = NoSubCall

(* The page awaits an answer that will change what it shows.               *)
Busy ==
    \E c \in Caller :
        asks[c] # NoAsk /\ asks[c].kind \notin {"load", "create"}

-----------------------------------------------------------------------------
(* What the operator does *)

Loads(p) == p \in {"overview", "events"}

Opened(p) == [page |-> p, loading |-> Loads(p), shown |-> NoData, error |-> FALSE]

(* The page before is unmounted: an answer to it changes nothing any more, *)
(* while a call that the API has accepted goes on.                         *)
Open(p) ==
    LET none == [c \in Caller |-> NoAsk]
    IN  /\ view' = Opened(p)
        /\ trail' = NoTrail
        /\ IF Loads(p)
           THEN \E c \in Caller :
                   subCall[c] = NoSubCall /\ asks' = [none EXCEPT ![c] = NewAsk("load", NoId)]
           ELSE asks' = none
        /\ UNCHANGED subVars

Asking(c, kind, i) ==
    /\ FreeConn(c)
    /\ asks' = [asks EXCEPT ![c] = NewAsk(kind, i)]
    /\ UNCHANGED subVars

Searching(i) == trail' = [trail EXCEPT !.asked = i, !.raced = Busy, !.failed = FALSE]

SearchPayments(c, i) ==
    /\ view.page = "payments"
    /\ Asking(c, "list", i)
    /\ view' = [view EXCEPT !.loading = TRUE]
    /\ Searching(i)

SearchByAggregate(c, i) ==
    /\ view.page = "events"
    /\ Asking(c, "filter", i)
    /\ Searching(i)
    /\ UNCHANGED view

(* The Clear button, or a search for nothing.                              *)
ClearFilter ==
    /\ view.page = "events"
    /\ view' = [view EXCEPT !.shown = NoData]
    /\ Searching(NoId)
    /\ UNCHANGED <<subVars, asks>>

SearchSubscription(c, i) ==
    /\ view.page = "subscriptions"
    /\ Asking(c, "search", i)
    /\ view' = [view EXCEPT !.error = FALSE]
    /\ Searching(i)

(* The button is there as long as the page shows an ACTIVE subscription.   *)
Cancel(c) ==
    /\ view.page = "subscriptions"
    /\ view.shown.status = "ACTIVE"
    /\ Asking(c, "cancel", view.shown.id)
    /\ trail' = [trail EXCEPT !.raced = trail.raced \/ Busy]
    /\ UNCHANGED view

Create(c) ==
    /\ view.page = "subscriptions"
    /\ Asking(c, "create", NoId)
    /\ UNCHANGED <<view, trail>>

-----------------------------------------------------------------------------
(* The API: a query reads at one moment, an operation is a call.           *)

ToStep(c, step) == asks' = [asks EXCEPT ![c].step = step]

Rejects(c) == asks' = [asks EXCEPT ![c].step = "failed", ![c].data = NoData]

GetSubscription(i) ==
    IF SubExists(i) THEN [id |-> i, status |-> subscriptions[i].status] ELSE NoData

GetUserPayments(i) == [id |-> i, status |-> "list"]

GetEventsByAggregate(i) == [id |-> i, status |-> "list"]

Answer(a) ==
    CASE a.kind = "load"                   -> NoData
      [] a.kind = "list"                   -> GetUserPayments(a.id)
      [] a.kind = "filter"                 -> GetEventsByAggregate(a.id)
      [] a.kind \in {"search", "refresh"} -> GetSubscription(a.id)

Query(c) ==
    /\ asks[c] # NoAsk
    /\ asks[c].step = "sent"
    /\ asks[c].kind \notin {"create", "cancel"}
    /\ LET found == asks[c].kind = "load" \/ Answer(asks[c]) # NoData
       IN  asks' = [asks EXCEPT ![c].step = IF found THEN "answered" ELSE "failed",
                                ![c].data = Answer(asks[c])]
    /\ UNCHANGED <<subVars, view, trail>>

Accept(c) ==
    /\ asks[c] # NoAsk
    /\ asks[c].step = "sent"
    /\ \E s \in Sub :
          /\ asks[c].kind = "create" \/ (asks[c].kind = "cancel" /\ s = asks[c].id)
          /\ SubBegin(c, asks[c].kind, s)
    /\ ToStep(c, "serving")
    /\ UNCHANGED <<view, trail>>

(* The answer of a call, or nobody to answer because the page gave up.     *)
Respond(c) ==
    /\ SubReturn(c)
    /\ IF asks[c] # NoAsk /\ asks[c].step = "serving"
       THEN ToStep(c, IF subCall[c].pc = "ok" THEN "answered" ELSE "failed")
       ELSE UNCHANGED asks
    /\ UNCHANGED <<view, trail>>

(* fetch rejects: the request or its answer is lost.                       *)
NetworkFails(c) ==
    /\ asks[c] # NoAsk
    /\ asks[c].step # "failed"
    /\ Rejects(c)
    /\ UNCHANGED <<subVars, view, trail>>

-----------------------------------------------------------------------------
(* The page goes on after its await. *)

(* A bug: the page shows the answer's envelope and not its data.           *)
MutShowsEnvelope(v, a) == IF a.step = "failed" THEN v ELSE [v EXCEPT !.shown = a]

Shows(v, a) == IF a.step = "failed" THEN v ELSE [v EXCEPT !.shown = a.data]

(* A bug: the subscription stays when the search for another one fails.    *)
MutKeepsOnError(v, a) == Shows(v, a)

ShowsOrClears(v, a) == IF a.step = "failed" THEN [v EXCEPT !.shown = NoData] ELSE Shows(v, a)

(* A bug: setLoading(false) at the end of try instead of in finally.       *)
MutNoFinally(v, a) == IF a.step = "failed" THEN v ELSE [v EXCEPT !.loading = FALSE]

Finally(v, a) == [v EXCEPT !.loading = FALSE]

Catches(v, a) == [v EXCEPT !.error = v.error \/ a.step = "failed"]

(* What an answer or an error leaves on the page.                          *)
Updates(v, a) ==
    CASE a.kind = "load"    -> Finally(v, a)
      [] a.kind = "list"    -> Finally(Shows(v, a), a)
      [] a.kind = "filter"  -> Shows(v, a)
      [] a.kind = "search"  -> Catches(ShowsOrClears(v, a), a)
      [] a.kind = "refresh" -> Catches(Shows(v, a), a)
      [] a.kind = "cancel"  -> Catches(v, a)
      [] a.kind = "create"  -> v

(* A bug: the page does not ask again after a cancellation.                *)
MutContinuation(a) == NoAsk

(* After its POST, cancelSubscription goes on to GET.                      *)
Continuation(a) ==
    IF a.kind = "cancel" /\ a.step = "answered" THEN NewAsk("refresh", a.id) ELSE NoAsk

Settle(c) ==
    LET a == asks[c]
    IN  /\ a # NoAsk
        /\ a.step \in {"answered", "failed"}
        /\ asks' = [asks EXCEPT ![c] = Continuation(a)]
        /\ view' = Updates(view, a)
        /\ trail' = [trail EXCEPT
              !.failed = trail.failed \/ (a.kind \in {"list", "filter"} /\ a.step = "failed"),
              !.cancelled = IF a.kind = "cancel" /\ a.step = "answered"
                            THEN trail.cancelled \cup {a.id} ELSE trail.cancelled]
        /\ UNCHANGED subVars

-----------------------------------------------------------------------------
DashInit ==
    /\ SubInit
    /\ view = Opened("payments")
    /\ asks = [c \in Caller |-> NoAsk]
    /\ trail = NoTrail

ServerOnly(step) == step /\ UNCHANGED <<view, asks, trail>>

DashNext ==
    \/ \E p \in Page : Open(p)
    \/ ClearFilter
    \/ \E c \in Caller :
          \/ \E i \in Sub :
                SearchPayments(c, i) \/ SearchByAggregate(c, i) \/ SearchSubscription(c, i)
          \/ Cancel(c)
          \/ Create(c)
          \/ Query(c)
          \/ Accept(c)
          \/ Respond(c)
          \/ NetworkFails(c)
          \/ Settle(c)
          \/ ServerOnly(SubCallStep(c))
          \/ ServerOnly(SubCallFault(c))
    \/ ServerOnly(SubCrash)

DashSpec == DashInit /\ [][DashNext]_dashVars

-----------------------------------------------------------------------------
(* Properties *)

(* A page shows what it was asked for last: somebody else's data only when *)
(* two of its requests overlapped, or, on the pages that keep the list     *)
(* they had, when the last one failed (subscriptions/page.tsx:34).         *)
ShownIsAsked ==
    ~Busy /\ ~trail.raced /\ view.shown # NoData =>
        view.shown.id = trail.asked \/ (view.page # "subscriptions" /\ trail.failed)

(* The page that was told its cancellation succeeded offers it again only  *)
(* beside an error, or when its requests overlapped (subscriptions/page.tsx:42). *)
CancelledIsShown ==
    /\ view.shown.status = "ACTIVE"
    /\ view.shown.id \in trail.cancelled
    /\ ~Busy
    => view.error \/ trail.raced

(* "Loading..." is shown only as long as an answer is awaited that takes   *)
(* it away, whatever fails, overlaps or is left behind                     *)
(* (payments/page.tsx:23, events/page.tsx:20, page.tsx:24).                *)
LoadingIsAwaited ==
    view.loading => \E c \in Caller : asks[c] # NoAsk /\ asks[c].kind \in {"load", "list"}
=============================================================================
