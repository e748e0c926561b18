\* Two connections, two subscriptions: searches, cancellations and creations
\* that overlap, fail, and outlive their page.
SPECIFICATION DashSpec
CONSTANTS
    Caller = {c1, c2}
    Sub = {s1, s2}
    Aggregate = {s1, s2}
    User = {s1, s2}
    UserOf <- OwnUser
    Period <- UnitPeriod
    EventType = {"SUBSCRIPTION_CREATED", "SUBSCRIPTION_RENEWED", "SUBSCRIPTION_CANCELLED", "SUBSCRIPTION_EXPIRED"}
    SubOp = {"create", "cancel"}
    DbFault = {"rejected", "replyLost"}
    MaxVersion = 2
    MaxTime = 0
    NoId = NoId
SYMMETRY Symmetry
INVARIANTS
    DashTypeOK
    ShownIsAsked
    CancelledIsShown
    LoadingIsAwaited
\* A request about a subscription whose history is at MaxVersion waits.
CHECK_DEADLOCK FALSE
