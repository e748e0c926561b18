\* The whole life of one payment under two overlapping calls of every kind,
\* failed statements and crashes.
SPECIFICATION PaymentSpec
CONSTANTS
    c1 = c1  c2 = c2  o1 = o1  o2 = o2  k1 = k1  k2 = k2
    Caller = {c1, c2}
    Order = {o1}
    Aggregate = {o1}
    Key = {k1}
    KeyOf <- SameKey
    EventType = {"PAYMENT_CREATED", "PAYMENT_COMPLETED", "PAYMENT_FAILED", "PAYMENT_REFUNDED"}
    PaymentOp = {"create", "complete", "refund", "fail"}
    DbFault = {"rejected", "replyLost"}
    MaxVersion = 3
    KeyExpires = FALSE
    CanCrash = TRUE
    NoOrder = NoOrder
SYMMETRY CallerSymmetry
INVARIANTS
    EventsFollowRows
    RepeatsOnlyByOverlap
    ReadModelNeverAhead
    TotalsMissAtMostOne
PROPERTIES
    PendingIsLeftForGood
    LostOnlyByFault
\* No call starts on an order whose history is at MaxVersion.
CHECK_DEADLOCK FALSE
