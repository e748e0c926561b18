\* Requests that do not overlap: failed statements, lost replies, crashes,
\* and clients that try again after any of them, on two orders of one key.
SPECIFICATION PaymentFairSpec
CONSTANTS
    c1 = c1  c2 = c2  o1 = o1  o2 = o2  k1 = k1  k2 = k2
    Caller = {c1}
    Order = {o1, o2}
    Aggregate = {o1, o2}
    Key = {k1}
    KeyOf <- SameKey
    EventType = {"PAYMENT_CREATED", "PAYMENT_COMPLETED", "PAYMENT_FAILED", "PAYMENT_REFUNDED"}
    PaymentOp = {"create", "complete", "refund", "fail"}
    DbFault = {"rejected", "replyLost"}
    MaxVersion = 3
    KeyExpires = FALSE
    CanCrash = TRUE
    NoOrder = NoOrder
INVARIANTS
    CompletedOnce
    RefundedOnce
    OneJobPerKey
PROPERTIES
    ReplayBrokenOnlyByFault
    CallsReturn
\* No call starts on an order whose history is at MaxVersion.
CHECK_DEADLOCK FALSE
