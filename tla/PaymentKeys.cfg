\* Two orders of one user and product: overlapping creations and completions,
\* failed statements, crashes, expiry of the idempotency key.
\* The rows of event_store implement an append-only history per order.
SPECIFICATION PaymentSpec
CONSTANTS
    c1 = c1  c2 = c2  o1 = o1  o2 = o2  k1 = k1  k2 = k2
    Caller = {c1, c2}
    Order = {o1, o2}
    Aggregate = {o1, o2}
    Key = {k1}
    KeyOf <- SameKey
    EventType = {"PAYMENT_CREATED", "PAYMENT_COMPLETED", "PAYMENT_FAILED", "PAYMENT_REFUNDED"}
    PaymentOp = {"create", "complete"}
    DbFault = {"rejected", "replyLost"}
    MaxVersion = 2
    KeyExpires = TRUE
    CanCrash = TRUE
    NoOrder = NoOrder
SYMMETRY Symmetry
INVARIANTS
    BusTypeOK
    VersionsAreContiguous
    PublishedIsStored
    PaymentTypeOK
    AcknowledgedIsDurable
    KeyNamesItsOrder
    JobsAreLogged
PROPERTIES
    ImplementsEventLog
\* No call starts on an order whose history is at MaxVersion.
CHECK_DEADLOCK FALSE
