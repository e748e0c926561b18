\* Two identical requests at once, nothing failing.
SPECIFICATION PaymentSpec
CONSTANTS
    c1 = c1  c2 = c2  o1 = o1  o2 = o2  k1 = k1  k2 = k2
    Caller = {c1, c2}
    Order = {o1, o2}
    Aggregate = {o1, o2}
    Key = {k1}
    KeyOf <- SameKey
    EventType = {"PAYMENT_CREATED", "PAYMENT_COMPLETED", "PAYMENT_FAILED", "PAYMENT_REFUNDED"}
    PaymentOp = {"create", "complete"}
    DbFault = {}
    MaxVersion = 2
    KeyExpires = FALSE
    CanCrash = FALSE
    NoOrder = NoOrder
INVARIANTS
    OnePaymentPerKey
\* No call starts on an order whose history is at MaxVersion.
CHECK_DEADLOCK FALSE
