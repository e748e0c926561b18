\* Two workers with two jobs and a client that subscribes and pays for the same
\* plan, nothing failing; the idempotency key may run out at any time.
SPECIFICATION AutopaySpec
CONSTANTS
    u1 = u1  k1 = k1  a1 = a1  s1 = s1  s2 = s2  o1 = o1  o2 = o2
    Caller = {a1, w1, w2}
    Worker = {w1, w2}
    Sub = {s1}
    Order = {o1, o2, o3}
    Aggregate = {s1, o1, o2, o3}
    User = {u1}
    UserOf <- SameUser
    Period <- UnitPeriod
    Key = {k1}
    KeyOf <- OneKey
    RenewalKey <- OneRenewalKey
    JobId = {j1, j2}
    EventType = {"PAYMENT_CREATED", "PAYMENT_COMPLETED", "PAYMENT_FAILED", "PAYMENT_REFUNDED",
                 "SUBSCRIPTION_CREATED", "SUBSCRIPTION_RENEWED", "SUBSCRIPTION_CANCELLED", "SUBSCRIPTION_EXPIRED"}
    PaymentOp = {"create"}
    SubOp = {"create"}
    DbFault = {}
    MaxVersion = 2
    MaxTime = 1
    KeyExpires = TRUE
    CanCrash = FALSE
    NoOrder = NoOrder
    Attempts = 3
    MaxStalled = 1
    BatchSize = 1
    MaxFailures = 0
    MaxCrashes = 0
SYMMETRY Symmetry
INVARIANTS
    ExtensionsArePaid
\* The clock and the histories are bounded: in the end nothing is left to do.
CHECK_DEADLOCK FALSE
