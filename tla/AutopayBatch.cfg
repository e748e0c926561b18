\* Two due subscriptions and room for one in a batch, a statement that fails,
\* and keys that expire.
SPECIFICATION AutopayFairSpec
CONSTANTS
    u1 = u1  k1 = k1  a1 = a1  s1 = s1  s2 = s2  o1 = o1  o2 = o2
    Caller = {a1, w1}
    Worker = {w1}
    Sub = {s1, s2}
    Order = {o1, o2, o3, o4}
    Aggregate = {s1, s2, o1, o2, o3, o4}
    User = {s1, s2}
    UserOf <- OwnUser
    Period <- UnitPeriod
    Key = {s1, s2}
    KeyOf <- OrdersOfEach
    RenewalKey <- OwnRenewalKey
    JobId = {j1}
    EventType = {"PAYMENT_CREATED", "PAYMENT_COMPLETED", "PAYMENT_FAILED", "PAYMENT_REFUNDED",
                 "SUBSCRIPTION_CREATED", "SUBSCRIPTION_RENEWED", "SUBSCRIPTION_CANCELLED", "SUBSCRIPTION_EXPIRED"}
    PaymentOp = {}
    SubOp = {"create"}
    DbFault = {"rejected"}
    MaxVersion = 2
    MaxTime = 1
    KeyExpires = TRUE
    CanCrash = FALSE
    NoOrder = NoOrder
    Attempts = 1
    MaxStalled = 1
    BatchSize = 1
    MaxFailures = 1
    MaxCrashes = 0
PROPERTIES
    DueIsServed
\* The clock and the histories are bounded: in the end nothing is left to do.
CHECK_DEADLOCK FALSE
