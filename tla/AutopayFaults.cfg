\* One worker and a client that creates and cancels: a statement that fails or
\* loses its reply, two crashes.
SPECIFICATION AutopayFairSpec
CONSTANTS
    u1 = u1  k1 = k1  a1 = a1  s1 = s1  s2 = s2  o1 = o1  o2 = o2
    Caller = {a1, w1}
    Worker = {w1}
    Sub = {s1}
    Order = {o1, o2, o3}
    Aggregate = {s1, o1, o2, o3}
    User = {u1}
    UserOf <- SameUser
    Period <- UnitPeriod
    Key = {k1}
    KeyOf <- OneKey
    RenewalKey <- OneRenewalKey
    JobId = {j1}
    EventType = {"PAYMENT_CREATED", "PAYMENT_COMPLETED", "PAYMENT_FAILED", "PAYMENT_REFUNDED",
                 "SUBSCRIPTION_CREATED", "SUBSCRIPTION_RENEWED", "SUBSCRIPTION_CANCELLED", "SUBSCRIPTION_EXPIRED"}
    PaymentOp = {}
    SubOp = {"create", "cancel"}
    DbFault = {"rejected", "replyLost"}
    MaxVersion = 2
    MaxTime = 1
    KeyExpires = FALSE
    CanCrash = FALSE
    NoOrder = NoOrder
    Attempts = 3
    MaxStalled = 1
    BatchSize = 1
    MaxFailures = 1
    MaxCrashes = 2
INVARIANTS
    AutopayTypeOK
    ExtensionsArePaid
    DeadLettersHaveFailed
PROPERTIES
    JobsAreNotLost
    CancelledStopsRenewal
    DueIsDecided
\* The clock and the histories are bounded: in the end nothing is left to do.
CHECK_DEADLOCK FALSE
