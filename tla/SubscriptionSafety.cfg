\* Two overlapping calls on three subscriptions of a user, failed statements,
\* crashes.
SPECIFICATION SubSpec
CONSTANTS
    Caller = {c1, c2}
    Sub = {s1, s2, s3}
    Aggregate = {s1, s2, s3}
    u1 = u1
    User = {u1}
    UserOf <- SameUser
    Period <- UnitPeriod
    EventType = {"SUBSCRIPTION_CREATED", "SUBSCRIPTION_RENEWED", "SUBSCRIPTION_CANCELLED", "SUBSCRIPTION_EXPIRED"}
    SubOp = {"create", "cancel"}
    DbFault = {"rejected", "replyLost"}
    MaxVersion = 3
    MaxTime = 1
SYMMETRY Symmetry
INVARIANTS
    SubTypeOK
    SubAcknowledgedIsDurable
    ActiveOnlyByOverlap
    CancelledOnlyByOverlap
\* No call starts on a subscription whose history is at MaxVersion.
CHECK_DEADLOCK FALSE
