CONSTANTS
    MaxObligations = 1
    Senders = {s1, s2}
    Hosts = {h1}
    HostOwner = HostOwner
    AckPolicies = {"required-ack", "no-ack"}
    Outcomes = {"delivered-unacknowledged", "retryable-failure", "unsupported"}
    MaxAttempts = 2
    Leases = {1}
    HostLease = 1
    RetryBase = 1
    RetryCap = 2
    Delays = {2}
    ReplayLimit = 1
    Crashes = TRUE
    MaxGen = 3
    MaxTime = 3
SPECIFICATION Spec
CHECK_DEADLOCK FALSE
INVARIANT TypeOK
INVARIANT OpenAttemptAccepted
INVARIANT SentOnce
INVARIANT BackoffKept
INVARIANT AcknowledgedWasDelivered
PROPERTY ImplementsLife
