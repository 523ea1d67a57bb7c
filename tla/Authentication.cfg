\* Two concurrent requests, a token of two ticks, a restart.
SPECIFICATION Spec
CONSTANTS
    Requests = {r1, r2}
    Streams = {r2}
    Ttl = 2
    Margin = 1
    Leeway = 1
    Window = 2
    MaxFailures = 1
    Transit = 1
    None = None
    MaxTime = 4
    MaxRequests = 3
    MaxRestarts = 1
    MaxChanges = 1
CHECK_DEADLOCK FALSE
INVARIANTS
    RetrySuffices
    ExpiryUnseen
    LimiterExact
PROPERTIES
    RequestsEnd
