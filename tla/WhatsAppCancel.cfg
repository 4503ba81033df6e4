CONSTANTS
    Messages = {m1}
    Drainers = {d1}
    Workers = {w1}
    NoMessage = NoMessage
    MaxAttempts = 2
    MaxSends = 2
    MaxRetries = 1
    MaxCrashes = 0
SPECIFICATION Spec
PROPERTIES CanceledOnlyIfIdle
