SPECIFICATION Spec
CONSTANTS
    Requests = {r1, r2, r3}
    Statuses = {ok, bad}
    Expected <- NoneOrOk
    ok = ok
    bad = bad
    MaxFailures = 2
    RetryDelay = 3
    MaxStall = 1
    MaxLocal = 1
PROPERTIES
    ProbesAreSpaced
    Opens
    Closes
