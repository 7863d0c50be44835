CONSTANTS
    h1 = h1
    iso = iso
    Callers = {app}
    App = app
    Headers = {h1, iso}
    Scripts = {"iso", "vpw", "volt"}
    HeaderISO = iso
    HeaderReset = reset
    Unset = unset
    MaxRetries = 1
    MaxFrames = 1
    Messages <- MCSingle
    MaxCalls = 3
    MaxBacklog = 0
    MaxLines = 3
SPECIFICATION FairSpec
INVARIANT HeaderRight
PROPERTIES VerifiedIsTrue CallReturns
