CONSTANTS
    h1 = h1
    iso = iso
    Callers = {app}
    App = app
    Headers = {h1, iso}
    Scripts = {"iso"}
    HeaderISO = iso
    HeaderReset = reset
    Unset = unset
    MaxRetries = 1
    MaxFrames = 1
    Messages <- MCSingle
    MaxCalls = 2
    MaxBacklog = 0
    MaxLines = 3
SPECIFICATION Spec
PROPERTY VerifyConfirms
