CONSTANTS
    h1 = h1
    iso = iso
    Callers = {app, bg}
    App = app
    Headers = {h1, iso}
    Scripts = {}
    HeaderISO = iso
    HeaderReset = reset
    Unset = unset
    MaxRetries = 0
    MaxFrames = 1
    Messages <- MCSingle
    MaxCalls = 2
    MaxBacklog = 0
    MaxLines = 3
SPECIFICATION ConnectedSpec
INVARIANTS HeaderRight PokesDoNotMultiply
