CONSTANTS
    h1 = h1
    iso = iso
    Callers = {app}
    App = app
    Headers = {h1, iso}
    Scripts = {}
    HeaderISO = iso
    HeaderReset = reset
    Unset = unset
    MaxRetries = 1
    MaxFrames = 2
    Messages <- MCMessages
    MaxCalls = 3
    MaxBacklog = 0
    MaxLines = 3
SPECIFICATION Spec
INVARIANTS TypeOK HeaderRight AnswersMatchRequests ReceivedInOrder PokesDoNotMultiply
PROPERTIES BusOrdered ImplementsStream
