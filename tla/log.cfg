CONSTANTS
    Size = 4
    MaxText = 3
    App = app
    Threads = {app, other}
    MaxChars = 10
    MaxFiles = 3
    app = app
    other = other
SPECIFICATION Spec
INVARIANTS TypeOK Accounted OnlyWhatWasPut RedirectedIsEmpty LogHarmless
CHECK_DEADLOCK FALSE
