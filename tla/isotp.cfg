CONSTANTS
    Sizes <- MCSizes
    AnswerSizes <- MCAnswerSizes
    Ecus = {ecu1}
    MaxMessages = 1
    MaxLost = 2
SPECIFICATION Spec
INVARIANTS TypeOK FramesAccepted WholeOrNothing AnswerDecoded
