CONSTANTS
    Sizes = {1}
    AnswerSizes <- MCShort
    Ecus = {ecu1, ecu2}
    MaxMessages = 2
    MaxLost = 0
SPECIFICATION Spec
INVARIANT AnswerDecoded
