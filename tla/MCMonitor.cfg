CONSTANTS
    NEth = 2
    Source <- MCSource
    Hex <- MCHex
    Word = 16
    Delivered <- MCDelivered
    Frames <- MCFrames
SPECIFICATION LoopSpec
INVARIANT NothingLeft
PROPERTY LineMeaning
PROPERTY AnswersSender
