CONSTANTS
    Eol = "eol"
    NoChar = "none"
    RxSize = 3
    LineSize = 2
    HwSize = 1
    Timeout = 1
    Replies <- MCReplies
    Alphabets <- MCAlphabets
SPECIFICATION Spec
INVARIANT RingConsistent
PROPERTY DeliversLines
PROPERTY PutReturns
PROPERTY LineServed
