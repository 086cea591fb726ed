SPECIFICATION FairSpec
CONSTANTS
    Kinds <- AllKinds
    Answers <- ServerAnswers
    FileData <- ThreeBytes
    Faults <- Mishaps
    BufSize = 2
    PayloadMax = 1
    Base = 2
INVARIANTS TypeOK BytesMatched ReplyIsTrue NothingOutlives
PROPERTIES CommandsEnd
CHECK_DEADLOCK FALSE
