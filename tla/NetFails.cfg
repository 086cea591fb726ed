SPECIFICATION Spec
CONSTANTS
    Kinds = {"news", "raw"}
    Answers <- ServerAnswers
    FileData <- ThreeBytes
    Faults <- Unreachable
    BufSize = 2
    PayloadMax = 1
    Base = 2
INVARIANT FailsBeforeStreaming
