\* One byte at a time, the Pico prompt: every call pairing.
SPECIFICATION FairSpec
CONSTANTS
    zero = zero
    b1 = b1
    b2 = b2
    Byte <- MCByte
    Zero <- MCZero
    PicoPrompt = TRUE
INVARIANTS
    TypeOK
    QuiescentBetweenCalls
    NoStaleAck
    CleanSample
PROPERTIES
    ImplementsByteLink
    CallsReturn
