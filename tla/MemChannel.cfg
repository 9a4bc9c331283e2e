SPECIFICATION Spec
CONSTANTS
    buf_size = 4
    Modulus = 16
    Base = 4
    Header = 2
    Chunk = {1, 2, 4}
    Message <- MCMessage
    MaxMessages = 3
INVARIANTS TypeOK RecvInOrder NothingCut NeverStuck LengthAsserted
PROPERTIES AllReceived IsFifo
