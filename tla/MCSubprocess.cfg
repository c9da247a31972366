SPECIFICATION Spec
CONSTANTS
    w1 = w1
    w2 = w2
    d1 = d1
    d2 = d2
    Protocols = {"stream", "stream_no_stdin", "plain"}
    Waiters <- MCWaiters
    Drains <- MCDrains
    MaxOut = 2
    MaxIn = 2
SYMMETRY MCSymmetry
INVARIANTS
    NoBlockingRead
    OutputBeforeEof
    StdoutIsWatched
    WaitersGetTheCode
    StdinInOrder
CHECK_DEADLOCK FALSE
