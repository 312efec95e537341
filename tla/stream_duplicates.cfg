\* Nothing goes wrong.
CONSTANTS
    alice = alice
    Broadcaster = Broadcaster
    Listener <- OneListener
    LastChunk = 1
    Stream = Stream
    Other = Other
    Faults <- NoFaults
SPECIFICATION Spec
INVARIANTS HearsEachOnce
CHECK_DEADLOCK FALSE
