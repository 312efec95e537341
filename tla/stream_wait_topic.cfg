\* A relay that carries another stream.
CONSTANTS
    alice = alice
    Broadcaster = Broadcaster
    Listener <- OneListener
    LastChunk = 1
    Stream = Stream
    Other = Other
    Faults <- NoFaults
SPECIFICATION Spec
INVARIANTS WaitEndsOnOurTopic
CHECK_DEADLOCK FALSE
