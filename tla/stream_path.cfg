\* One listener, three chunks, everything may go wrong.
CONSTANTS
    alice = alice
    Broadcaster = Broadcaster
    Listener <- OneListener
    LastChunk = 3
    Stream = Stream
    Other = Other
    Faults <- EveryFault
SPECIFICATION LiveSpec
INVARIANTS TypeOK AllOrNothing ChunksFindTheRelay HearsFromThenOn
PROPERTIES ImplementsService HearsAll BroadcastReturns
CHECK_DEADLOCK FALSE
