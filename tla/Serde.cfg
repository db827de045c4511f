SPECIFICATION SerdeSpec
CONSTANTS
    Word = 16
    Processes = {"a", "b"}
    Base <- MCBase
    Places <- MCPlaces
    Objects <- MCObjects
    Sent <- MCSent
    OnHeap <- MCOnHeap
    HeapOf <- MCHeapOf
    Resources <- MCResources
    Sender = "a"
    Receiver = "b"
    MaxObjects = 2
INVARIANTS
    RoundTrip
    NothingLeft
    ShortTableYieldsNothing
\* The system stops when everything has been read.
CHECK_DEADLOCK FALSE
