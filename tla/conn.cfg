SPECIFICATION Spec
CONSTANTS
    Streams <- SomeStreams
    HeadLimit = 8
    HeadRead = 5
    BodyLimit = 3
    BodyRead = 2
    Timeout = 2
INVARIANTS
    TypeOK
    BlankLineFound
    BufferBounded
    SilentDrop
    CleanClose
PROPERTIES
    ImplementsFraming
CHECK_DEADLOCK FALSE
