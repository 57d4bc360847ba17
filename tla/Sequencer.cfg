\* One stream of up to three messages, each of which may arrive again and again,
\* one of them also while it is buffered, and a window of two messages.
CONSTANTS
    Stream = {s1}
    NoStream = NoStream
    AckWindow = 2
    UintMax = 9
    MaxSeq = 3
    Repeated = {1}
    MaxCopies = 2
SPECIFICATION FairSpec
INVARIANTS
    DiscardedIsForwarded
PROPERTIES
    RequestsOnlyMissing
    DeliversStreams
    Completes
