\* To the provider: two senders and three messages, a gap between two of them.
\* From the provider: a stream that stays empty.
CONSTANTS
    Thread = {t1, t2}
    None = None
    MaxSeq = 3
    MaxAnswers = 2
    Stream = {s1}
    NoStream = NoStream
    AckWindow = 2
    UintMax = 9
    Repeated = {}
    MaxCopies = 1
SPECIFICATION OutSpec
INVARIANTS
    OnlyReceivedAreForgotten
PROPERTIES
    HandlersReturn
\* The stream ends.
CHECK_DEADLOCK FALSE
