\* Two keys and three buckets; four addresses, so that every tick reuses the
\* bucket freed by the tick before it.
CONSTANTS
    Key = {k1, k2}
    BucketsCount = 3
    Addr = {a1, a2, a3, a4}
    nullptr = nullptr
    MaxPins = 2
SPECIFICATION Spec
SYMMETRY Symmetry
PROPERTIES
    PurgesOnlyExpired
    TracksAsPromised
\* The process ends when an assertion fires.
CHECK_DEADLOCK FALSE
