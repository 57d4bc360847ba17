---------------------------- MODULE KeyValueAdapter ----------------------------
(***************************************************************************)
(* Files kept as objects of one block each in a key-value storage          *)
(* (src/helpers/src/keyValueAdapter.cc, keyValueHelper.h).  "objects" maps *)
(* the ids of the blocks that exist to their bytes; bytes are a sequence   *)
(* of values and a zero byte is 0.                                         *)
(*                                                                         *)
(* The storage is S3 (s3Helper.cc) or Swift (swiftHelper.cc): they list    *)
(* the objects of a file page by page, delete them in batches and have     *)
(* error codes of their own.  A key counts down from MAX_OBJECT_ID, so a   *)
(* listing in the order of keys has the last block of the file first.      *)
(***************************************************************************)
EXTENDS Integers, Sequences, SequencesExt, HashMaps

CONSTANTS
    MaxList,        \* MAX_LIST_OBJECTS: keys asked for in Swift's first page
    ServerList,     \* keys a server lists at once when it is not asked for fewer
    MaxDelete       \* MAX_DELETE_OBJECTS

Zeros(n) == [i \in 1..n |-> 0]
Smaller(a, b) == IF a < b THEN a ELSE b
Larger(a, b) == IF a > b THEN a ELSE b

GetBlockId(offset, blockSize) == offset \div blockSize
GetBlockOffset(offset, blockSize) == offset - GetBlockId(offset, blockSize) * blockSize

\* Reading of a block into a buffer: bytes that the object lacks leave it as it is.
GetBlock(objects, block, offset, buf) ==
    LET object == IF block \in DOMAIN objects THEN objects[block] ELSE <<>>
    IN [i \in DOMAIN buf |-> IF offset + i <= Len(object) THEN object[offset + i] ELSE buf[i]]

\* ------------------------------------------------------------------------ writing
\* The loop of ash_write(): the parts of a write, a block each.
WriteLoop(block, offset, data, blockSize) ==
    LET size == Len(data)
        loop[bufOffset \in 0..size] ==
            LET from == IF bufOffset = 0 THEN offset ELSE 0
                n == Smaller(blockSize - from, size - bufOffset)
            IN IF bufOffset = size THEN <<>>
               ELSE <<[block |-> block + GetBlockId(offset + bufOffset, blockSize), offset |-> from,
                       data |-> SubSeq(data, bufOffset + 1, bufOffset + n)]>> \o loop[bufOffset + n]
    IN loop[0]

WriteParts(offset, data, blockSize) ==
    WriteLoop(GetBlockId(offset, blockSize), GetBlockOffset(offset, blockSize), data, blockSize)

\* A part is merged with what was fetched, unless it fills the block.
MergeBlock(fetched, part, blockSize) ==
    LET size == Larger(Len(fetched), part.offset + Len(part.data))
    IN IF Len(part.data) = blockSize THEN part.data
       ELSE [i \in 1..size |->
                IF i > part.offset /\ i <= part.offset + Len(part.data)
                THEN part.data[i - part.offset]
                ELSE IF i <= Len(fetched) THEN fetched[i] ELSE 0]

\* ------------------------------------------------------------------------ reading
\* getObjectsSize() by what it is for: the end of the last block.
GetObjectsSize(objects, blockSize) ==
    IF DOMAIN objects = {} THEN 0
    ELSE LET last == CHOOSE b \in DOMAIN objects : \A c \in DOMAIN objects : c <= b
         IN last * blockSize + Len(objects[last])

\* Variant of ReadLoop: the first part counts as a whole block.
ReadLoopByBlocks(block, offset, size, blockSize) ==
    LET loop[bufOffset \in Nat] ==
            LET from == IF bufOffset = 0 THEN offset ELSE 0
            IN IF bufOffset >= size THEN <<>>
               ELSE <<[block |-> block + GetBlockId(offset + bufOffset, blockSize), offset |-> from,
                       at |-> bufOffset, size |-> Smaller(blockSize, size - bufOffset)]>>
                    \o loop[bufOffset + blockSize]
    IN loop[0]

\* The loop of ash_read(): the parts of the buffer that are read from a block each.
ReadLoop(block, offset, size, blockSize) ==
    LET loop[bufOffset \in Nat] ==
            LET from == IF bufOffset = 0 THEN offset ELSE 0
            IN IF bufOffset >= size THEN <<>>
               ELSE <<[block |-> block + GetBlockId(offset + bufOffset, blockSize), offset |-> from,
                       at |-> bufOffset, size |-> Smaller(blockSize, size - bufOffset)]>>
                    \o loop[bufOffset + blockSize - from]
    IN loop[0]

ReadParts(fileSize, offset, size, blockSize) ==
    IF offset >= fileSize THEN <<>>
    ELSE ReadLoop(GetBlockId(offset, blockSize), GetBlockOffset(offset, blockSize),
                  Smaller(size, fileSize - offset), blockSize)

\* The buffer after a part was read into it.
ReadPart(objects, buf, part) ==
    LET place == GetBlock(objects, part.block, part.offset, SubSeq(buf, part.at + 1, part.at + part.size))
    IN [i \in DOMAIN buf |-> IF i > part.at /\ i <= part.at + part.size
                             THEN place[i - part.at] ELSE buf[i]]

\* ------------------------------------------------------------ truncation, removal
TruncateDeletes(objects, size, blockSize) ==
    LET block == GetBlockId(size, blockSize)
        offset == GetBlockOffset(size, blockSize)
    IN {b \in DOMAIN objects : b > block \/ (b = block /\ offset = 0)}

\* The block that becomes the last one is cut, or filled up with zeros.
TruncatePut(objects, size, blockSize) ==
    LET offset == GetBlockOffset(size, blockSize)
        block == IF offset = 0 THEN GetBlockId(size, blockSize) - 1 ELSE GetBlockId(size, blockSize)
        length == IF offset = 0 THEN blockSize ELSE offset
    IN IF block < 0 THEN objects
       ELSE Put(objects, block, GetBlock(objects, block, 0, Zeros(length)))

DeleteObjects(objects, blocks) == RestrictDomain(objects, LAMBDA b : b \notin blocks)

\* ---------------------------------------------------------------- keys of the stores
MaxObjectId == 999999

GetKey(id) == MaxObjectId - id
GetObjectId(key) == MaxObjectId - key

Keys(objects) == SetToSortSeq({GetKey(id) : id \in DOMAIN objects}, <)

\* A page of a listing: the first keys after a marker.
Page(keys, marker, limit) ==
    LET after == SelectSeq(keys, LAMBDA k : k > marker)
    IN SubSeq(after, 1, Smaller(limit, Len(after)))

\* ---------------------------------------------------------------------------- errors
S3Errors ==
    [INVALID_PARAMETER_VALUE |-> "EINVAL", MISSING_ACTION |-> "ENOTSUP",
     SERVICE_UNAVAILABLE |-> "EHOSTUNREACH", NETWORK_CONNECTION |-> "ENETUNREACH",
     REQUEST_EXPIRED |-> "ETIMEDOUT", ACCESS_DENIED |-> "EACCES", UNKNOWN |-> "ENOENT",
     NO_SUCH_BUCKET |-> "ENOENT", NO_SUCH_KEY |-> "ENOENT", RESOURCE_NOT_FOUND |-> "ENOENT"]

SwiftErrors ==
    [NOT_FOUND |-> "ENOENT", REQUESTED_RANGE_NOT_SATISFIABLE |-> "ENOENT",
     REQUEST_TIMEOUT |-> "ETIMEDOUT", LENGTH_REQUIRED |-> "EINVAL", UNAUTHORIZED |-> "EACCES"]

S3ReturnCode(error) == IF error \in DOMAIN S3Errors THEN S3Errors[error] ELSE "EIO"
SwiftReturnCode(status) == IF status \in DOMAIN SwiftErrors THEN SwiftErrors[status] ELSE "EIO"

\* --------------------------------------------------------------------- sizes of files
S3ObjectsSize(objects, blockSize) ==
    LET page == Page(Keys(objects), -1, 1)
    IN IF page = <<>> THEN 0
       ELSE GetObjectId(Last(page)) * blockSize + Len(objects[GetObjectId(Last(page))])

SwiftObjectsSize(objects, blockSize) ==
    LET page == Page(Keys(objects), -1, ServerList)
    IN IF page = <<>> THEN 0
       ELSE GetObjectId(Head(page)) * blockSize + Len(objects[GetObjectId(Head(page))])

\* -------------------------------------------------------------------------- listings
S3ListFrom(keys) ==
    LET from[marker \in {-1} \cup Range(keys)] ==
            LET page == Page(keys, marker, ServerList)
                truncated == page # <<>> /\ Last(page) # Last(keys)
            IN IF truncated THEN page \o from[Last(page)] ELSE page
    IN from[-1]

S3ListObjects(objects) == S3ListFrom(Keys(objects))

\* The parameter "limit" is replaced by the marker from the second page on.
SwiftListFrom(keys) ==
    LET after[n \in 0..Len(keys)] ==
            LET page == IF n = 0 THEN Page(keys, -1, Smaller(MaxList, ServerList))
                        ELSE Page(keys, keys[n], ServerList)
            IN IF Len(page) # MaxList THEN page ELSE page \o after[n + Len(page)]
    IN after[0]

SwiftListObjects(objects) == SwiftListFrom(Keys(objects))

\* -------------------------------------------------------------------------- deletion
Deleted(objects, keys) == DeleteObjects(objects, {GetObjectId(k) : k \in Range(keys)})

\* Batches from the end of the vector.
S3DeleteObjects(objects, keys) ==
    LET upTo[n \in 0..Len(keys)] ==
            LET batch == Smaller(n, MaxDelete)
            IN IF n = 0 THEN objects
               ELSE Deleted(upTo[n - batch], SubSeq(keys, n - batch + 1, n))
    IN upTo[Len(keys)]

\* Batches from its beginning.
SwiftDeleteObjects(objects, keys) ==
    LET after[n \in 0..Len(keys)] ==
            LET batch == Smaller(Len(keys) - n, MaxDelete)
            IN IF n = Len(keys) THEN objects
               ELSE Deleted(after[n + batch], SubSeq(keys, n + 1, n + batch))
    IN after[0]

\* ------------------------------------------------ ash_truncate(), ash_unlink() on them
ListObjects(store, objects) ==
    IF store = "s3" THEN S3ListObjects(objects) ELSE SwiftListObjects(objects)

DeleteKeys(store, objects, keys) ==
    IF store = "s3" THEN S3DeleteObjects(objects, keys) ELSE SwiftDeleteObjects(objects, keys)

Truncate(store, objects, size, blockSize) ==
    LET doomed == TruncateDeletes(objects, size, blockSize)
        keys == SelectSeq(ListObjects(store, objects), LAMBDA k : GetObjectId(k) \in doomed)
    IN DeleteKeys(store, TruncatePut(objects, size, blockSize), keys)

Unlink(store, objects) == DeleteKeys(store, objects, ListObjects(store, objects))
================================================================================
