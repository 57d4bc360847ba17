------------------------------- MODULE Messages -------------------------------
(***************************************************************************)
(* The messages of the client's protocol: what the serializeAndDestroy()   *)
(* of a request puts into its protobuf message, what the constructor of an *)
(* answer makes of one, and how an error becomes the errno of a file       *)
(* operation (src/src/messages, src/helpers/src/messages,                  *)
(* src/src/fsOperations.cc).                                               *)
(*                                                                         *)
(* A client message is the record of the fields that are set.  A server    *)
(* message has the kind of its body, the code of the body's status and the *)
(* one field of the body that is set.  An error is its category and value: *)
(* values of the generic category are the numbers of errno.h.              *)
(***************************************************************************)
EXTENDS EventTypes, TLC

\* The value of an optional field that is set.
The(optional) == CHOOSE x \in optional : TRUE

\* ------------------------------------------------------------------- status
Errc == [ENOENT |-> 2, EIO |-> 5, EAGAIN |-> 11, EACCES |-> 13, EPROTO |-> 71,
         ENOTSUP |-> 95, ENOTCONN |-> 107, ETIMEDOUT |-> 110, ECANCELED |-> 125]

GenericError(name) == [category |-> "generic", value |-> Errc[name]]

\* asio::error::eof: not a number of errno.h.
EndOfFile == [category |-> "asio.misc", value |-> 2]

\* The pairs of createTranslation(), in order, as far as numbers meet: every other code has
\* a number to itself.
Pairs == << <<"ok", 0>>, <<"eio", 5>>, <<"enoent", 2>>, <<"enotsup", 95>>, <<"eopnotsupp", 95>>,
            <<"ewouldblock", 11>>, <<"eacces", 13>>, <<"eproto", 71>>, <<"eagain", 11>> >>

Translation == [code \in {p[1] : p \in Range(Pairs)} |->
                    CHOOSE v \in {p[2] : p \in Range(Pairs)} : <<code, v>> \in Range(Pairs)]

\* Variant: a code the client does not know is no error.
StatusUnknownIsOk(code) == IF code \in DOMAIN Translation THEN Translation[code] ELSE 0

Status(code) == IF code \in DOMAIN Translation THEN Translation[code] ELSE Errc.EPROTO

\* Of two codes with one number the first is sent.
StatusCode(value) == Pairs[Min({i \in DOMAIN Pairs : Pairs[i][2] = value})][1]

\* ----------------------------------------------- results of constructors
Value(v) == [ok |-> TRUE, value |-> v]

Throws(error) == [ok |-> FALSE, error |-> error]

ProtocolError == Throws(GenericError("EPROTO"))

Then(result, next) == IF result.ok THEN next ELSE result

ThrowOnError(value) ==
    IF value = 0 THEN Value("done") ELSE Throws([category |-> "generic", value |-> value])

\* The status and the fields of a body that is not there are those of an empty message.
StatusOf(m, kind) == Status(IF m.kind = kind THEN m.status ELSE "ok")

FieldOf(m, kind, field) ==
    IF m.kind = kind /\ m.field = field THEN Value(m.value) ELSE ProtocolError

\* ----------------------------------------------------------------- answers
FuseResponse(m) ==
    IF m.kind # "fuse_response" THEN ProtocolError ELSE ThrowOnError(Status(m.status))

FuseField(m, field) == Then(FuseResponse(m), FieldOf(m, "fuse_response", field))

FileAttr(m) ==
    LET attr == FuseField(m, "file_attr")
    IN  IF attr.ok /\ attr.value.type \notin {"DIR", "REG", "LNK"} THEN ProtocolError ELSE attr

\* A block without storage or file id is one of the location's own.
BlockOf(location, block) ==
    Interval(block.offset, block.size,
             FileBlock(IF block.storageId = {} THEN location.storageId ELSE The(block.storageId),
                       IF block.fileId = {} THEN location.fileId ELSE The(block.fileId)))

JoinedBlocks(location) ==
    MapThenFoldSet(LAMBDA block, blocks : PlusBlocks(blocks, BlockOf(location, block)),
                   [b \in {} |-> NoBlock], LAMBDA i : location.blocks[i], Max,
                   DOMAIN location.blocks)

FileLocation(m) ==
    LET location == FuseField(m, "file_location")
    IN  IF location.ok THEN Value([location.value EXCEPT !.blocks = JoinedBlocks(location.value)])
        ELSE location

FileChildren(m) == FuseField(m, "file_children")

FileRenamed(m) == FuseField(m, "file_renamed")

\* The arguments come as pairs; of two with one key the later counts.
ArgumentsOf(pairs) ==
    [key \in {p[1] : p \in Range(pairs)} |-> pairs[Max({i \in DOMAIN pairs : pairs[i][1] = key})][2]]

HelperParams(m) ==
    LET params == FuseField(m, "helper_params")
    IN  IF params.ok THEN Value([params.value EXCEPT !.args = ArgumentsOf(@)]) ELSE params

Checksum(m) ==
    Then(ThrowOnError(StatusOf(m, "fuse_response")), FieldOf(m, "fuse_response", "checksum"))

\* The status is not looked at.
StorageTestFile(m) == FieldOf(m, "fuse_response", "storage_test_file")

ProxyIOResponse(m) ==
    IF m.kind # "proxyio_response" THEN ProtocolError ELSE ThrowOnError(Status(m.status))

RemoteData(m) == Then(ProxyIOResponse(m), FieldOf(m, "proxyio_response", "remote_data"))

RemoteWriteResult(m) ==
    Then(ProxyIOResponse(m), FieldOf(m, "proxyio_response", "remote_write_result"))

\* Whatever comes is a configuration, if an empty one.
Configuration(m) ==
    IF m.kind = "configuration" THEN Value(m.value)
    ELSE Value([subscriptions |-> <<>>, disabledSpaces |-> <<>>])

\* ---------------------------------------------------------------- requests
FileRequest(contextGuid, request) == [contextGuid |-> contextGuid] @@ request

FuseRequest(name, fields) == [request |-> name] @@ fields

NoFields == [field \in {} |-> 0]

ResolveGuid(path) == FuseRequest("resolve_guid", [path |-> path])

GetFileAttr(uuid) == FileRequest(uuid, FuseRequest("get_file_attr", NoFields))

\* A page, or all children.
GetFileChildren(uuid, page) ==
    FileRequest(uuid, FuseRequest("get_file_children",
        IF page = {} THEN NoFields ELSE LET p == The(page) IN [offset |-> p[1], size |-> p[2]]))

CreateDir(parentUuid, name, mode) ==
    FileRequest(parentUuid, FuseRequest("create_dir", [name |-> name, mode |-> mode]))

DeleteFile(uuid) == FileRequest(uuid, FuseRequest("delete_file", [silent |-> FALSE]))

Rename(uuid, targetPath) == FileRequest(uuid, FuseRequest("rename", [target_path |-> targetPath]))

ChangeMode(uuid, mode) == FileRequest(uuid, FuseRequest("change_mode", [mode |-> mode]))

Truncate(uuid, size) == FileRequest(uuid, FuseRequest("truncate", [size |-> size]))

\* times: the ones that are set, of atime, mtime and ctime.
UpdateTimes(uuid, times) == FileRequest(uuid, FuseRequest("update_times", times))

\* Flags of open() and mknod() as the client names them and as bits of a mask (IStorageHelper.h,
\* IStorageHelper.cc).  A mask is the set of its bits; the values are those of Linux, where
\* S_IFCHR is O_ASYNC and S_IFIFO a part of O_FSYNC.
FlagBits ==
    [NONBLOCK |-> {11}, APPEND |-> {10}, ASYNC |-> {13}, FSYNC |-> {12, 20}, NOFOLLOW |-> {17},
     CREAT |-> {6}, TRUNC |-> {9}, EXCL |-> {7}, RDONLY |-> {}, WRONLY |-> {0}, RDWR |-> {1},
     IFREG |-> {15}, IFCHR |-> {13}, IFBLK |-> {13, 14}, IFIFO |-> {12}, IFSOCK |-> {14, 15}]

Modes == {"RDONLY", "WRONLY", "RDWR"}

FlagsToMask(flags) == UNION {FlagBits[f] : f \in flags}

\* s_maskTranslation has one flag for a mask: of ASYNC and IFCHR the one that comes first.
MaskTranslation == (DOMAIN FlagBits) \ {"IFCHR"}

MaskToFlags(mask) ==
    {f \in Modes : FlagBits[f] = mask \cap {0, 1}}
    \cup {f \in MaskTranslation \ Modes : FlagBits[f] \subseteq mask}

\* The flags a file is opened with.
OpenMasks ==
    {FlagsToMask({mode} \cup others) :
        mode \in Modes, others \in SUBSET {"NONBLOCK", "APPEND", "ASYNC", "FSYNC", "NOFOLLOW", "CREAT", "TRUNC", "EXCL"}}

\* The first of the modes that is among the flags.
LocationFlags(flags) ==
    IF "RDWR" \in flags THEN [flags |-> "READ_WRITE"]
    ELSE IF "RDONLY" \in flags THEN [flags |-> "READ"]
    ELSE IF "WRONLY" \in flags THEN [flags |-> "WRITE"]
    ELSE NoFields

GetFileLocation(uuid, flags) ==
    FileRequest(uuid, FuseRequest("get_file_location",
        [create_handle |-> TRUE] @@ LocationFlags(flags)))

GetNewFileLocation(name, parentUuid, mode, flags) ==
    FileRequest(parentUuid, FuseRequest("get_new_file_location",
        [name |-> name, mode |-> mode, create_handle |-> TRUE] @@ LocationFlags(flags)))

Release(uuid, handleId) == FileRequest(uuid, FuseRequest("release", [handle_id |-> handleId]))

\* An interval is the set of its bytes.
SynchronizeBlock(uuid, bytes) ==
    FileRequest(uuid, FuseRequest("synchronize_block",
        [offset |-> Min(bytes), size |-> Cardinality(bytes)]))

SynchronizeBlockAndComputeChecksum(uuid, bytes) ==
    FileRequest(uuid, FuseRequest("synchronize_block_and_compute_checksum",
        [offset |-> Min(bytes), size |-> Cardinality(bytes)]))

GetHelperParams(storageId, forceProxyIO) ==
    FuseRequest("get_helper_params", [storage_id |-> storageId, force_proxy_io |-> forceProxyIO])

CreateStorageTestFile(fileUuid, storageId) ==
    FuseRequest("create_storage_test_file", [file_uuid |-> fileUuid, storage_id |-> storageId])

VerifyStorageTestFile(storageId, spaceUuid, fileId, fileContent) ==
    FuseRequest("verify_storage_test_file",
        [storage_id |-> storageId, space_uuid |-> spaceUuid, file_id |-> fileId,
         file_content |-> fileContent])

ProxyIORequest(parameters, storageId, fileId, request) ==
    [parameters |-> {<<key, parameters[key]>> : key \in DOMAIN parameters},
     storage_id |-> storageId, file_id |-> fileId] @@ request

RemoteRead(parameters, storageId, fileId, offset, size) ==
    ProxyIORequest(parameters, storageId, fileId,
        FuseRequest("remote_read", [offset |-> offset, size |-> size]))

RemoteWrite(parameters, storageId, fileId, data) ==
    ProxyIORequest(parameters, storageId, fileId,
        FuseRequest("remote_write", [byte_sequence |-> data]))

GetConfiguration == FuseRequest("get_configuration", NoFields)

Token(token) == FuseRequest("token", [value |-> token])

HandshakeRequest(sessionId, token) ==
    FuseRequest("handshake_request",
        [session_id |-> sessionId] @@ IF token = {} THEN NoFields ELSE [token |-> The(token)])

\* --------------------------------------------------- exchanges and file operations
\* What the caller of communicate<>() takes for the answer to its request.
AnswerTo(request, m) ==
    LET name == request.request
    IN  CASE name \in {"resolve_guid", "get_file_attr"} -> FileAttr(m)
          [] name \in {"get_file_location", "get_new_file_location"} -> FileLocation(m)
          [] name = "get_file_children" -> FileChildren(m)
          [] name = "rename" -> FileRenamed(m)
          [] name = "get_helper_params" -> HelperParams(m)
          [] name = "create_storage_test_file" -> StorageTestFile(m)
          [] name = "synchronize_block_and_compute_checksum" -> Checksum(m)
          [] name = "remote_read" -> RemoteData(m)
          [] name = "remote_write" -> RemoteWriteResult(m)
          [] name = "get_configuration" -> Configuration(m)
          [] OTHER -> FuseResponse(m)

\* Exceptions that are no std::system_error; their class stands for the category.
Exception(class) == [category |-> class, value |-> 0]

\* The errno of a file operation that ends with an exception: of a std::system_error the
\* value counts, whatever its category.
Wrap(exception) ==
    CASE exception.category = "TimeoutExceeded" -> Errc.ETIMEDOUT
      [] exception.category \in {"CommunicationException", "OneException", "future_error"} -> Errc.EIO
      [] OTHER -> exception.value

ErrnoOf(result) == IF result.ok THEN 0 ELSE Wrap(result.error)

\* The part of a server message that an exchange looks at.
Body(kind, status, field, value) == [kind |-> kind, status |-> status, field |-> field, value |-> value]
===============================================================================
