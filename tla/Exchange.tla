------------------------------- MODULE Exchange -------------------------------
(***************************************************************************)
(* One request, the provider's answer to it and what the caller makes of   *)
(* the answer: the conversions of Messages, one exchange at a time.        *)
(*                                                                         *)
(* Outside src/: the provider, which may answer with any status, with a    *)
(* message of another kind or without the field that was asked for.        *)
(***************************************************************************)
EXTENDS Messages

VARIABLE exchange  \* {}, or the one exchange: [request, hoped, answer, errno]

Location == [storageId |-> "s1", fileId |-> "f1", handleId |-> {},
             blocks |-> <<[offset |-> 0, size |-> 2, storageId |-> {}, fileId |-> {}],
                          [offset |-> 1, size |-> 3, storageId |-> {"s2"}, fileId |-> {"f2"}]>>]

Exchanges ==
    {<<GetFileAttr("u"), Body("fuse_response", "ok", "file_attr", [type |-> "REG"])>>,
     <<ResolveGuid("/p"), Body("fuse_response", "ok", "file_attr", [type |-> "DIR"])>>,
     <<GetFileChildren("u", {<<0, 2>>}), Body("fuse_response", "ok", "file_children", << <<"u1", "n1">> >>)>>,
     <<GetFileLocation("u", {"RDWR"}), Body("fuse_response", "ok", "file_location", Location)>>,
     <<GetNewFileLocation("n", "u", 420, {"WRONLY"}), Body("fuse_response", "ok", "file_location", Location)>>,
     <<Rename("u", "/q"), Body("fuse_response", "ok", "file_renamed", [newUuid |-> "u2"])>>,
     <<CreateDir("u", "n", 493), Body("fuse_response", "ok", "none", 0)>>,
     <<DeleteFile("u"), Body("fuse_response", "ok", "none", 0)>>,
     <<ChangeMode("u", 384), Body("fuse_response", "ok", "none", 0)>>,
     <<Truncate("u", 0), Body("fuse_response", "ok", "none", 0)>>,
     <<UpdateTimes("u", [atime |-> 1]), Body("fuse_response", "ok", "none", 0)>>,
     <<Release("u", "h"), Body("fuse_response", "ok", "none", 0)>>,
     <<SynchronizeBlock("u", 2..4), Body("fuse_response", "ok", "none", 0)>>,
     <<SynchronizeBlockAndComputeChecksum("u", 2..4), Body("fuse_response", "ok", "checksum", "c")>>,
     <<GetHelperParams("s", FALSE), Body("fuse_response", "ok", "helper_params",
            [name |-> "h", args |-> << <<"k", 1>>, <<"k", 2>> >>])>>,
     <<CreateStorageTestFile("u", "s"), Body("fuse_response", "ok", "storage_test_file", "t")>>,
     <<VerifyStorageTestFile("s", "x", "f", "c"), Body("fuse_response", "ok", "none", 0)>>,
     <<RemoteRead([k |-> 1], "s", "f", 0, 2), Body("proxyio_response", "ok", "remote_data", "d")>>,
     <<RemoteWrite([k |-> 1], "s", "f", << <<0, "d">> >>), Body("proxyio_response", "ok", "remote_write_result", 1)>>}

\* Codes a provider may send, known to this client or not.
Codes == (DOMAIN Translation) \cup {"enew"}

Ask(x) == [request |-> x[1], hoped |-> x[2], answer |-> {}, errno |-> {}]

ExchangeInit == exchange \in {{}} \cup {{Ask(x)} : x \in Exchanges}

\* The provider answers as hoped, with another status, another message or no field.
ProviderAnswers(x) ==
    \E answer \in {[x.hoped EXCEPT !.status = code] : code \in Codes}
                 \cup {[x.hoped EXCEPT !.kind = "status"], [x.hoped EXCEPT !.field = "none"]} :
        /\ x.answer = {}
        /\ exchange' = {[x EXCEPT !.answer = {answer}]}

\* communicate<>() converts the answer, and the file operation ends with a value or an errno.
TakeAnswer(x) ==
    \E answer \in x.answer :
        /\ x.errno = {}
        /\ exchange' = {[x EXCEPT !.errno = {ErrnoOf(AnswerTo(x.request, answer))}]}

ExchangeNext == \E x \in exchange : ProviderAnswers(x) \/ TakeAnswer(x)

\* --------------------------------------------------------------- properties
\* Requests whose answer is taken without a look at its status (StorageTestFile()).
StatusIgnored == {"create_storage_test_file"}

\* The errno an answer stands for.
Meant(x, answer) ==
    IF answer.kind # x.hoped.kind THEN Errc.EPROTO
    ELSE IF answer.status # "ok" /\ x.request.request \notin StatusIgnored
    THEN IF answer.status = "enew" THEN Errc.EPROTO ELSE Translation[answer.status]
    ELSE IF answer.field # x.hoped.field THEN Errc.EPROTO ELSE 0

\* A mask of open() becomes flags and the same mask again, although flags share bits, and the
\* location of a file is asked for with the access of open().
MasksAreKept ==
    \A mask \in OpenMasks :
        /\ FlagsToMask(MaskToFlags(mask)) = mask
        /\ \E mode \in Modes : MaskToFlags(mask) \cap Modes = {mode}
        /\ GetFileLocation("u", MaskToFlags(mask)).flags =
            IF 0 \in mask THEN "WRITE" ELSE IF 1 \in mask THEN "READ_WRITE" ELSE "READ"

\* A block is the interval it was.
BlocksAreKept ==
    \A i \in 0..3 : \A j \in i..3 :
        LET block == SynchronizeBlock("u", i..j) IN block.offset..(block.offset + block.size - 1) = i..j

\* Each byte of a location belongs to the first block that names it, and an argument of a
\* helper has the last value that is given for it.
ValuesAreKept ==
    /\ JoinedBlocks(Location) = Interval(0, 2, FileBlock("s1", "f1")) @@ Interval(2, 2, FileBlock("s2", "f2"))
    /\ HelperParams(Body("fuse_response", "ok", "helper_params",
                         [name |-> "h", args |-> << <<"k", 1>>, <<"k", 2>> >>])).value.args = [k |-> 2]

\* What the caller and the provider mean arrives.  An exchange ends with a value only when
\* the provider answered it with success and the field that was asked for; any other answer
\* ends as the errno its status stands for, or as a protocol error, and an errno that becomes a
\* code becomes the same errno again.  Requests and values say what they were made from.
MessagesAreFaithful ==
    \A x \in exchange :
        /\ x.answer = {} /\ x.request.request = "get_file_location" => MasksAreKept
        /\ x.answer = {} /\ x.request.request = "synchronize_block" => BlocksAreKept
        /\ x.answer = {} /\ x.hoped.field # "none" => ValuesAreKept
        /\ \A answer \in x.answer : x.errno \subseteq {Meant(x, answer)}
        /\ \A errno \in x.errno \cap Range(Translation) : Status(StatusCode(errno)) = errno
===============================================================================
