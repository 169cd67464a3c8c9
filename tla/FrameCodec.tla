------------------------------ MODULE FrameCodec ------------------------------
(***************************************************************************)
(* The byte layout of the frames (Codecs.ts over Bytes.ts): how a frame is *)
(* written, how it is read and how large it is said to be.  The three are  *)
(* separate pieces of code, one of each per frame type, and are separate   *)
(* here: nothing but the properties says that they agree.                  *)
(*                                                                         *)
(* A buffer is a sequence of bytes.  Numbers are big-endian digits in base *)
(* Base, which is 256 in the code; the widths in digits are the code's, so *)
(* that a small Base brings every boundary of a width within reach.  The   *)
(* header's type and flags are bits, and keep their real values.  Bytes    *)
(* of data, of metadata and of text (in its encoding) are opaque.  A part  *)
(* that is absent and one that is empty have the same value, <<>>, here:   *)
(* the readers do not tell them apart either.                              *)
(***************************************************************************)
EXTENDS Integers, SequencesExt

CONSTANT Base    \* the number of values of a byte: 256

ASSUME BaseAssumption == Base \in Nat /\ Base > 1 /\ Base % 2 = 0

-----------------------------------------------------------------------------
(* Bytes.ts *)

Smaller(a, b) == IF a < b THEN a ELSE b

\* subarray and slice: positions before the start count from the end.
Clamp(i, length) ==
    IF i < 0 THEN (IF length + i < 0 THEN 0 ELSE length + i)
             ELSE Smaller(i, length)
Slice(s, from, to) == SubSeq(s, Clamp(from, Len(s)) + 1, Clamp(to, Len(s)))

\* writeUInt8 .. writeUInt64BE; a negative value as its complement.
Digits(value, width) ==
    [i \in 1 .. width |-> (value \div Base^(width - i)) % Base]

\* readUInt8 .. readUInt64BE
Unsigned(bytes) == FoldLeft(LAMBDA value, b : value * Base + b, 0, bytes)

\* readInt8, readInt16BE, readInt32BE: the highest bit is the sign.
Signed(bytes) ==
    LET value == Unsigned(bytes)
        range == Base^Len(bytes)
    IN  IF 2 * value < range THEN value ELSE value - range

-----------------------------------------------------------------------------
(* Frames.ts: types, flags and what is said of a frame *)

TypeNumber ==
    [SETUP |-> 1, LEASE |-> 2, KEEPALIVE |-> 3, REQUEST_RESPONSE |-> 4,
     REQUEST_FNF |-> 5, REQUEST_STREAM |-> 6, REQUEST_CHANNEL |-> 7,
     REQUEST_N |-> 8, CANCEL |-> 9, PAYLOAD |-> 10, ERROR |-> 11,
     METADATA_PUSH |-> 12, RESUME |-> 13, RESUME_OK |-> 14, EXT |-> 63]

NEXT == 32
COMPLETE == 64
FOLLOWS == 128
RESUME_ENABLE == 128
METADATA == 256

Has(flags, bit) == (flags \div bit) % 2 = 1
Flag(b, bit) == IF b THEN bit ELSE 0

IsConnection(f) == f.streamId = 0
IsRequest(f) == f.type \in {"REQUEST_FNF", "REQUEST_RESPONSE",
                            "REQUEST_STREAM", "REQUEST_CHANNEL"}

-----------------------------------------------------------------------------
(* Writing: header, payload, and what comes between them *)

FLAGS == 1024    \* FLAGS_MASK + 1: the low ten bits are flags

WriteHeader(f) ==
    LET word == (TypeNumber[f.type] * FLAGS) + (f.flags % FLAGS)
    IN  Digits(f.streamId, 4) \o << word \div 256, word % 256 >>

WritePayload(f) ==
    (IF Has(f.flags, METADATA)
     THEN Digits(Len(f.metadata), 3) \o f.metadata ELSE <<>>) \o f.data

WriteSetup(f) ==
    Digits(f.majorVersion, 2) \o Digits(f.minorVersion, 2)
    \o Digits(f.keepAlive, 4) \o Digits(f.lifetime, 4)
    \o (IF Has(f.flags, RESUME_ENABLE)
        THEN Digits(Len(f.resumeToken), 2) \o f.resumeToken ELSE <<>>)
    \o Digits(Len(f.metadataMimeType), 1) \o f.metadataMimeType
    \o Digits(Len(f.dataMimeType), 1) \o f.dataMimeType
    \o WritePayload(f)

WriteError(f) == Digits(f.code, 4) \o f.message
WriteKeepAlive(f) == Digits(f.lastReceivedPosition, 8) \o f.data
WriteLease(f) == Digits(f.ttl, 4) \o Digits(f.requestCount, 4) \o f.metadata
WriteRequestMany(f) == Digits(f.requestN, 4) \o WritePayload(f)
WriteRequestN(f) == Digits(f.requestN, 4)
WriteExt(f) == Digits(f.extendedType, 4) \o f.extendedContent
WriteMetadataPush(f) == f.metadata
WriteResumeOk(f) == Digits(f.clientPosition, 8)
WriteResume(f) ==
    Digits(f.majorVersion, 2) \o Digits(f.minorVersion, 2)
    \o Digits(Len(f.resumeToken), 2) \o f.resumeToken
    \o Digits(f.serverPosition, 8) \o Digits(f.clientPosition, 8)

SerializeFrame(f) ==
    WriteHeader(f) \o
    CASE f.type = "SETUP" -> WriteSetup(f)
      [] f.type = "ERROR" -> WriteError(f)
      [] f.type = "KEEPALIVE" -> WriteKeepAlive(f)
      [] f.type = "LEASE" -> WriteLease(f)
      [] f.type \in {"REQUEST_FNF", "REQUEST_RESPONSE", "PAYLOAD"} ->
            WritePayload(f)
      [] f.type \in {"REQUEST_STREAM", "REQUEST_CHANNEL"} ->
            WriteRequestMany(f)
      [] f.type = "METADATA_PUSH" -> WriteMetadataPush(f)
      [] f.type = "REQUEST_N" -> WriteRequestN(f)
      [] f.type = "RESUME" -> WriteResume(f)
      [] f.type = "RESUME_OK" -> WriteResumeOk(f)
      [] f.type = "CANCEL" -> <<>>
      [] f.type = "EXT" -> WriteExt(f)

SerializeFrameWithLength(f) ==
    LET buffer == SerializeFrame(f) IN Digits(Len(buffer), 3) \o buffer

-----------------------------------------------------------------------------
(* Sizes, as the code computes them for its buffers and its positions *)

FRAME_HEADER_SIZE == 6
UINT24_SIZE == 3

\* Mutant: the length of the metadata is not counted.
PayloadLength_NoLength(f) ==
    Len(f.data) + (IF Has(f.flags, METADATA) THEN Len(f.metadata) ELSE 0)

PayloadLength(f) ==
    Len(f.data) + (IF Has(f.flags, METADATA)
                   THEN UINT24_SIZE + Len(f.metadata) ELSE 0)

SizeOfSetup(f) ==
    14 + (IF f.resumeToken # <<>> THEN 2 + Len(f.resumeToken) ELSE 0)
    + Len(f.metadataMimeType) + Len(f.dataMimeType) + PayloadLength(f)
SizeOfError(f) == 4 + Len(f.message)
SizeOfKeepAlive(f) == 8 + Len(f.data)
SizeOfLease(f) == 8 + Len(f.metadata)
SizeOfRequestMany(f) == 4 + PayloadLength(f)
SizeOfResume(f) == 22 + Len(f.resumeToken)
SizeOfExt(f) == 4 + Len(f.extendedContent)

SizeOfFrame(f) ==
    FRAME_HEADER_SIZE +
    CASE f.type = "SETUP" -> SizeOfSetup(f)
      [] f.type = "ERROR" -> SizeOfError(f)
      [] f.type = "KEEPALIVE" -> SizeOfKeepAlive(f)
      [] f.type = "LEASE" -> SizeOfLease(f)
      [] f.type \in {"REQUEST_FNF", "REQUEST_RESPONSE", "PAYLOAD"} ->
            PayloadLength(f)
      [] f.type \in {"REQUEST_STREAM", "REQUEST_CHANNEL"} ->
            SizeOfRequestMany(f)
      [] f.type = "METADATA_PUSH" -> Len(f.metadata)
      [] f.type = "REQUEST_N" -> 4
      [] f.type = "RESUME" -> SizeOfResume(f)
      [] f.type = "RESUME_OK" -> 8
      [] f.type = "CANCEL" -> 0
      [] f.type = "EXT" -> SizeOfExt(f)

-----------------------------------------------------------------------------
(***************************************************************************)
(* Reading: the fields of each type in the order in which its reader takes *)
(* them.  A number is read signed where the reader says readInt..; a block *)
(* is a length and that many bytes; the rest is what the buffer has left.  *)
(***************************************************************************)
UInt(name, width) == [name |-> name, kind |-> "uint", width |-> width]
Int_(name, width) == [name |-> name, kind |-> "int", width |-> width]
Block(name, width) == [name |-> name, kind |-> "block", width |-> width]
SignedBlock(name) == [name |-> name, kind |-> "signed block", width |-> 2]
Rest(name) == [name |-> name, kind |-> "rest", width |-> 0]
Absent(name) == [name |-> name, kind |-> "absent", width |-> 0]

PayloadFields(flags) ==
    << IF Has(flags, METADATA) THEN Block("metadata", 3) ELSE Absent("metadata"),
       Rest("data") >>

SetupFields(flags) ==
    << UInt("majorVersion", 2), UInt("minorVersion", 2),
       Int_("keepAlive", 4), Int_("lifetime", 4) >>
    \o << IF Has(flags, RESUME_ENABLE) THEN SignedBlock("resumeToken")
                                       ELSE Absent("resumeToken"),
          Block("metadataMimeType", 1), Block("dataMimeType", 1) >>
    \o PayloadFields(flags)
ErrorFields == << Int_("code", 4), Rest("message") >>
KeepAliveFields == << UInt("lastReceivedPosition", 8), Rest("data") >>
LeaseFields ==
    << UInt("ttl", 4), UInt("requestCount", 4), Rest("metadata") >>
RequestManyFields(flags) == << Int_("requestN", 4) >> \o PayloadFields(flags)
RequestNFields == << Int_("requestN", 4) >>
MetadataPushFields == << Rest("metadata") >>
ResumeFields ==
    << UInt("majorVersion", 2), UInt("minorVersion", 2),
       SignedBlock("resumeToken"),
       UInt("serverPosition", 8), UInt("clientPosition", 8) >>
ResumeOkFields == << UInt("clientPosition", 8) >>
CancelFields == <<>>
ExtFields == << Int_("extendedType", 4), Rest("extendedContent") >>

Fields(type, flags) ==
    CASE type = "SETUP" -> SetupFields(flags)
      [] type = "ERROR" -> ErrorFields
      [] type = "KEEPALIVE" -> KeepAliveFields
      [] type = "LEASE" -> LeaseFields
      [] type \in {"REQUEST_FNF", "REQUEST_RESPONSE", "PAYLOAD"} ->
            PayloadFields(flags)
      [] type \in {"REQUEST_STREAM", "REQUEST_CHANNEL"} ->
            RequestManyFields(flags)
      [] type = "METADATA_PUSH" -> MetadataPushFields
      [] type = "REQUEST_N" -> RequestNFields
      [] type = "RESUME" -> ResumeFields
      [] type = "RESUME_OK" -> ResumeOkFields
      [] type = "CANCEL" -> CancelFields
      [] type = "EXT" -> ExtFields

\* One field at the reader's offset: its value, and the offset behind it.
ReadField(buffer, read, field) ==
    LET from == read.offset
        number == Slice(buffer, from, from + field.width)
        length == IF field.kind = "block" THEN Unsigned(number)
                                          ELSE Signed(number)
        behind == CASE field.kind \in {"uint", "int", "absent"} ->
                          from + field.width
                    [] field.kind = "rest" -> Len(buffer)
                    [] OTHER -> from + field.width + length
        value == CASE field.kind = "uint" -> Unsigned(number)
                   [] field.kind = "int" -> Signed(number)
                   [] field.kind = "rest" -> Slice(buffer, from, Len(buffer))
                   [] field.kind = "absent" -> <<>>
                   [] OTHER -> Slice(buffer, from + field.width, behind)
    IN  [offset |-> behind, frame |-> (field.name :> value) @@ read.frame]

\* The readers of connection frames answer stream id 0, whatever was sent.
DeserializeFrame(buffer) ==
    LET word == buffer[5] * 256 + buffer[6]
        type == CHOOSE t \in DOMAIN TypeNumber :
                    TypeNumber[t] = word \div FLAGS
        flags == word % FLAGS
        header == [type |-> type, flags |-> flags,
                   streamId |-> IF type \in {"SETUP", "KEEPALIVE", "LEASE",
                                    "METADATA_PUSH", "RESUME", "RESUME_OK"}
                                THEN 0 ELSE Signed(SubSeq(buffer, 1, 4))]
    IN  FoldLeft(LAMBDA read, field : ReadField(buffer, read, field),
                 [offset |-> FRAME_HEADER_SIZE, frame |-> header],
                 Fields(type, flags)).frame

(***************************************************************************)
(* deserializeFrames: the whole frames at the start of a buffer, and the   *)
(* offset behind the last of them.                                         *)
(***************************************************************************)
FrameEnd(buffer, offset) ==
    offset + UINT24_SIZE + Unsigned(Slice(buffer, offset, offset + UINT24_SIZE))

IsWhole(buffer, offset) ==
    /\ offset + UINT24_SIZE < Len(buffer)
    /\ FrameEnd(buffer, offset) <= Len(buffer)

DeserializeFrames(buffer) ==
    LET from[offset \in 0 .. Len(buffer)] ==
            IF ~IsWhole(buffer, offset)
            THEN [frames |-> <<>>, offset |-> offset]
            ELSE LET end == FrameEnd(buffer, offset)
                     frame == DeserializeFrame(
                                 Slice(buffer, offset + UINT24_SIZE, end))
                 IN  [frames |-> << frame >> \o from[end].frames,
                      offset |-> from[end].offset]
    IN  from[0]
=============================================================================
