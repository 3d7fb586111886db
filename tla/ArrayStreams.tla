----------------------------- MODULE ArrayStreams ------------------------------
(***************************************************************************)
(* A program that writes compressed arrays to a stream of bytes, one after *)
(* the other and in both formats, and reads them back from an iterator     *)
(* over it; each decoder consumes one array and leaves the rest.  The      *)
(* stream may be damaged, and be read in the wrong format.                 *)
(*                                                                         *)
(* A call is a sequence of steps, one for each block or byte.              *)
(***************************************************************************)
EXTENDS Integers, FiniteSetsExt, SequencesExt, TLC

CONSTANTS
  Arrays,       \* the arrays that are written
  SmallArrays,  \* those that may be in the stream with others, or be damaged
  MaxQueue,     \* bound on the number of arrays in the stream
  Bytes,        \* what a byte may be damaged to
  ByteBits, RawSegs, MaxType, SizeBytes, AllocSize, MaxMemory,
  Width, LenPad, AllocBits

VARIABLES
  stream,       \* the bytes that have not been consumed
  enc, dec,     \* what an encoder or a decoder is about to do
  got,          \* what the last call of a decoder gave
  sent,         \* the arrays that the stream stands for
  broken        \* whether it has been damaged

svars == <<stream, enc, dec, got, sent, broken>>

SC == INSTANCE SparseCompression
VL == INSTANCE VarLength

ASSUME StreamAssumption == SC!SparseConstants /\ VL!VarLengthConstants

Formats == {"sc", "vl"}

\* What of an array is written: vl_decode() is told the bit-endianness.
Content(format, a) == IF format = "sc" THEN a ELSE [bits |-> a.bits]

Idle  == [kind |-> "idle"]
Error == [kind |-> "error"]

SInit ==
  /\ stream = <<>> /\ sent = <<>> /\ broken = FALSE
  /\ enc = Idle /\ dec = Idle /\ got = Error

\* No call is being made, and the program is done with the last result.
Calm == enc = Idle /\ dec = Idle /\ got = Error

Writable(a) ==
  /\ ~broken /\ Len(sent) < MaxQueue
  /\ sent # <<>> => a \in SmallArrays /\ \A i \in DOMAIN sent : sent[i].small

Sent(format, a, bytes) ==
  /\ stream' = stream \o bytes
  /\ sent' = Append(sent, [format |-> format, array |-> Content(format, a),
                           small |-> a \in SmallArrays])

StartScEncode(a) ==
  /\ Calm /\ Writable(a)
  /\ enc' = SC!StartEncoding(a)
  /\ UNCHANGED <<stream, dec, got, sent, broken>>

ScEncodeBlock ==
  /\ enc # Idle /\ SC!BlocksLeft(enc)
  /\ enc' = SC!EncodeBlock(enc)
  /\ UNCHANGED <<stream, dec, got, sent, broken>>

ScEncoded ==
  /\ enc # Idle /\ ~SC!BlocksLeft(enc)
  /\ enc' = Idle
  /\ Sent("sc", enc.a, SC!Encoded(enc))
  /\ UNCHANGED <<dec, got, broken>>

VlEncode(a) ==
  /\ Calm /\ Writable(a)
  /\ Sent("vl", a, VL!vl_encode(a.bits))
  /\ UNCHANGED <<enc, dec, got, broken>>

-------------------------------------------------------------------------------
\* A decoder of the one format may be given what is in the other.
StartDecode(format) ==
  /\ Calm
  /\ dec' = [kind |-> "start", format |-> format, length |-> Len(stream)]
  /\ broken' = (broken \/ (sent # <<>> /\ Head(sent).format # format))
  /\ sent' = IF broken' THEN <<>> ELSE sent
  /\ UNCHANGED <<stream, enc, got>>

\* The decoder has come to r: it goes on, or returns or raises.
Proceed(r) ==
  /\ stream' = r.stream
  /\ IF r.dec.kind \in {"array", "error"}
     THEN /\ dec' = Idle
          /\ got' = IF r.dec.kind = "error" THEN Error
                    ELSE [bytes |-> dec.length - Len(r.stream)] @@ r.dec
          /\ sent' = IF sent = <<>> THEN sent ELSE Tail(sent)
     ELSE dec' = [length |-> dec.length] @@ r.dec /\ UNCHANGED <<got, sent>>
  /\ UNCHANGED <<enc, broken>>

ScDecodeHeader == /\ dec.kind = "start" /\ dec.format = "sc"
                  /\ Proceed(SC!sc_decode_header(stream))
ScDecodeBlock  == dec.kind = "sc" /\ Proceed(SC!sc_decode_block(dec, stream))
VlDecodeHead   == /\ dec.kind = "start" /\ dec.format = "vl"
                  /\ Proceed(VL!vl_decode_head(stream))
VlDecodeByte   == dec.kind = "vl" /\ Proceed(VL!vl_decode_byte(dec, stream))

\* The program is done with what it got.
Forget == /\ got # Error /\ got' = Error
          /\ UNCHANGED <<stream, enc, dec, sent, broken>>

-------------------------------------------------------------------------------
\* The stream loses its end, or one of its bytes becomes another.
Damage ==
  /\ Calm /\ Len(sent) = 1 /\ sent[1].small
  /\ \/ stream' = Front(stream)
     \/ \E i \in DOMAIN stream, c \in Bytes : stream' = [stream EXCEPT ![i] = c]
  /\ broken' = TRUE /\ sent' = <<>>
  /\ UNCHANGED <<enc, dec, got>>

Step == \/ ScEncodeBlock \/ ScEncoded
        \/ ScDecodeHeader \/ ScDecodeBlock \/ VlDecodeHead \/ VlDecodeByte

SNext ==
  \/ Calm /\ \E a \in Arrays : StartScEncode(a) \/ VlEncode(a)
  \/ Step
  \/ \E format \in Formats : StartDecode(format)
  \/ Forget
  \/ Damage

\* The loops of the encoder and of the decoders go on by themselves.
SSpec == SInit /\ [][SNext]_svars /\ WF_svars(Step)

-------------------------------------------------------------------------------
\* The variables are of the right type.
STypeOK ==
  /\ stream \in Seq(0 .. 255) /\ broken \in BOOLEAN
  /\ Len(sent) <= MaxQueue /\ (broken => sent = <<>>)
  /\ enc.kind \in {"idle", "sc"} /\ dec.kind \in {"idle", "start", "sc", "vl"}
  /\ got.kind \in {"array", "error"}

\* The encoder never writes beyond what it has allocated, the stop byte included; it
\* begins blocks where segments begin; each block takes at most one byte more than the
\* bytes it stands for, and each index fits the bytes it is given.
EncodeFits ==
  enc # Idle =>
    /\ Len(enc.out) < enc.allocated
    /\ SC!BlocksLeft(enc) =>
         LET block == SC!sc_encode_block(enc)
             bytes == block.bytes
         IN  /\ enc.offset % SC!SEGSIZE = 0
             /\ Len(bytes) <= 1 + Min({block.increase, SC!Remaining(enc)})
             /\ \A i \in 2 .. Len(bytes) : bytes[i] \in 0 .. (2 ^ ByteBits - 1)

\* Whatever the stream, the decoders write nowhere but into the memory of their array,
\* and give it a length that it can have; as many bytes are consumed as
\* vl_encode() would write.  As far as a decoder has come, and as long as the stream is
\* good, its array is the one that has been written.
DecodedFits ==
  /\ dec.kind = "sc" => DOMAIN dec.mem = 0 .. (ByteBits * dec.size - 1)
  /\ dec.kind = "vl" => DOMAIN dec.mem = 0 .. (dec.allocated - 1)
  /\ got.kind = "array" =>
       /\ got.nbits = Len(got.array.bits) /\ Range(got.array.bits) \subseteq {0, 1}
       /\ DOMAIN got.array = {"bits"} => got.bytes = Len(VL!vl_encode(got.array.bits))
  /\ dec.kind \in {"sc", "vl"} /\ sent # <<>> =>
       LET bits == Head(sent).array.bits
           n    == IF dec.kind = "sc" THEN ByteBits * dec.offset ELSE dec.i
       IN  \A i \in DOMAIN bits : i <= n => dec.mem[i - 1] = bits[i]

Channel == INSTANCE ArrayChannel WITH
  Contents <- {Content(f, a) : f \in Formats, a \in Arrays},
  queue    <- [i \in DOMAIN sent |-> [format |-> sent[i].format, array |-> sent[i].array]],
  got      <- IF got = Error THEN Error ELSE [kind |-> "array", array |-> got.array]

\* Readers get the arrays that have been written: decode undoes encode, in
\* either format, and consumes no byte of the array that follows.
ChannelSpec == Channel!Spec

\* Each call ends, also that of a decoder of a damaged stream.
CallsEnd == (enc # Idle \/ dec # Idle) ~> (enc = Idle /\ dec = Idle)
===============================================================================
