-------------------------------- MODULE Xdr --------------------------------
(***************************************************************************)
(* The hand-written XDR codec (crates/onc-rpc-xdr): what each primitive    *)
(* writes and how it reads it back, and the segmented encoder that keeps   *)
(* opaque bodies apart from the control bytes around them.                 *)
(*                                                                         *)
(* A byte is a number 0..255 and a wire text a sequence of them.  A 32-bit *)
(* integer is its two's complement value, so a u32 above 2^31 - 1 is the   *)
(* negative number with the same bits (TLC's integers are 32 bits wide); a *)
(* 64-bit integer is the pair of its words and a float is its bits.        *)
(*                                                                         *)
(* A reader returns the value and the input it left, or the error and the  *)
(* input as it stood when the error was met, which is what a caller that   *)
(* retries with more bytes looks at.                                       *)
(***************************************************************************)
EXTENDS Integers, Sequences, SequencesExt

Byte == 0..255
MaxLen == 2147483647    \* stands for every length above 2^31 - 1

Got(v, rest) == [ok |-> TRUE, v |-> v, rest |-> rest, err |-> "none", need |-> 0]
Bad(err, need, rest) == [ok |-> FALSE, v |-> <<>>, rest |-> rest, err |-> err, need |-> need]

\* The value a reader found, converted.
Map(r, Conv(_)) == IF r.ok THEN [r EXCEPT !.v = Conv(r.v)] ELSE r

\* Rust's `?`: go on from what was read, unless that failed.
AndThen(r, Rest(_)) == IF r.ok THEN Rest(r) ELSE r

Drop(s, n) == SubSeq(s, n + 1, Len(s))
Zeros(n) == [i \in 1..n |-> 0]

(***************************************************************************)
(* Words: put_u32, put_i32 and get_u32, get_i32 (big-endian).              *)
(***************************************************************************)
PutWord(n) == <<(n \div 16777216) % 256, (n \div 65536) % 256, (n \div 256) % 256, n % 256>>
GetWord(b) == (IF b[1] >= 128 THEN b[1] - 256 ELSE b[1]) * 16777216
              + b[2] * 65536 + b[3] * 256 + b[4]

\* `as usize` of a u32: a negative word is a length of 2^31 or more.
AsLength(w) == IF w < 0 THEN MaxLen ELSE w

xdr_padding(len) == (4 - (len % 4)) % 4

ensure_len(input, len) == Len(input) >= len

read_exact(input, len) ==
    IF ensure_len(input, len) THEN Got(SubSeq(input, 1, len), Drop(input, len))
    ELSE Bad("UnexpectedEof", len, input)

read_u32(input) == Map(read_exact(input, 4), GetWord)
read_u64(input) == Map(read_exact(input, 8), LAMBDA b : <<GetWord(b), GetWord(Drop(b, 4))>>)

\* The padding is skipped and its bytes are not looked at.
discard_padding(input, len) == read_exact(input, xdr_padding(len))

write_fixed_opaque(bytes) == bytes \o Zeros(xdr_padding(Len(bytes)))

read_fixed_opaque(input, len) ==
    AndThen(read_exact(input, len), LAMBDA body :
    AndThen(discard_padding(body.rest, len), LAMBDA pad : Got(body.v, pad.rest)))

write_variable_opaque(bytes) == PutWord(Len(bytes)) \o write_fixed_opaque(bytes)

read_variable_opaque(input) ==
    AndThen(read_u32(input), LAMBDA len : read_fixed_opaque(len.rest, AsLength(len.v)))

(***************************************************************************)
(* The primitive types.                                                    *)
(***************************************************************************)
EncodeBool(v) == PutWord(IF v THEN 1 ELSE 0)

DecodeBool(input) ==
    AndThen(read_u32(input), LAMBDA r :
        IF r.v \in {0, 1} THEN Got(r.v = 1, r.rest) ELSE Bad("InvalidBool", 0, r.rest))

EncodeI32(v) == PutWord(v)
DecodeI32(input) == read_u32(input)
EncodeU32(v) == PutWord(v)
DecodeU32(input) == read_u32(input)
EncodeI64(v) == PutWord(v[1]) \o PutWord(v[2])
DecodeI64(input) == read_u64(input)
EncodeU64(v) == PutWord(v[1]) \o PutWord(v[2])
DecodeU64(input) == read_u64(input)
EncodeF32(bits) == PutWord(bits)
DecodeF32(input) == read_u32(input)
EncodeF64(bits) == PutWord(bits[1]) \o PutWord(bits[2])
DecodeF64(input) == read_u64(input)

\* A lone byte: no padding, unlike every other XDR item.
EncodeU8(v) == <<v>>
DecodeU8(input) == Map(read_exact(input, 1), Head)

EncodeString(v) == write_variable_opaque(v)

\* The bytes modelled are ASCII, and 128..255 for bytes that are not UTF-8.
DecodeString(input) ==
    AndThen(read_variable_opaque(input), LAMBDA r :
        IF \E i \in DOMAIN r.v : r.v[i] >= 128 THEN Bad("InvalidUtf8", 0, r.rest) ELSE r)

EncodeBytes(v) == write_variable_opaque(v)
DecodeBytes(input) == read_variable_opaque(input)

\* from_xdr_bytes: the value must be all there is.
Whole(r) == IF r.ok /\ r.rest # <<>> THEN Bad("TrailingBytes", 0, r.rest) ELSE r

(***************************************************************************)
(* SegmentEncoder: `control` collects control bytes, `segs` holds the      *)
(* finished segments in wire order.                                        *)
(***************************************************************************)
NoSegments == [control |-> <<>>, segs |-> <<>>, ok |-> TRUE]

flush(e) ==
    IF e.control = <<>> THEN e
    ELSE [e EXCEPT !.segs = Append(@, e.control), !.control = <<>>]

\* The encoder after a control value.
encode(e, bytes) == [e EXCEPT !.control = @ \o bytes]

Refused(e) == [e EXCEPT !.ok = FALSE]

\* Owners appended as they are, then the padding of their joint length.
PushBody(e, owners, len) ==
    LET pad == IF xdr_padding(len) = 0 THEN <<>> ELSE <<Zeros(xdr_padding(len))>>
    IN  [e EXCEPT !.segs = @ \o SelectSeq(owners, LAMBDA s : s # <<>>) \o pad]

opaque(e, value, maximum) ==
    IF Len(value) > maximum THEN Refused(e)
    ELSE PushBody(flush(encode(e, PutWord(Len(value)))), <<value>>, Len(value))

checked_len(owners) == Len(FlattenSeq(owners))

opaque_segments(e, owners, maximum) ==
    IF checked_len(owners) > maximum THEN Refused(e)
    ELSE PushBody(flush(encode(e, PutWord(checked_len(owners)))), owners, checked_len(owners))

finish(e) == flush(e).segs

\* OpaqueLength: the length word of a body that stays in the caller's storage.
DecodeOpaqueLength(input, maximum) ==
    AndThen(DecodeU32(input), LAMBDA r :
        IF AsLength(r.v) > maximum THEN Bad("LengthLimit", 0, r.rest) ELSE Map(r, AsLength))
============================================================================
