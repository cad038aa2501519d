------------------------------ MODULE RpcWire ------------------------------
(***************************************************************************)
(* The ONC RPC wire format (crates/onc-rpc-wire): call and reply messages, *)
(* and record marking, with the record reader of the buffered transports   *)
(* (try_take_record_from_buffer of crates/onc-rpc-runtime/src/lib.rs).     *)
(*                                                                         *)
(* A message is a record; the status of an enumeration is its Rust name.   *)
(***************************************************************************)
EXTENDS Xdr

RPC_VERSION_2 == 2
CONSTANT MAX_AUTH_BYTES    \* 400 in the source

ASSUME AuthBound == MAX_AUTH_BYTES \in Nat

(***************************************************************************)
(* Enumerations: a name for each number the code knows.                    *)
(***************************************************************************)
AuthFlavor(n) ==
    LET known == [i \in {0, 1, 2, 3, 6} |->
                    CASE i = 0 -> "None" [] i = 1 -> "Sys" [] i = 2 -> "Short"
                      [] i = 3 -> "Dh" [] i = 6 -> "RpcSecGss"]
    IN  [name |-> IF n \in DOMAIN known THEN known[n] ELSE "Unknown", value |-> n]

FlavorNumber(f) ==
    CASE f.name = "None" -> 0 [] f.name = "Sys" -> 1 [] f.name = "Short" -> 2
      [] f.name = "Dh" -> 3 [] f.name = "RpcSecGss" -> 6 [] f.name = "Unknown" -> f.value

MessageTypes == <<"Call", "Reply">>
ReplyStats == <<"MessageAccepted", "MessageDenied">>
AcceptStats == <<"Success", "ProgramUnavailable", "ProgramMismatch", "ProcedureUnavailable",
                 "GarbageArgs", "SystemError">>
RejectStats == <<"RpcMismatch", "AuthError">>

AuthStats == <<"Ok", "BadCred", "RejectedCred", "BadVerf", "RejectedVerf", "TooWeak",
               "InvalidResp", "Failed", "KerbGeneric", "TimeExpire", "TicketFile", "Decode",
               "NetAddr", "RpcSecGssCredProblem", "RpcSecGssCtxProblem">>

Number(names, name) == (CHOOSE i \in DOMAIN names : names[i] = name) - 1

\* TryFrom<u32>: the name, or the error of that enumeration.
ReadName(input, names, err) ==
    AndThen(read_u32(input), LAMBDA r :
        IF r.v + 1 \in DOMAIN names THEN Got(names[r.v + 1], r.rest) ELSE Bad(err, 0, r.rest))

\* AuthStat::from: a number without a name is kept as Unknown.
AuthStat(n) == [name |-> IF n + 1 \in DOMAIN AuthStats THEN AuthStats[n + 1] ELSE "Unknown",
                value |-> n]
AuthStatNumber(s) == IF s.name = "Unknown" THEN s.value ELSE Number(AuthStats, s.name)

(***************************************************************************)
(* Credentials and verifiers.                                              *)
(***************************************************************************)
NoAuth == [flavor |-> AuthFlavor(0), body |-> <<>>]

\* validate_auth_len
Validated(len, r) == IF len > MAX_AUTH_BYTES THEN Bad("AuthBodyTooLong", 0, <<>>) ELSE r

EncodeAuth(a) ==
    Validated(Len(a.body), Got(PutWord(FlavorNumber(a.flavor)) \o PutWord(Len(a.body))
                               \o write_fixed_opaque(a.body), <<>>))

\* Unlike XDR's, this reader refuses padding that is not zero.
read_opaque(input, len) ==
    AndThen(read_exact(input, len), LAMBDA body :
    AndThen(read_exact(body.rest, xdr_padding(len)), LAMBDA pad :
        IF \E i \in DOMAIN pad.v : pad.v[i] # 0 THEN Bad("NonZeroXdrPadding", 0, pad.rest)
        ELSE Got(body.v, pad.rest)))

DecodeAuth(input) ==
    AndThen(read_u32(input), LAMBDA flavor :
    AndThen(read_u32(flavor.rest), LAMBDA len :
        Validated(AsLength(len.v), Map(read_opaque(len.rest, AsLength(len.v)),
                                       LAMBDA b : [flavor |-> AuthFlavor(flavor.v), body |-> b]))))

(***************************************************************************)
(* Messages.                                                               *)
(***************************************************************************)
Call(xid, program, procedure, cred, verf, payload) ==
    [xid |-> xid, type |-> "Call", rpc_version |-> RPC_VERSION_2, program |-> program,
     procedure |-> procedure, credentials |-> cred, verifier |-> verf, payload |-> payload]

\* A reply: `arg` is the payload of Success, the range of a mismatch or the
\* AuthStat of a denial, and <<>> otherwise.
Accepted(xid, verf, status, arg) ==
    [xid |-> xid, type |-> "Reply", stat |-> "MessageAccepted", verifier |-> verf,
     status |-> status, arg |-> arg]
Denied(xid, status, arg) ==
    [xid |-> xid, type |-> "Reply", stat |-> "MessageDenied", verifier |-> NoAuth,
     status |-> status, arg |-> arg]

EncodeRange(range) == PutWord(range[1]) \o PutWord(range[2])

\* Both encoders give up at a credential or verifier that is too long.
encode_reply_body(m) ==
    LET result == CASE m.status = "Success" -> m.arg
                    [] m.status \in {"ProgramMismatch", "RpcMismatch"} -> EncodeRange(m.arg)
                    [] m.status = "AuthError" -> PutWord(AuthStatNumber(m.arg))
                    [] OTHER -> <<>>
    IN  IF m.stat = "MessageAccepted"
        THEN Map(EncodeAuth(m.verifier), LAMBDA verf : verf \o PutWord(Number(AcceptStats, m.status)) \o result)
        ELSE Got(PutWord(Number(RejectStats, m.status)) \o result, <<>>)

EncodeMessage(m) ==
    LET head == PutWord(m.xid) \o PutWord(Number(MessageTypes, m.type))
    IN  IF m.type = "Call"
        THEN AndThen(EncodeAuth(m.credentials), LAMBDA cred :
             Map(EncodeAuth(m.verifier), LAMBDA verf :
                 head \o PutWord(m.rpc_version) \o PutWord(m.program.program) \o PutWord(m.program.version)
                 \o PutWord(m.procedure) \o cred.v \o verf \o m.payload))
        ELSE Map(encode_reply_body(m), LAMBDA body : head \o PutWord(Number(ReplyStats, m.stat)) \o body)

expect_end(r) == IF r.ok /\ r.rest # <<>> THEN Bad("TrailingBytes", 0, r.rest) ELSE r

ReadRange(input) == read_u64(input)

decode_call_body(xid, input) ==
    AndThen(read_u32(input), LAMBDA vers :
    IF vers.v # RPC_VERSION_2 THEN Bad("UnsupportedRpcVersion", 0, vers.rest) ELSE
    AndThen(read_u32(vers.rest), LAMBDA prog :
    AndThen(read_u32(prog.rest), LAMBDA ver :
    AndThen(read_u32(ver.rest), LAMBDA proc :
    AndThen(DecodeAuth(proc.rest), LAMBDA cred :
    AndThen(DecodeAuth(cred.rest), LAMBDA verf :
        Got(Call(xid, [program |-> prog.v, version |-> ver.v], proc.v, cred.v, verf.v, verf.rest),
            <<>>)))))))

decode_accepted_reply(xid, input) ==
    AndThen(DecodeAuth(input), LAMBDA verf :
    AndThen(ReadName(verf.rest, AcceptStats, "InvalidAcceptStat"), LAMBDA status :
        Map(CASE status.v = "Success" -> Got(status.rest, <<>>)
              [] status.v = "ProgramMismatch" -> expect_end(ReadRange(status.rest))
              [] OTHER -> expect_end(Got(<<>>, status.rest)),
            LAMBDA a : Accepted(xid, verf.v, status.v, a))))

decode_rejected_reply(xid, input) ==
    AndThen(ReadName(input, RejectStats, "InvalidRejectStat"), LAMBDA status :
        Map(IF status.v = "RpcMismatch" THEN expect_end(ReadRange(status.rest))
            ELSE Map(expect_end(read_u32(status.rest)), AuthStat),
            LAMBDA a : Denied(xid, status.v, a)))

decode_reply_body(xid, input) ==
    AndThen(ReadName(input, ReplyStats, "InvalidReplyStat"), LAMBDA stat :
        IF stat.v = "MessageAccepted" THEN decode_accepted_reply(xid, stat.rest)
        ELSE decode_rejected_reply(xid, stat.rest))

DecodeMessage(input) ==
    AndThen(read_u32(input), LAMBDA xid :
    AndThen(ReadName(xid.rest, MessageTypes, "InvalidMessageType"), LAMBDA type :
        IF type.v = "Call" THEN decode_call_body(xid.v, type.rest)
        ELSE decode_reply_body(xid.v, type.rest)))

(***************************************************************************)
(* Record marking: the top bit of a marker says "last fragment".           *)
(***************************************************************************)
EncodeMarker(len, last) == [PutWord(len) EXCEPT ![1] = IF last THEN @ + 128 ELSE @]

DecodeMarker(b) ==
    [last |-> b[1] >= 128, len |-> GetWord([b EXCEPT ![1] = @ % 128])]

\* A negative `max` stands for one above MAX_FRAGMENT_LEN, 2^31 - 1.
fragment_record(data, max) ==
    LET count    == IF data = <<>> THEN 1 ELSE (Len(data) - 1) \div max + 1
        chunk(i) == SubSeq(data, (i - 1) * max + 1, IF i * max < Len(data) THEN i * max ELSE Len(data))
    IN  CASE max = 0 -> Bad("ZeroFragmentLength", 0, <<>>)
          [] max < 0 -> Bad("FragmentLengthTooLarge", 0, <<>>)
          [] max > 0 -> Got(FlattenSeq([i \in 1..count |-> EncodeMarker(Len(chunk(i)), i = count) \o chunk(i)]),
                            <<>>)

\* Where the fragment that starts after `offset` bytes ends, or 0 when it is
\* not all there.
FragmentEnd(input, offset) ==
    IF Len(input) < offset + 4 THEN 0
    ELSE LET end == offset + 4 + DecodeMarker(SubSeq(input, offset + 1, offset + 4)).len
         IN  IF Len(input) < end THEN 0 ELSE end

RECURSIVE ReadFragments(_, _, _)
ReadFragments(input, offset, data) ==
    LET end == FragmentEnd(input, offset)
    IN  IF end = 0 THEN [complete |-> FALSE, data |-> <<>>, consumed |-> 0]
        ELSE LET all == data \o SubSeq(input, offset + 5, end)
             IN  IF input[offset + 1] >= 128
                 THEN [complete |-> TRUE, data |-> all, consumed |-> end]
                 ELSE ReadFragments(input, end, all)

\* The reference reader of onc-rpc-wire.
read_record(input) == ReadFragments(input, 0, <<>>)

\* What the buffered transports do: find where the record ends, cut it off
\* the buffer, and only then drop the markers.
RECURSIVE RecordEnd(_, _)
RecordEnd(buffer, offset) ==
    LET end == FragmentEnd(buffer, offset)
    IN  IF end = 0 \/ buffer[offset + 1] >= 128 THEN end ELSE RecordEnd(buffer, end)

RECURSIVE Assemble(_)
Assemble(consumed) ==
    LET len == DecodeMarker(SubSeq(consumed, 1, 4)).len
    IN  SubSeq(consumed, 5, 4 + len) \o
        IF consumed[1] >= 128 THEN <<>> ELSE Assemble(Drop(consumed, 4 + len))

CutRecord(buffer, end) ==
    IF end = 0 THEN [some |-> FALSE, record |-> <<>>, buffer |-> buffer]
    ELSE [some |-> TRUE, record |-> Assemble(SubSeq(buffer, 1, end)), buffer |-> Drop(buffer, end)]

try_take_record_from_buffer(buffer) == CutRecord(buffer, RecordEnd(buffer, 0))

DecodeTaken(taken) ==
    [some |-> taken.some, buffer |-> taken.buffer,
     message |-> IF taken.some THEN DecodeMessage(taken.record) ELSE Bad("none", 0, <<>>)]

try_decode_message_from_buffer(buffer) == DecodeTaken(try_take_record_from_buffer(buffer))

\* write_rpc_message: one last fragment, for every payload a marker can count.
write_record_payload(payload) == EncodeMarker(Len(payload), TRUE) \o payload
============================================================================
