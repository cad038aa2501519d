----------------------------- MODULE TypedCall -----------------------------
(***************************************************************************)
(* A typed call from the .x file to the result: the generator reads the    *)
(* schema (XLoader), the generated client encodes the argument (XCodec),   *)
(* write_segments puts the record on the wire, the generated dispatcher    *)
(* answers, and the reader of the owned transport takes the reply apart    *)
(* (record_io.rs, owned/segmented.rs) for the receivers of xdr_client.rs.  *)
(*                                                                         *)
(* One call is in flight, under the XID that module XidAllocator issues to *)
(* its thread while others allocate too.  The reads and writes of the      *)
(* socket take any number of bytes, the peer may close the connection at   *)
(* any moment and the caller may give up at any moment once the reader     *)
(* holds its target; the lifecycle around that (admission, registration,   *)
(* deadlines) is module OwnedTransport's.                                  *)
(***************************************************************************)
EXTENDS XCodec, RpcWire, XidAllocator

CONSTANTS Trees,            \* file trees: [files, dirs, root, name]
          Jobs,             \* tree -> the calls made with its schema, a sequence
          MAX_SLICES,       \* descriptors of one vectored write (64)
          max_fragments, max_record_bytes,   \* RecordLimits
          Chunks,           \* sizes a socket read or write may stop at
          Caller            \* the thread that makes the call

ASSUME Limits == MAX_SLICES > 0 /\ max_fragments > 0 /\ max_record_bytes >= 4 /\ Caller \in Threads

VARIABLES
    phase,    \* "source", "ready", "xid", "write", "serve", "read" or "over"
    tree,     \* the file tree the generator works on
    cut,      \* how many lexemes of the root file it is given
    made,     \* the module set it loaded
    env,      \* the types and programs of the generated code
    job,      \* <<the call>>, once chosen
    segs,     \* header and payload segments of the request
    w,        \* write_segments: index and offset
    sent,     \* bytes the peer has received
    seen,     \* << <<procedure, argument>> >> once the service was called with it
    wire,     \* bytes the peer sends
    pos,      \* how many of them were read
    rr,       \* the RecordReader of the current record
    st,       \* what the reader does: stage, bytes gathered, where they end
    rcv,      \* the receiver
    out,      \* <<outcome>> once the call returned
    open      \* the connection was not retired

allocator == <<counter, current, xpc, issued, last>>
schema == <<tree, cut, made, env>>
client == <<schema, job, segs, w, sent, seen>>
callVars == <<allocator, phase, client, wire, pos, rr, st, rcv, out, open>>

Root(t) == Trees[t].files[Trees[t].root]

\* The generator's result for the first n lexemes of the root file.
Generated(t, n) ==
    load_module_set_from_x_file([Trees[t].files EXCEPT ![Trees[t].root] = SubSeq(@, 1, n)],
                                Trees[t].dirs, Trees[t].root)

Xid == last[Caller]
OtherXid == MaxXid + 1

\* The procedure a job calls, with the numbers of its version and program.
Proc(name) ==
    LET p == env.programs[1]
        v == p.body[CHOOSE i \in DOMAIN p.body : \E j \in DOMAIN p.body[i].body : p.body[i].body[j].name = name]
    IN  [id |-> [program |-> p.number, version |-> v.number],
         proc |-> v.body[CHOOSE j \in DOMAIN v.body : v.body[j].name = name]]
J == job[1]
P == Proc(J.proc)

Ok(v, body) == [ok |-> TRUE, v |-> v, body |-> body, err |-> "none"]
Err(e, body) == [ok |-> FALSE, v |-> <<>>, body |-> body, err |-> e]

NoReceiver == [prefix |-> <<>>, target |-> 0, meta |-> <<>>, data_len |-> 0, data |-> <<>>, pad |-> <<>>, err |-> "none"]
NewRecord == [stage |-> "xid", bytes |-> <<>>, end |-> 4, header |-> <<>>]
NewReader == [fragments |-> 0, record_bytes |-> 0, remaining |-> 0, last |-> FALSE, marker |-> <<>>]

CallInit ==
    /\ XidInit
    /\ phase = "source" /\ tree \in DOMAIN Trees /\ cut \in 0..Len(Root(tree))
    /\ made = ModuleSet("", Fresh) /\ env = emit_rust_types(from_modules(<<>>))
    /\ job = <<>> /\ segs = <<>> /\ w = [index |-> 0, offset |-> 0] /\ sent = <<>> /\ seen = <<>>
    /\ wire = <<>> /\ pos = 0 /\ rr = NewReader /\ st = NewRecord /\ rcv = NoReceiver
    /\ out = <<>> /\ open = TRUE

\* The generator runs; calls are made with whole schemas only.
Generate ==
    /\ phase = "source"
    /\ made' = Generated(tree, cut)
    /\ IF made'.err # "none" THEN phase' = "over" /\ out' = <<Err(made'.err, <<>>)>> /\ UNCHANGED env
       ELSE /\ phase' = IF cut = Len(Root(tree)) THEN "ready" ELSE "over"
            /\ env' = emit_rust_types(from_modules(made'.modules)) /\ UNCHANGED out
    /\ UNCHANGED <<allocator, tree, cut, job, segs, w, sent, seen, wire, pos, rr, st, rcv, open>>

(***************************************************************************)
(* The client: encoding the request.                                       *)
(***************************************************************************)
\* The call options' credentials (if any) win over the request's own, which
\* win over the configured ones; verifiers likewise.
build_request_message(config, own, options) ==
    IF options # <<>> THEN options[1] ELSE IF own # NoAuth THEN own ELSE config

\* The request a generated method makes: the numbers of its procedure, and
\* the argument in the ordinary encoding.
emit_client_method ==
    [program |-> P.id, procedure |-> P.proc.number, payload |-> EncodeType(env, P.proc.arg, J.arg)]

Message(xid, request) ==
    LET Auth(a) == build_request_message(a.config, NoAuth, a.options)
    IN  Call(xid, request.program, request.procedure, Auth(J.cred), Auth(J.verf), request.payload)

\* The message assembled in one segment.
call_typed_with_options == Map(EncodeMessage(Message(Xid, emit_client_method)), LAMBDA m : <<m>>)

\* The argument of the generated _segmented and _into methods.
OwnedArgument(j, arg) ==
    IF arg.k = "name" /\ arg.name \in DOMAIN env.segments
    THEN [type |-> Type("segs", arg.name, <<>>, <<>>), v |-> conversion(env, Bare(arg), j.arg, j.split)]
    ELSE [type |-> arg, v |-> j.arg]

emit_owned_client_methods(j) ==
    LET Encoded(a) == to_xdr_segments(env, a.type, a.v)
    IN  Encoded(OwnedArgument(j, Proc(j.proc).proc.arg))

\* The envelope, without a payload, and the segments of the argument.
segmented_request ==
    Map(EncodeMessage(Message(Xid, [emit_client_method EXCEPT !.payload = <<>>])),
        LAMBDA header : <<header>> \o finish(emit_owned_client_methods(J)))

\* The argument is encoded first; one that breaks a declared bound is refused
\* and neither takes an XID nor sends a byte.
StartCall(j) ==
    /\ phase = "ready"
    /\ job' = <<j>>
    /\ IF j.mode # "buffered" /\ ~emit_owned_client_methods(j).ok
       THEN phase' = "over" /\ out' = <<Err("Encode", <<>>)>>
       ELSE phase' = "xid" /\ UNCHANGED out
    /\ UNCHANGED <<allocator, schema, segs, w, sent, seen, wire, pos, rr, st, rcv, open>>

\* The allocator at work.  Only a contended job lets other threads, and
\* earlier calls of this one, allocate.
Allocate ==
    /\ phase = "xid"
    /\ XidNext
    /\ ~J.contended => last[Caller] = 0 /\ \A t \in Threads \ {Caller} : xpc'[t] = xpc[t]
    /\ UNCHANGED <<phase, client, wire, pos, rr, st, rcv, out, open>>

\* The transport takes a request that encodes; one whose credentials or verifier are
\* too long is refused and has used up its XID.
Submit(request) ==
    IF request.ok THEN phase' = "write" /\ segs' = request.v /\ UNCHANGED out
    ELSE phase' = "over" /\ out' = <<Err(request.err, <<>>)>> /\ UNCHANGED segs

\* allocate() returned.  A contended call leaves once the others are done.
Allocated ==
    /\ phase = "xid"
    /\ J.contended => \A t \in Threads \ {Caller} : xpc[t] = "exhausted"
    /\ \/ /\ xpc[Caller] = "exhausted"
          /\ phase' = "over" /\ out' = <<Err("XidExhausted", <<>>)>> /\ UNCHANGED segs
       \/ /\ xpc[Caller] = "idle" /\ Xid # 0
          /\ Submit(IF J.mode = "buffered" THEN call_typed_with_options ELSE segmented_request)
    /\ UNCHANGED <<allocator, schema, job, w, sent, seen, wire, pos, rr, st, rcv, open>>

(***************************************************************************)
(* write_segments: part 0 is the marker, part i the i-th segment.          *)
(***************************************************************************)
Part(i) == IF i = 0 THEN EncodeMarker(Len(FlattenSeq(segs)), TRUE) ELSE segs[i]

\* What one vectored write is offered.
Slices ==
    LET rest == [i \in 1..(Len(segs) + 1 - w.index) |->
                    LET k == w.index + i - 1 IN IF i = 1 THEN Drop(Part(k), w.offset) ELSE Part(k)]
        full == SelectSeq(rest, LAMBDA s : s # <<>>)
    IN  FlattenSeq(SubSeq(full, 1, IF Len(full) < MAX_SLICES THEN Len(full) ELSE MAX_SLICES))

RECURSIVE Advance(_, _)

\* Mutant: a second partial write of a segment forgets the first.
Advance_restart(at, written) ==
    IF at.index > Len(segs) THEN at
    ELSE LET available == Len(Part(at.index)) - at.offset
         IN  IF written < available THEN [at EXCEPT !.offset = written]
             ELSE Advance([index |-> at.index + 1, offset |-> 0], written - available)

Advance(at, written) ==
    IF at.index > Len(segs) THEN at
    ELSE LET available == Len(Part(at.index)) - at.offset
         IN  IF written < available THEN [at EXCEPT !.offset = @ + written]
             ELSE Advance([index |-> at.index + 1, offset |-> 0], written - available)

Sizes(n) == {c \in Chunks : c <= n} \union {n}

write_segments(n) ==
    /\ phase = "write" /\ w.index <= Len(segs)
    /\ n > 0
    /\ sent' = sent \o SubSeq(Slices, 1, n)
    /\ w' = Advance(w, n)
    /\ phase' = IF w'.index > Len(segs) THEN "serve" ELSE "write"
    /\ UNCHANGED <<allocator, schema, job, segs, seen, wire, pos, rr, st, rcv, out, open>>

(***************************************************************************)
(* The server: a dispatcher for each version of the schema's program.      *)
(***************************************************************************)
\* resolve_dispatch: the dispatcher registered for the call's program and version.
resolve_dispatch(m) ==
    LET p == env.programs[1]
    IN  SelectSeq(p.body, LAMBDA v : [program |-> p.number, version |-> v.number] = m.program)

\* The arm of that dispatcher for the call's procedure.
DispatchArm(m) ==
    LET Procedures(found) == IF found = <<>> THEN <<>> ELSE found[1].body
    IN  SelectSeq(Procedures(resolve_dispatch(m)), LAMBDA p : p.number = m.procedure)

\* The reply of handle_message_with_peer_addr.
handle_message(j, m) ==
    LET Answered(status) == Accepted(m.xid, NoAuth, status, <<>>)
        Outcome(r) == IF r.ok THEN Accepted(m.xid, j.replyverf, "Success", r.payload) ELSE Answered(r.err)
    IN  CASE resolve_dispatch(m) = <<>> -> Answered("ProgramUnavailable")
          [] resolve_dispatch(m) # <<>> /\ DispatchArm(m) = <<>> -> Answered("ProcedureUnavailable")
          [] OTHER -> Outcome(emit_dispatch_arm(env, DispatchArm(m)[1], m.payload, j.answer))

\* What the peer of a job answers: this library's server, or another
\* implementation's refusals and its longer and shorter results.
Reply(j, m, served) ==
    CASE j.peer = "denied" -> EncodeMessage(Denied(m.xid, "AuthError", AuthStat(13))).v
      [] j.peer = "version" -> EncodeMessage(Denied(m.xid, "RpcMismatch", <<2, 2>>)).v
      [] j.peer = "mismatch" -> EncodeMessage(Accepted(m.xid, j.replyverf, "ProgramMismatch", <<2, 3>>)).v
      [] j.peer = "call" -> EncodeMessage(m).v
      [] j.peer = "trailing" -> served \o Zeros(4)
      [] j.peer = "padding" -> [served EXCEPT ![Len(served)] = 1]
      [] j.peer = "short" -> SubSeq(served, 1, Len(served) - 4)
      [] OTHER -> served

\* Fragments of `size` bytes, after an empty one; a size that fragment_record refuses
\* leaves the record in one.
Fragments(data, size) ==
    LET Sent(f) == IF f.ok THEN EncodeMarker(0, FALSE) \o f.v ELSE write_record_payload(data)
    IN  Sent(fragment_record(data, size))

Stray == write_record_payload(EncodeMessage(Accepted(OtherXid, NoAuth, "SystemError", <<>>)).v)

\* The bytes the peer sends: replies nobody waits for, around the one for us.  The
\* server sends nothing for a reply that does not encode.
Answer(j, m) ==
    LET Sent(served) == IF served.ok THEN Fragments(Reply(j, m, served.v), j.frag) ELSE <<>>
    IN  (IF j.stray THEN Stray ELSE <<>>) \o Sent(EncodeMessage(handle_message(j, m))) \o Stray

\* A message cut off the buffer: the service is called and its answer sent.
Dispatch(got) ==
    LET m == got.message.v
        Called(p, arg) == IF arg.ok THEN << <<p.name, arg.v>> >> ELSE <<>>
    IN  /\ got.some
        /\ IF got.message.ok /\ m.type = "Call"
           THEN /\ seen' = IF DispatchArm(m) = <<>> THEN <<>>
                           ELSE Called(DispatchArm(m)[1], Whole(DecodeType(env, DispatchArm(m)[1].arg, m.payload)))
                /\ wire' = Answer(J, m)
           ELSE UNCHANGED <<seen, wire>>
        /\ sent' = got.buffer

Serve ==
    /\ phase = "serve" /\ phase' = "read"
    /\ Dispatch(try_decode_message_from_buffer(sent))
    /\ UNCHANGED <<allocator, schema, job, segs, w, pos, rr, st, rcv, out, open>>

(***************************************************************************)
(* The receivers: ordinary decoding into caller storage (_segmented),      *)
(* metadata and body apart (_into), and a list of buffers (call_segmented) *)
(***************************************************************************)
Ret == P.proc.ret
MetaType == Type("meta", Ret.name, <<>>, <<>>)

\* The bytes of a list of lengths.
Capacity(lens) == FoldLeft(LAMBDA a, b : a + b, 0, lens)

\* The metadata is complete: the length it announces must fit.
Announced(r, meta, len) ==
    IF len > J.cap[1] THEN [r EXCEPT !.data_len = len, !.err = "ExceedsDestination"]
    ELSE [r EXCEPT !.data_len = len, !.meta = <<meta>>]

\* The decoder leaves an incomplete field unconsumed: ask for what it lacks.
AskFor(r, target, most) == [r EXCEPT !.target = target, !.err = IF target > most THEN "PrefixBound" ELSE @]

\* A result without a body announces no bytes.
ParsedPrefix(r, d) ==
    CASE d.ok /\ d.rest # <<>> -> [r EXCEPT !.err = "TrailingBytes"]
      [] d.ok /\ d.rest = <<>> -> Announced(r, d.v, Capacity(opaque_len(env, Bare(MetaType), d.v)))
      [] d.err = "UnexpectedEof" ->
            AskFor(r, Len(r.prefix) + Max({1, d.need - Len(d.rest)}), env.metadata[Ret.name].prefix)
      [] OTHER -> [r EXCEPT !.err = d.err]

parse_prefix(r) ==
    IF r.meta # <<>> \/ Len(r.prefix) < r.target THEN r
    ELSE ParsedPrefix(r, DecodeType(env, MetaType, r.prefix))

\* The next range of the buffer list: up to the end of the first buffer that
\* is not full.
BuffersRange(used) ==
    LET ends == [i \in DOMAIN J.cap |-> Capacity(SubSeq(J.cap, 1, i))]
        free == SelectSeq(ends, LAMBDA e : e > used)
    IN  IF free = <<>> THEN 0 ELSE Head(free) - used

\* Mutant: the whole destination is offered, not the length announced.
NextRange_whole(r) ==
    CASE J.mode = "raw" -> BuffersRange(Len(r.data))
      [] J.mode = "segmented" -> J.cap[1] - Len(r.data)
      [] r.meta = <<>> -> r.target - Len(r.prefix)
      [] Len(r.data) < r.data_len -> J.cap[1] - Len(r.data)
      [] OTHER -> xdr_padding(r.data_len) - Len(r.pad)

\* How many bytes the receiver's next range holds.
NextRange(r) ==
    CASE J.mode = "raw" -> BuffersRange(Len(r.data))
      [] J.mode = "segmented" -> J.cap[1] - Len(r.data)
      [] r.meta = <<>> -> r.target - Len(r.prefix)
      [] Len(r.data) < r.data_len -> r.data_len - Len(r.data)
      [] OTHER -> xdr_padding(r.data_len) - Len(r.pad)

buffer(r) == IF J.mode = "into" THEN parse_prefix(r) ELSE r

advance(r, bytes) ==
    CASE J.mode # "into" -> [r EXCEPT !.data = @ \o bytes]
      [] r.meta = <<>> -> parse_prefix([r EXCEPT !.prefix = @ \o bytes])
      [] Len(r.data) < r.data_len -> [r EXCEPT !.data = @ \o bytes]
      [] OTHER -> [r EXCEPT !.pad = @ \o bytes, !.err = IF bytes # Zeros(Len(bytes)) THEN "NonzeroPadding" ELSE @]

handle_reply(m) ==
    CASE m.xid # Xid -> Err("XidMismatch", <<>>)
      [] m.type = "Call" -> Err("UnexpectedCallMessage", <<>>)
      [] m.status = "Success" -> Ok(m.arg, <<>>)
      [] OTHER -> [Err(m.status, <<>>) EXCEPT !.v = m.arg]

\* XdrReplyReceiver::finish after a complete record.
Finished(p) ==
    IF p.err # "none" THEN Err(p.err, p.data)
    ELSE IF Len(p.data) # p.data_len \/ Len(p.pad) # xdr_padding(p.data_len) THEN Err("TruncatedOpaque", p.data)
    ELSE IF p.meta = <<>> THEN Err("TruncatedMetadata", p.data)
    ELSE Ok(p.meta[1], p.data)

FinishInto(r) == Finished(parse_prefix(r))

Decoded(d, body) == IF d.ok THEN Ok(d.v, body) ELSE Err(d.err, body)

\* What the caller gets for the reply m, once all of it is in.
Completed(m, r) ==
    LET h == handle_reply(m)
    IN  CASE J.mode = "raw" -> Ok(m.status, r.data)
          [] ~h.ok -> [h EXCEPT !.body = r.data]
          [] J.mode = "into" -> FinishInto(r)
          [] OTHER -> Decoded(Whole(DecodeType(env, Ret, IF J.mode = "buffered" THEN h.v ELSE r.data)), r.data)

(***************************************************************************)
(* receive_record.                                                         *)
(***************************************************************************)
Targeted == st.stage \in {"header", "body", "probe", "extra", "buffered"}

NextRecord == rr' = NewReader /\ st' = NewRecord

\* The outcome of a call that failed: call_segmented drops its buffers, the others
\* return theirs with the bytes received.
Failed(e) == <<Err(e, IF J.mode = "raw" THEN <<>> ELSE rcv'.data)>>

Retire(e, reader) ==
    /\ open' = FALSE /\ phase' = "over"
    /\ out' = IF out = <<>> THEN Failed(e) ELSE out
    /\ rr' = reader /\ st' = st

\* Mutant: the marker bytes already read go with the cancelled read.
Stopped_forgets(reader) ==
    /\ "cancel" \in J.faults
    /\ out' = Failed("Cancelled")
    /\ rr' = [reader EXCEPT !.marker = <<>>] /\ st' = [st EXCEPT !.stage = "drain"]
    /\ UNCHANGED <<open, phase>>

\* The call is decided and drained: CallControl::finish gives the caller's
\* stop precedence when it came before the reader was done.
Stopped(reader) ==
    /\ "cancel" \in J.faults
    /\ out' = Failed("Cancelled")
    /\ rr' = reader /\ st' = [st EXCEPT !.stage = "drain"]
    /\ UNCHANGED <<open, phase>>

\* Deliver a result that leaves the connection usable.
Deliver(result, reader) ==
    \/ out' = <<result>> /\ NextRecord /\ UNCHANGED <<open, phase>>
    \/ Stopped(reader)

\* An error met while the reader holds the call's target, or without one.
FailRecord(e, reader) == Retire(e, reader) \/ (Targeted /\ Stopped(reader))

Move(stage, bytes, end, header, reader) ==
    /\ st' = [stage |-> stage, bytes |-> bytes, end |-> end, header |-> header]
    /\ rr' = reader /\ UNCHANGED <<open, phase, out>>

\* The receiver is asked for its next range.
Filling(b, header, reader) ==
    /\ rcv' = b
    /\ CASE b.err # "none" -> FailRecord(b.err, reader)
         [] b.err = "none" /\ NextRange(b) = 0 -> Move("probe", <<>>, 1, header, reader)
         [] OTHER -> Move("body", <<>>, NextRange(b), header, reader)

FillBody(r, header, reader) == Filling(buffer(r), header, reader)

\* Mutant: the verifier body is read without its padding.
HeaderEnd_unpadded(b) ==
    LET n       == Len(b)
        Word(i) == GetWord(SubSeq(b, i + 1, i + 4))
        auth    == 20 + AsLength(Word(16))
        Upto(end) == [end |-> end, err |-> "none"]
    IN  CASE n = 8 /\ Word(4) = 1 -> Upto(12)
          [] n = 8 /\ Word(4) # 1 ->
                [end |-> 0, err |-> IF Word(4) = 0 THEN "UnexpectedCallMessage" ELSE "InvalidMessageType"]
          [] n = 12 -> Upto(CASE Word(8) = 0 -> 20 [] Word(8) = 1 -> 16 [] OTHER -> 0)
          [] n > 12 /\ Word(8) = 0 ->
                IF n = 20 THEN IF AsLength(Word(16)) > MAX_AUTH_BYTES THEN [end |-> 0, err |-> "AuthBodyTooLong"]
                               ELSE Upto(auth + 4)
                ELSE Upto(IF n = auth + 4 /\ Word(auth) = 2 THEN n + 8 ELSE 0)
          [] n > 12 /\ Word(8) = 1 -> Upto(IF n # 16 THEN 0 ELSE CASE Word(12) = 0 -> 24 [] Word(12) = 1 -> 20 [] OTHER -> 0)

\* reply_header: where the next part of the envelope ends, 0 when it is
\* complete, or the error.
HeaderEnd(b) ==
    LET n       == Len(b)
        Word(i) == GetWord(SubSeq(b, i + 1, i + 4))
        auth    == 20 + AsLength(Word(16)) + xdr_padding(AsLength(Word(16)))
        Upto(end) == [end |-> end, err |-> "none"]
    IN  CASE n = 8 /\ Word(4) = 1 -> Upto(12)
          [] n = 8 /\ Word(4) # 1 ->
                [end |-> 0, err |-> IF Word(4) = 0 THEN "UnexpectedCallMessage" ELSE "InvalidMessageType"]
          [] n = 12 -> Upto(CASE Word(8) = 0 -> 20 [] Word(8) = 1 -> 16 [] OTHER -> 0)
          [] n > 12 /\ Word(8) = 0 ->
                IF n = 20 THEN IF AsLength(Word(16)) > MAX_AUTH_BYTES THEN [end |-> 0, err |-> "AuthBodyTooLong"]
                               ELSE Upto(auth + 4)
                ELSE Upto(IF n = auth + 4 /\ Word(auth) = 2 THEN n + 8 ELSE 0)
          [] n > 12 /\ Word(8) = 1 -> Upto(IF n # 16 THEN 0 ELSE CASE Word(12) = 0 -> 24 [] Word(12) = 1 -> 20 [] OTHER -> 0)

\* Read on, fail, or go over to the body or the end of the record.
HeaderPart(b, part, m, reader) ==
    CASE part.err # "none" -> UNCHANGED rcv /\ FailRecord(part.err, reader)
      [] part.err = "none" /\ part.end > 0 -> Move("header", b, part.end, <<>>, reader) /\ UNCHANGED rcv
      [] OTHER -> IF ~m.ok THEN UNCHANGED rcv /\ FailRecord(m.err, reader)
                  ELSE IF m.v.status = "Success" THEN FillBody(rcv, <<m.v>>, reader)
                  ELSE Move("probe", <<>>, 1, <<m.v>>, reader) /\ UNCHANGED rcv

reply_header(b, reader) == HeaderPart(b, HeaderEnd(b), DecodeMessage(b), reader)

\* What the stage does with bytes that came in.
Take(bytes, reader) ==
    LET b    == st.bytes \o bytes
        full == Len(b) = st.end
        Advanced(r) == IF r.err # "none" THEN rcv' = r /\ FailRecord(r.err, reader) ELSE FillBody(r, st.header, reader)
    IN  CASE st.stage \in {"xid", "header"} /\ ~full ->
                Move(st.stage, b, st.end, <<>>, reader) /\ UNCHANGED rcv
          [] st.stage = "xid" /\ full ->
                /\ Move(IF GetWord(b) # Xid \/ out # <<>> THEN "drain"
                        ELSE IF J.mode = "buffered" THEN "buffered" ELSE "header", b, 8, <<>>, reader)
                /\ UNCHANGED rcv
          [] st.stage = "header" /\ full -> reply_header(b, reader)
          [] st.stage = "body" -> Advanced(advance(rcv, bytes))
          [] st.stage = "buffered" -> Move("buffered", b, 0, <<>>, reader) /\ UNCHANGED rcv
          [] st.stage = "probe" -> Move("extra", <<>>, 0, st.header, reader) /\ UNCHANGED rcv
          [] st.stage \in {"extra", "drain"} -> Move(st.stage, <<>>, 0, st.header, reader) /\ UNCHANGED rcv

\* What the stage does at the end of the record.
AtEnd ==
    LET Buffered(m) ==
            IF ~m.ok THEN FailRecord(m.err, rr)
            ELSE IF m.v.type = "Call" THEN FailRecord("UnexpectedCallMessage", rr)
            ELSE Deliver(Completed(m.v, rcv), rr)
    IN  CASE st.stage \in {"xid", "header"} -> FailRecord("UnexpectedEof", rr)
          [] st.stage = "buffered" -> Buffered(DecodeMessage(st.bytes))
          [] st.stage \in {"body", "probe"} -> Deliver(Completed(st.header[1], rcv), rr)
          [] st.stage = "extra" ->
                IF st.header[1].status = "Success" THEN Deliver(Failed("ExceedsCapacity")[1], rr)
                ELSE FailRecord("TrailingBytes", rr)
          [] st.stage = "drain" -> NextRecord /\ UNCHANGED <<open, phase, out>>

(***************************************************************************)
(* RecordReader: read_some, one socket read at a time.                     *)
(***************************************************************************)
Reading == phase = "read" /\ UNCHANGED <<allocator, client, wire>>
Available(n) == IF Len(wire) - pos < n THEN Len(wire) - pos ELSE n

\* What remains to be filled of the stage's destination.
Room == IF st.stage \in {"xid", "header"} THEN st.end - Len(st.bytes)
        ELSE IF st.stage \in {"body", "probe"} THEN st.end ELSE MaxLen

Between == rr.remaining = 0 /\ ~rr.last

RecordEndRead == Reading /\ rr.remaining = 0 /\ rr.last /\ UNCHANGED <<pos, rcv>> /\ AtEnd

TooManyFragments ==
    Reading /\ Between /\ rr.fragments = max_fragments
    /\ UNCHANGED <<pos, rcv>> /\ FailRecord("TooManyFragments", rr)

\* A marker that is complete starts its fragment, unless the record would
\* exceed its limit; an incomplete one is kept.
MarkerRead(n) ==
    LET m     == rr.marker \o SubSeq(wire, pos + 1, pos + n)
        mark  == DecodeMarker(m)
        total == rr.record_bytes + 4 + mark.len
        Same  == UNCHANGED <<st, open, phase, out>>
    IN  /\ Reading /\ Between /\ rr.fragments < max_fragments
        /\ n > 0 /\ pos' = pos + n /\ UNCHANGED rcv
        /\ CASE Len(m) < 4 -> rr' = [rr EXCEPT !.marker = m] /\ Same
             [] Len(m) = 4 /\ total > max_record_bytes ->
                   FailRecord("RecordLimit", [rr EXCEPT !.marker = <<>>])
             [] OTHER -> rr' = [fragments |-> rr.fragments + 1, record_bytes |-> total, remaining |-> mark.len,
                                last |-> mark.last, marker |-> <<>>] /\ Same

DataRead(n) ==
    /\ Reading /\ rr.remaining > 0 /\ n > 0
    /\ pos' = pos + n
    /\ Take(SubSeq(wire, pos + 1, pos + n), [rr EXCEPT !.remaining = @ - n])

Read ==
    \/ \E n \in Sizes(Available(4 - Len(rr.marker))) : MarkerRead(n)
    \/ \E n \in Sizes(Available(IF rr.remaining < Room THEN rr.remaining ELSE Room)) : DataRead(n)

\* read returned 0.
PeerCloses ==
    /\ Reading /\ "close" \in J.faults
    /\ rr.remaining > 0 \/ (Between /\ rr.fragments < max_fragments)
    /\ UNCHANGED <<pos, rcv>> /\ FailRecord("ConnectionClosed", rr)

\* The caller's deadline or token fires while the reader waits.
Cancel == Reading /\ Targeted /\ UNCHANGED <<pos, rcv>> /\ Stopped(rr)

CallNext ==
    \/ Generate \/ Allocate \/ Allocated \/ Serve
    \/ \E i \in DOMAIN Jobs[tree] : StartCall(Jobs[tree][i])
    \/ \E n \in Sizes(Len(Slices)) : write_segments(n)
    \/ Read \/ RecordEndRead \/ TooManyFragments \/ PeerCloses \/ Cancel

CallSpec == CallInit /\ [][CallNext]_callVars

----------------------------------------------------------------------------
(***************************************************************************)
(* References for the properties.                                          *)
(***************************************************************************)
\* The request as one record, in the ordinary encoding.
Framed == write_record_payload(EncodeMessage(Message(Xid, emit_client_method)).v)

\* Would a peer that reads the argument into its own storage refuse a bound?
ArgOverBound ==
    LET arg == P.proc.arg
    IN  /\ arg.k = "name" /\ arg.name \in DOMAIN env.metadata
        /\ ~DecodeType(env, Type("meta", arg.name, <<>>, <<>>), EncodeType(env, arg, J.arg)).ok

\* Are the credentials or the verifier that this call sends too long?
AuthOverBound ==
    \E a \in {J.cred, J.verf} : Len((IF a.options # <<>> THEN a.options[1] ELSE a.config).body) > MAX_AUTH_BYTES

\* The result as the service gave it: its encoding, its metadata and body.
ResultBytes == EncodeType(env, Ret, J.answer.v)
ResultMeta == conversion(env, Bare(Ret), J.answer.v, -1)
BodyLen == Capacity(opaque_len(env, Bare(MetaType), ResultMeta))
BodyOf(bytes, n) == SubSeq(Drop(bytes, Len(bytes) - n - xdr_padding(n)), 1, n)

ExpectedInto(bytes, n) ==
    CASE ~DecodeType(env, MetaType, bytes).ok -> Err("LengthLimit", <<>>)
      [] n > J.cap[1] -> Err("ExceedsDestination", <<>>)
      [] OTHER -> Ok(ResultMeta, BodyOf(bytes, n))

ExpectedResult(bytes) ==
    CASE J.mode = "buffered" -> Ok(J.answer.v, <<>>)
      [] J.mode = "into" -> ExpectedInto(bytes, BodyLen)
      [] J.mode \in {"segmented", "raw"} /\ Len(bytes) > Capacity(J.cap) ->
            Err("ExceedsCapacity", IF J.mode = "raw" THEN <<>> ELSE SubSeq(bytes, 1, Capacity(J.cap)))
      [] OTHER -> Ok(IF J.mode = "raw" THEN "Success" ELSE J.answer.v, bytes)

\* The outcome of a call whose reply arrives whole and is not interrupted.
Expected ==
    LET denial == CASE J.peer = "denied" -> <<"AuthError", AuthStat(13)>>
                    [] J.peer = "version" -> <<"RpcMismatch", <<2, 2>>>>
                    [] J.peer = "mismatch" -> <<"ProgramMismatch", <<2, 3>>>>
                    [] ~J.answer.ok -> <<J.answer.v, <<>>>>
                    [] OTHER -> <<>>
    IN  IF J.mode # "buffered" /\ ArgOverBound THEN Err("Encode", <<>>)
        ELSE IF AuthOverBound THEN Err("AuthBodyTooLong", <<>>)
        ELSE IF denial = <<>> THEN ExpectedResult(ResultBytes)
        ELSE IF J.mode = "raw" THEN Ok(denial[1], <<>>)
        ELSE [Err(denial[1], <<>>) EXCEPT !.v = denial[2]]

\* The fragments on the wire from offset `at` on: where each starts and ends,
\* and the bytes of its record up to its end.
RECURSIVE Scan(_, _)
Scan(at, before) ==
    IF at >= Len(wire) THEN <<>>
    ELSE LET mark  == DecodeMarker(SubSeq(wire, at + 1, at + 4))
             total == before + 4 + mark.len
         IN  <<[start |-> at, end |-> at + 4 + mark.len, total |-> total, final |-> mark.last]>>
             \o Scan(at + 4 + mark.len, IF mark.last THEN 0 ELSE total)

\* The two readers of a buffered stream find the same record.
SameRecord(input) ==
    LET Same(r, t) == r.complete = t.some /\ r.data = t.record /\ Drop(input, r.consumed) = t.buffer
    IN  Same(read_record(input), try_take_record_from_buffer(input))

(***************************************************************************)
(* Properties.                                                             *)
(***************************************************************************)
\* However the writes are cut and the body is split among owners, what
\* write_segments has sent is a prefix of the one record the ordinary
\* encoding makes, and the dispatcher of the call's version calls the very
\* procedure, with the very argument, that the caller gave; a call that was refused sent nothing.  The
\* record the server cuts off its buffer is the one read_record finds, as is
\* the first of the peer's, in however many fragments it comes.
ServedAsSent ==
    /\ phase = "write" => IsPrefix(sent, Framed)
    /\ phase = "serve" => sent = Framed
    /\ phase = "read" => seen = << <<J.proc, J.arg>> >>
    /\ job # <<>> /\ seen = <<>> /\ phase = "over" => sent = <<>>
    /\ phase = "serve" => SameRecord(sent)
    /\ phase = "read" /\ pos = 0 => SameRecord(wire)

\* Whatever the fragments and the sizes of the reads, an uninterrupted call
\* returns exactly what the service answered, in the form its method
\* promises, or the one error that the answer, the bounds and the caller's
\* storage call for; a reply that is cut short, too long, badly padded or no
\* reply at all is never a success.
OutcomeExact ==
    job # <<>> /\ out # <<>> /\ out[1].err \notin
        {"Cancelled", "ConnectionClosed", "XidExhausted", "TooManyFragments", "RecordLimit"} =>
    IF J.peer \in {"call", "trailing", "short", "padding"} THEN ~out[1].ok ELSE out[1] = Expected

\* receive into caller storage: the metadata fits MAX_PREFIX_BYTES, and at
\* every moment, an interrupted call included, the destination holds a
\* prefix of the result's opaque body and nothing else.
BodyInPlace ==
    phase \in {"read", "over"} /\ job # <<>> /\ J.mode = "into" /\ J.answer.ok =>
        /\ rcv.err # "PrefixBound"
        /\ rcv.meta # <<>> => Len(rcv.prefix) <= env.metadata[Ret.name].prefix
        /\ J.peer = "server" /\ rcv.data # <<>> => IsPrefix(rcv.data, BodyOf(ResultBytes, BodyLen))

\* "The next record is never consumed": whenever the reader starts a record
\* it stands at the start of one on the wire, after a success, an error that
\* keeps the connection, an unknown XID, and a cancellation that dropped a
\* read in the middle of a marker or a fragment; and the cancellation costs
\* only that call, "without closing a healthy connection".
StreamAtBoundary ==
    /\ phase = "read" /\ rr = NewReader /\ st = NewRecord =>
         pos \in {0} \union {f.end : f \in {g \in Range(Scan(0, 0)) : g.final}}
    /\ out # <<>> /\ out[1].err = "Cancelled" /\ "close" \notin J.faults => open

\* "record-limit violations ... retire the connection": no record is started
\* once a marker has announced more than max_record_bytes.
LimitRetires ==
    phase = "read" /\ rr = NewReader =>
        \A f \in Range(Scan(0, 0)) : f.total > max_record_bytes => pos < f.start + 4

Words(tokens) == SelectSeq(tokens, LAMBDA t : t.t \in {"keyword", "identifier", "number"})
Count(x, s) == Cardinality({i \in DOMAIN s : s[i] = x})

\* p: the parser's result; bare, clean: the source without comments, and
\* without the lines it skips.
Understood(p, bare, clean) ==
    LET closed == clean = <<>> \/ (Last(clean) = ";" /\ Count("{", clean) = Count("}", clean))
        Kept(shown, words) ==
            /\ "program" \notin Range(clean) => shown = words
            /\ \A x \in Range(shown) : Count(x, shown) <= Count(x, words)
    IN  /\ p.err # "panic"
        /\ p.ok <=> bare.ok /\ closed
        /\ p.ok => Kept(Words(render_snapshot(p.v)), Words(tokenize(clean)))

\* A source is accepted exactly when it ends between items; the parser never
\* looks beyond its tokens; and the schema it returns holds every word of the
\* source, in order (but for the names of procedure arguments).
SourceUnderstood ==
    LET src  == SubSeq(Root(tree), 1, cut)
        bare == strip_block_comments(src)
    IN  phase = "source" => Understood(parse_x_source(src), bare, strip_unsupported_lines(bare.src))

\* Does every include line of these files name a file?
Resolved(t, paths) ==
    \A p \in paths : \A i \in Range(extract_includes(Trees[t].files[p])) :
        resolve_include(Trees[t].files, p, i, Trees[t].dirs) # <<>>

\* The files a tree's root reaches through its include lines.
IncludeGraph(t) ==
    LET f == Trees[t].files
        To(p) == {resolve_include(f, p, i, Trees[t].dirs) : i \in Range(extract_includes(f[p]))}
    IN  [node |-> DOMAIN f, edge |-> {<<p, q>> \in (DOMAIN f) \X (DOMAIN f) : <<q>> \in To(p)}]

\* g: the include graph; reached: its transitive closure.
LoadedFrom(g, reached, root) ==
    LET files == {p \in g.node : p = root \/ reached[root, p]}
        Place(p) == CHOOSE i \in DOMAIN made.modules : made.modules[i].path = p
    IN  IF out # <<>> THEN ~Resolved(tree, files) ELSE
        /\ Resolved(tree, files)
        /\ {m.path : m \in Range(made.modules)} = files /\ Len(made.modules) = Cardinality(files)
        /\ Last(made.modules).path = root
        /\ \A e \in g.edge : e[1] \in files /\ ~reached[e[2], e[1]] => Place(e[2]) < Place(e[1])

\* A renamed module set names only its own modules and has the same stubs.
StillClosed(new) ==
    LET names == {m.name : m \in Range(new.modules)}
        Stubs(x) == Each(generate_rust_module_set(x), LAMBDA o : <<o.stubs>>)
    IN  /\ new.root \in names /\ \A m \in Range(new.modules) : Range(m.dependencies) \subseteq names
        /\ Stubs(made) = Stubs(new)

\* Loading follows every include once, cycles included: the modules are the
\* files the root reaches, each once, an included file before the file that
\* includes it unless they include each other, the root last; it fails when
\* an include names no file.  Renaming the root keeps the set closed.
ModulesLoaded ==
    job = <<>> /\ phase # "source" /\ cut = Len(Root(tree)) =>
        LET g == IncludeGraph(tree)
        IN  /\ LoadedFrom(g, ConnectionsIn(g), Trees[tree].root)
            /\ out = <<>> => StillClosed(rename_root_module(made, "renamed"))
============================================================================
