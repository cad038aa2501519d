------------------------------ MODULE XCodec -------------------------------
(***************************************************************************)
(* What the Rust code the generator writes for a schema does               *)
(* (crates/onc-rpc-gen/src/emit.rs and emit/owned_codegen.rs, on top of    *)
(* crates/onc-rpc-xdr): the XDR codec of every type, the segmented         *)
(* encoder, and the two projections of a type whose last member is an      *)
(* opaque body, XMetadata (the body replaced by its length) and XSegments  *)
(* (the body kept as several owners).                                      *)
(*                                                                         *)
(* Values: integers and floats as in Xdr, byte sequences for opaque,       *)
(* string and quadruple, sequences for arrays and structures, <<>> or      *)
(* <<v>> for optional data, the number of an enumerator, and               *)
(* [label, disc, v] for a union.                                           *)
(***************************************************************************)
EXTENDS Xdr, XLoader

(***************************************************************************)
(* The named types and constants of a module set; the last definition of   *)
(* a name wins, as in the maps of the emitter.                             *)
(***************************************************************************)
from_modules(modules) ==
    LET all   == FlattenSeq([i \in DOMAIN modules |-> modules[i].items])
        Of(K) == SelectSeq(all, LAMBDA i : i.k \in K)
        Table(s) == [n \in {s[i].name : i \in DOMAIN s} |->
                        s[CHOOSE i \in DOMAIN s : s[i].name = n /\ \A j \in DOMAIN s : s[j].name = n => j <= i]]
    IN  [types |-> Table(Of({"typedef", "struct", "enum", "union"})),
         consts |-> Table(Of({"const"})),
         programs |-> Of({"program"})]

\* The value of a constant expression, 0 or more, or -1 for none.
RECURSIVE value(_, _, _)
value(env, x, seen) ==
    CASE x.t = "number" -> IF x.n >= 0 THEN x.n ELSE -1
      [] x.t = "identifier" -> IF x.s \in seen \/ x.s \notin DOMAIN env.consts THEN -1
                               ELSE value(env, env.consts[x.s].value, seen \union {x.s})
      [] OTHER -> -1

Bound(env, x) == IF x = None THEN MaxLen ELSE value(env, x, {})

Decl(type, m, bound) == [type |-> type, name |-> "", m |-> m, bound |-> bound]
Bare(type) == Decl(type, "none", None)

\* The declaration a name stands for: of a typedef its own, else of the body.
Defined(env, name) ==
    LET i == env.types[name] IN IF i.k = "typedef" THEN i.decl ELSE Bare(i.type)

(***************************************************************************)
(* Layouts: the most bytes before the terminal body, and whether there is  *)
(* one.  <<>> is the source's None.                                        *)
(***************************************************************************)
Shape(prefix, body) == <<[prefix |-> prefix, body |-> body]>>

RECURSIVE declaration(_, _, _)

\* Members in order: only the last may hold the body.
InOrder(s) ==
    IF \E i \in DOMAIN s : s[i] = <<>> \/ (s[i][1].body /\ i # Len(s)) THEN <<>>
    ELSE Shape(FoldLeft(LAMBDA n, x : n + x[1].prefix, 0, s), \E i \in DOMAIN s : s[i][1].body)

structure(env, decls, seen) == InOrder([i \in DOMAIN decls |-> declaration(env, decls[i], seen)])

\* A discriminant, then the longest arm.
OneOf(d, s) ==
    IF d = <<>> \/ \E i \in DOMAIN s : s[i] = <<>> THEN <<>>
    ELSE IF d[1].body THEN <<>>
    ELSE Shape(d[1].prefix + FoldLeft(LAMBDA n, x : IF x[1].prefix > n THEN x[1].prefix ELSE n, 0, s),
               \E i \in DOMAIN s : s[i][1].body)

union(env, disc, arms, seen) ==
    OneOf(declaration(env, disc, seen), [i \in DOMAIN arms |-> declaration(env, arms[i].decl, seen)])

named(env, name, seen) ==
    IF name \in seen \/ name \notin DOMAIN env.types THEN <<>>
    ELSE LET i == env.types[name]
             s == seen \union {name}
         IN  CASE i.k = "typedef" -> declaration(env, i.decl, s)
               [] i.k = "struct" -> structure(env, i.type.body, s)
               [] i.k = "enum" -> Shape(4, FALSE)
               [] i.k = "union" -> union(env, i.type.disc[1], i.type.body, s)

EndsInBody(s) == s # <<>> /\ s[1].body
WithoutBody(s) == IF EndsInBody(s) THEN <<>> ELSE s

base(env, t, seen) ==
    CASE t.k = "void" -> Shape(0, FALSE)
      [] t.k \in {"bool", "int", "unsigned int", "float", "enum"} -> Shape(4, FALSE)
      [] t.k \in {"hyper", "unsigned hyper", "double"} -> Shape(8, FALSE)
      [] t.k = "quadruple" -> Shape(16, FALSE)
      [] t.k = "opaque" -> Shape(1, FALSE)
      [] t.k = "name" -> named(env, t.name, seen)
      [] t.k = "struct" -> WithoutBody(structure(env, t.body, seen))
      [] t.k = "union" -> WithoutBody(union(env, t.disc[1], t.body, seen))
      [] t.k = "string" -> <<>>

\* The layout of a declarator, given its bound and the layout of its type.
Declared(d, n, b) ==
    CASE d.m = "var" /\ d.type.k = "opaque" ->
            IF d.bound # None /\ n < 0 THEN <<>> ELSE Shape(4, TRUE)
      [] d.m = "var" -> <<>>
      [] d.m = "fixed" ->
            IF n < 0 \/ WithoutBody(b) = <<>> THEN <<>>
            ELSE Shape(IF d.type.k = "opaque" THEN ((n + 3) \div 4) * 4 ELSE n * b[1].prefix, FALSE)
      [] d.m = "optional" -> IF b = <<>> THEN <<>> ELSE Shape(b[1].prefix + 4, b[1].body)
      [] d.m = "none" -> b

declaration(env, d, seen) == Declared(d, value(env, d.bound, {}), base(env, d.type, seen))

HasBody(env, d) == EndsInBody(declaration(env, d, {}))
metadata_name(env, name) == EndsInBody(named(env, name, {}))
MAX_PREFIX_BYTES(env, name) == named(env, name, {})[1].prefix

\* Does the value of a declaration end in an opaque body?
RECURSIVE terminal(_, _, _)
terminal(env, d, seen) ==
    \/ d.type.k = "opaque" /\ d.m = "var"
    \/ /\ d.type.k = "name" /\ d.m \in {"none", "optional"}
       /\ d.type.name \in DOMAIN env.types \ seen
       /\ LET i == env.types[d.type.name]
              s == seen \union {d.type.name}
          IN  \/ i.k = "typedef" /\ terminal(env, i.decl, s)
              \/ i.k = "struct" /\ i.type.body # <<>> /\ terminal(env, Last(i.type.body), s)
              \/ i.k = "union" /\ \E j \in DOMAIN i.type.body : terminal(env, i.type.body[j].decl, s)

segments_name(env, name) == terminal(env, Bare(Named(name)), {})

(***************************************************************************)
(* Projections.  A projected name is Type("meta" or "segs", name); its     *)
(* body is OpaqueLength or OpaqueSegments, bounded as declared.            *)
(***************************************************************************)
transform(env, d) ==
    CASE d.type.k = "opaque" /\ d.m = "var" -> [d EXCEPT !.type = Plain("OpaqueLength"), !.m = "none"]
      [] d.type.k = "name" /\ metadata_name(env, d.type.name) ->
            [d EXCEPT !.type = Type("meta", d.type.name, <<>>, <<>>)]
      [] OTHER -> d

transform_segments(env, d) ==
    CASE d.type.k = "opaque" /\ d.m = "var" -> [d EXCEPT !.type = Plain("OpaqueSegments"), !.m = "none"]
      [] d.type.k = "name" /\ segments_name(env, d.type.name) ->
            [d EXCEPT !.type = Type("segs", d.type.name, <<>>, <<>>)]
      [] OTHER -> d

emit_metadata(env, name) ==
    LET d == Defined(env, name)
        t == d.type
    IN  CASE env.types[name].k = "typedef" -> transform(env, d)
          [] t.k = "struct" -> Bare([t EXCEPT !.body[Len(t.body)] = transform(env, @)])
          [] t.k = "union" ->
                Bare([t EXCEPT !.body = [i \in DOMAIN @ |->
                    IF HasBody(env, @[i].decl) THEN [@[i] EXCEPT !.decl = transform(env, @)] ELSE @[i]]])

emit_segment_projections(env, name) ==
    LET d == Defined(env, name)
        t == d.type
    IN  CASE env.types[name].k = "typedef" -> transform_segments(env, d)
          [] t.k = "struct" -> Bare([t EXCEPT !.body[Len(t.body)] = transform_segments(env, @)])
          [] t.k = "union" ->
                Bare([t EXCEPT !.body = [i \in DOMAIN @ |->
                    IF terminal(env, @[i].decl, {})
                    THEN [@[i] EXCEPT !.decl = transform_segments(env, @)] ELSE @[i]]])

\* Everything the generator writes: the schema with its projections.
emit_rust_types(env) ==
    [types |-> env.types, consts |-> env.consts, programs |-> env.programs,
     metadata |-> [n \in {x \in DOMAIN env.types : metadata_name(env, x)} |->
                    [decl |-> emit_metadata(env, n), prefix |-> MAX_PREFIX_BYTES(env, n)]],
     segments |-> [n \in {x \in DOMAIN env.types : segments_name(env, x)} |-> emit_segment_projections(env, n)]]

\* The declaration behind any named type of the generated code.
Behind(env, t) ==
    CASE t.k = "name" -> Defined(env, t.name)
      [] t.k = "meta" -> env.metadata[t.name].decl
      [] t.k = "segs" -> env.segments[t.name]

NamedKinds == {"name", "meta", "segs"}

\* Is the Rust type of this IDL type u8?
RECURSIVE IsU8(_, _)
IsU8(env, t) ==
    \/ t.k = "opaque"
    \/ t.k = "name" /\ LET d == Defined(env, t.name) IN d.m = "none" /\ IsU8(env, d.type)

\* A fixed array behind a typedef is a Rust array, which packs bytes.
Packed(env, d, alias) == d.m = "fixed" /\ (d.type.k = "opaque" \/ (alias /\ IsU8(env, d.type)))

(***************************************************************************)
(* Unions: the value of a label, the arm an encoded discriminant picks.    *)
(***************************************************************************)
enum_type_name_for(env, t) ==
    t.k = "name" /\ t.name \in DOMAIN env.types /\ env.types[t.name].k = "enum"

IsDefault(label) == label.t = "default"
union_has_default_arm(arms) == \E i \in DOMAIN arms : \E j \in DOMAIN arms[i].labels : IsDefault(arms[i].labels[j])

Enumerators(env, t) == IF t.k = "enum" THEN t.body ELSE env.types[t.name].type.body

render_union_label(env, label, t) ==
    CASE label.t = "identifier" /\ t.k = "bool" /\ label.s \in {"TRUE", "FALSE"} -> label.s = "TRUE"
      [] label.t = "identifier" /\ enum_type_name_for(env, t) ->
            LET e == Enumerators(env, t)
            IN  e[CHOOSE i \in DOMAIN e : e[i].name = label.s].value.n
      [] OTHER -> label.n

\* With a default arm an enumeration is read as a plain integer.
union_decode_discriminant_type(env, t) ==
    IF union_has_default_arm(t.body) /\ enum_type_name_for(env, t.disc[1].type)
    THEN Bare(Plain("int")) ELSE t.disc[1]

union_default_discriminant_type(env, t) ==
    IF enum_type_name_for(env, t.disc[1].type) THEN Bare(Plain("int")) ELSE t.disc[1]

\* The arms in match order, an arm with a default label only as the default.
Labelled(arms) ==
    FlattenSeq([i \in DOMAIN arms |->
        IF union_has_default_arm(<<arms[i]>>) THEN <<>>
        ELSE [j \in DOMAIN arms[i].labels |-> [label |-> arms[i].labels[j], decl |-> arms[i].decl]]])

DefaultArm(arms) ==
    Each(SelectSeq(arms, LAMBDA a : union_has_default_arm(<<a>>)),
         LAMBDA a : <<[label |-> Token("default", "", 0), decl |-> a.decl]>>)

ArmFor(env, t, disc) ==
    FirstOf(SelectSeq(Labelled(t.body), LAMBDA a : render_union_label(env, a.label, t.disc[1].type) = disc)
            \o DefaultArm(t.body))

\* The arm of a value.
ArmOf(t, label) ==
    t.body[CHOOSE i \in DOMAIN t.body : \E j \in DOMAIN t.body[i].labels : t.body[i].labels[j] = label].decl

(***************************************************************************)
(* XdrEncode.                                                              *)
(***************************************************************************)
RECURSIVE EncodeDeclaration(_, _, _, _)

\* The default variant carries its discriminant; the others have their label's.
EncodeDiscriminant(env, t, v) ==
    LET default == IsDefault(v.label)
    IN  EncodeDeclaration(env, IF default THEN union_default_discriminant_type(env, t) ELSE t.disc[1],
                          IF default THEN v.disc ELSE render_union_label(env, v.label, t.disc[1].type), FALSE)

EncodeStruct(env, t, v) ==
    FlattenSeq([i \in DOMAIN t.body |-> EncodeDeclaration(env, t.body[i], v[i], FALSE)])

EncodeEnum(v) == EncodeI32(v)

EncodeUnion(env, t, v) ==
    EncodeDiscriminant(env, t, v) \o EncodeDeclaration(env, ArmOf(t, v.label), v.v, FALSE)

EncodeType(env, t, v) ==
    CASE t.k = "void" -> <<>>
      [] t.k = "bool" -> EncodeBool(v)
      [] t.k = "int" -> EncodeI32(v)
      [] t.k = "unsigned int" -> EncodeU32(v)
      [] t.k = "hyper" -> EncodeI64(v)
      [] t.k = "unsigned hyper" -> EncodeU64(v)
      [] t.k = "float" -> EncodeF32(v)
      [] t.k = "double" -> EncodeF64(v)
      [] t.k = "quadruple" -> write_fixed_opaque(v)
      [] t.k = "opaque" -> EncodeU8(v)
      [] t.k = "string" -> EncodeString(v)
      [] t.k = "enum" -> EncodeEnum(v)
      [] t.k = "struct" -> EncodeStruct(env, t, v)
      [] t.k = "union" -> EncodeUnion(env, t, v)
      [] t.k \in NamedKinds -> EncodeDeclaration(env, Behind(env, t), v, TRUE)

\* What precedes the elements of an array or of optional data.
ElementCount(d, v) ==
    CASE d.m = "var" -> PutWord(Len(v)) [] d.m = "optional" -> EncodeBool(v # <<>>) [] d.m = "fixed" -> <<>>

\* `alias`: the declaration is a typedef's, encoded through its Rust type.
EncodeDeclaration(env, d, v, alias) ==
    CASE d.m = "var" /\ d.type.k = "opaque" -> EncodeBytes(v)
      [] d.m = "var" /\ d.type.k = "string" -> EncodeString(v)
      [] Packed(env, d, alias) -> write_fixed_opaque(v)
      [] d.m = "none" -> EncodeType(env, d.type, v)
      [] OTHER -> ElementCount(d, v) \o FlattenSeq([i \in DOMAIN v |-> EncodeType(env, d.type, v[i])])

(***************************************************************************)
(* XdrDecode.                                                              *)
(***************************************************************************)
RECURSIVE DecodeDeclaration(_, _, _, _)
RECURSIVE DecodeType(_, _, _)

RECURSIVE DecodeFields(_, _, _, _)
DecodeFields(env, decls, input, found) ==
    IF decls = <<>> THEN Got(found, input)
    ELSE AndThen(DecodeDeclaration(env, Head(decls), input, FALSE), LAMBDA r :
            DecodeFields(env, Tail(decls), r.rest, Append(found, r.v)))

RECURSIVE decode_fixed_array(_, _, _, _, _)
decode_fixed_array(env, t, n, input, found) ==
    IF n = 0 THEN Got(found, input)
    ELSE AndThen(DecodeType(env, t, input), LAMBDA r :
            decode_fixed_array(env, t, n - 1, r.rest, Append(found, r.v)))

DecodeVec(env, t, input) ==
    AndThen(read_u32(input), LAMBDA n : decode_fixed_array(env, t, AsLength(n.v), n.rest, <<>>))

DecodeOption(env, t, input) ==
    AndThen(DecodeBool(input), LAMBDA some :
        IF some.v THEN Map(DecodeType(env, t, some.rest), LAMBDA x : <<x>>) ELSE Got(<<>>, some.rest))

DecodeEnum(env, t, input) ==
    AndThen(DecodeI32(input), LAMBDA r :
        IF \A i \in DOMAIN t.body : t.body[i].value.n # r.v THEN Bad("InvalidEnum", 0, r.rest) ELSE r)

DecodeArm(env, arm, disc) ==
    IF arm = <<>> THEN Bad("InvalidEnum", 0, disc.rest)
    ELSE Map(DecodeDeclaration(env, arm[1].decl, disc.rest, FALSE),
             LAMBDA x : [label |-> arm[1].label, disc |-> disc.v, v |-> x])

DecodeUnion(env, t, input) ==
    AndThen(DecodeDeclaration(env, union_decode_discriminant_type(env, t), input, FALSE),
            LAMBDA disc : DecodeArm(env, ArmFor(env, t, disc.v), disc))

DecodeType(env, t, input) ==
    CASE t.k = "void" -> Got(<<>>, input)
      [] t.k = "bool" -> DecodeBool(input)
      [] t.k = "int" -> DecodeI32(input)
      [] t.k = "unsigned int" -> DecodeU32(input)
      [] t.k = "hyper" -> DecodeI64(input)
      [] t.k = "unsigned hyper" -> DecodeU64(input)
      [] t.k = "float" -> DecodeF32(input)
      [] t.k = "double" -> DecodeF64(input)
      [] t.k = "quadruple" -> read_fixed_opaque(input, 16)
      [] t.k = "opaque" -> DecodeU8(input)
      [] t.k = "string" -> DecodeString(input)
      [] t.k = "enum" -> DecodeEnum(env, t, input)
      [] t.k = "struct" -> DecodeFields(env, t.body, input, <<>>)
      [] t.k = "union" -> DecodeUnion(env, t, input)
      [] t.k \in NamedKinds -> DecodeDeclaration(env, Behind(env, t), input, TRUE)

DecodeDeclaration(env, d, input, alias) ==
    CASE d.type.k = "OpaqueLength" -> DecodeOpaqueLength(input, Bound(env, d.bound))
      [] d.m = "var" /\ d.type.k = "opaque" -> DecodeBytes(input)
      [] d.m = "var" /\ d.type.k = "string" -> DecodeString(input)
      [] d.m = "var" -> DecodeVec(env, d.type, input)
      [] Packed(env, d, alias) -> read_fixed_opaque(input, value(env, d.bound, {}))
      [] d.m = "fixed" -> decode_fixed_array(env, d.type, value(env, d.bound, {}), input, <<>>)
      [] d.m = "optional" -> DecodeOption(env, d.type, input)
      [] OTHER -> DecodeType(env, d.type, input)

(***************************************************************************)
(* XdrEncodeSegments: the encoder after a value, its `ok` cleared by the   *)
(* first bound that is exceeded.                                           *)
(***************************************************************************)
\* The bound of an opaque alias, found through typedefs without modifiers.
RECURSIVE opaque_alias_bound(_, _, _)
opaque_alias_bound(env, t, seen) ==
    IF t.k # "name" \/ t.name \in seen THEN <<>>
    ELSE LET i == env.types[t.name]
         IN  CASE i.k = "typedef" /\ i.decl.type.k = "opaque" /\ i.decl.m = "var" -> <<i.decl.bound>>
               [] i.k = "typedef" /\ i.decl.m = "none" ->
                     opaque_alias_bound(env, i.decl.type, seen \union {t.name})
               [] OTHER -> <<>>

RECURSIVE SegmentsOf(_, _, _, _, _)

emit_segmented_struct(env, t, v, e) ==
    FoldLeft(LAMBDA x, i : SegmentsOf(env, t.body[i], v[i], FALSE, x), e, [i \in DOMAIN t.body |-> i])

SegmentsOfArm(env, arm, v, e) ==
    IF arm.type.k = "void" THEN e ELSE SegmentsOf(env, arm, v, FALSE, e)

emit_segmented_union(env, t, v, e) ==
    SegmentsOfArm(env, ArmOf(t, v.label), v.v, encode(e, EncodeDiscriminant(env, t, v)))

SegmentsOfType(env, t, v, e) ==
    CASE t.k \in NamedKinds -> SegmentsOf(env, Behind(env, t), v, TRUE, e)
      [] t.k = "struct" -> emit_segmented_struct(env, t, v, e)
      [] t.k = "union" -> emit_segmented_union(env, t, v, e)
      [] OTHER -> encode(e, EncodeType(env, t, v))

\* A typedef's declaration goes through its Rust type, which has no bound.
SegmentsOf(env, d, v, alias, e) ==
    LET bound == IF d.type.k = "opaque" /\ d.m = "var" THEN <<IF alias THEN None ELSE d.bound>>
                 ELSE IF d.m = "none" /\ ~alias THEN opaque_alias_bound(env, d.type, {}) ELSE <<>>
    IN  CASE ~e.ok -> e
          [] d.type.k = "OpaqueSegments" -> opaque_segments(e, v, Bound(env, d.bound))
          [] bound # <<>> -> opaque(e, v, Bound(env, bound[1]))
          [] Packed(env, d, alias) -> encode(e, write_fixed_opaque(v))
          [] d.m = "var" /\ d.type.k = "string" -> encode(e, EncodeString(v))
          [] d.m = "none" -> SegmentsOfType(env, d.type, v, e)
          [] OTHER -> FoldLeft(LAMBDA x, w : SegmentsOfType(env, d.type, w, x), encode(e, ElementCount(d, v)), v)

to_xdr_segments(env, t, v) == SegmentsOfType(env, t, v, NoSegments)

(***************************************************************************)
(* A value of XSegments from the value of its type: the generated `From`   *)
(* makes one owner of the body; a caller may also hand over the body split *)
(* in two after `split` bytes.  Value of XMetadata: split = -1.            *)
(***************************************************************************)
Owners(bytes, split) ==
    IF split < 0 THEN Len(bytes)
    ELSE IF split = 0 \/ split > Len(bytes) THEN <<bytes>>
    ELSE <<SubSeq(bytes, 1, split), Drop(bytes, split)>>

RECURSIVE conversion(_, _, _, _)
conversion(env, d, v, split) ==
    LET t == d.type
    IN  CASE d.m = "optional" -> [i \in DOMAIN v |-> conversion(env, Bare(t), v[i], split)]
          [] t.k = "opaque" /\ d.m = "var" -> Owners(v, split)
          [] t.k = "name" /\ terminal(env, d, {}) -> conversion(env, Defined(env, t.name), v, split)
          [] t.k = "struct" /\ d.m = "none" /\ terminal(env, Last(t.body), {}) ->
                [v EXCEPT ![Len(v)] = conversion(env, Last(t.body), @, split)]
          [] t.k = "union" /\ d.m = "none" ->
                IF terminal(env, ArmOf(t, v.label), {})
                THEN [v EXCEPT !.v = conversion(env, ArmOf(t, v.label), @, split)] ELSE v
          [] OTHER -> v

\* opaque_len of metadata: <<length>>, or <<>> when the arm has no body.
RECURSIVE opaque_len(_, _, _)
opaque_len(env, d, v) ==
    LET t == d.type
    IN  CASE d.m = "optional" -> IF v = <<>> THEN <<>> ELSE opaque_len(env, Bare(t), v[1])
          [] t.k = "OpaqueLength" -> <<v>>
          [] t.k = "meta" -> opaque_len(env, Behind(env, t), v)
          [] t.k = "struct" -> opaque_len(env, Last(t.body), v[Len(v)])
          [] t.k = "union" -> opaque_len(env, ArmOf(t, v.label), v.v)
          [] OTHER -> <<>>

(***************************************************************************)
(* The generated dispatcher: the arm of a procedure, with the service's    *)
(* `answer` ([ok, v]; v is the result or the error it returned).           *)
(***************************************************************************)
emit_dispatch_arm(env, proc, payload, answer) ==
    LET Failed(e) == [ok |-> FALSE, err |-> e, payload |-> <<>>]
        Called(arg) ==
            IF ~arg.ok THEN Failed("GarbageArgs")
            ELSE IF ~answer.ok THEN Failed(answer.v)
            ELSE [ok |-> TRUE, err |-> "none", payload |-> EncodeType(env, proc.ret, answer.v)]
    IN  Called(Whole(DecodeType(env, proc.arg, payload)))
============================================================================
