------------------------------ MODULE XParser ------------------------------
(***************************************************************************)
(* The front end of the generator (crates/onc-rpc-gen): the .x lexer and   *)
(* parser of parser.rs, the schema renderer of ast.rs and the loader of    *)
(* lib.rs, which follows %#include lines.                                  *)
(*                                                                         *)
(* A source is a sequence of lexemes (strings) as they stand in the file,  *)
(* with "nl" at the end of a line; "/*", "*/", "%" and "%#include" are     *)
(* lexemes too.  Lexemes are separated by blanks.  Numbers gives the       *)
(* value of every integer literal a source may hold.                       *)
(***************************************************************************)
EXTENDS Integers, Sequences, SequencesExt, FiniteSets, Graphs

CONSTANTS Numbers,      \* literal -> value
          IncludePaths  \* "file.h" of an include line -> its path, no extension

Keywords == {"bool", "case", "const", "default", "double", "enum", "float", "hyper", "int",
             "opaque", "program", "quadruple", "string", "struct", "switch", "typedef", "union",
             "unsigned", "version", "void"}
Symbols == {"{", "}", "(", ")", "<", ">", "[", "]", ";", ",", "=", ":", "*"}
Unsupported == {"/*", "*/", "%", "%#include", "#"}

Token(t, s, n) == [t |-> t, s |-> s, n |-> n]
Eof == Token("eof", "", 0)
PastEnd == Token("past", "", 0)    \* indexing the token vector there panics
None == Token("none", "", 0)       \* no bound

(***************************************************************************)
(* From text to tokens.                                                    *)
(***************************************************************************)
\* Comments go first, whatever is inside them, line ends included.
RECURSIVE strip_block_comments(_)
strip_block_comments(src) ==
    LET open  == SelectInSeq(src, LAMBDA l : l = "/*")
        after == SubSeq(src, open + 1, Len(src))
        close == SelectInSeq(after, LAMBDA l : l = "*/")
        rest  == strip_block_comments(SubSeq(after, close + 1, Len(after)))
    IN  IF open = 0 THEN [ok |-> TRUE, src |-> src]
        ELSE IF close = 0 THEN [ok |-> FALSE, src |-> <<>>]
        ELSE [rest EXCEPT !.src = SubSeq(src, 1, open - 1) \o @]

RECURSIVE Lines(_)
Lines(src) ==
    LET end == SelectInSeq(src, LAMBDA l : l = "nl")
    IN  IF end = 0 THEN <<src>>
        ELSE <<SubSeq(src, 1, end - 1)>> \o Lines(SubSeq(src, end + 1, Len(src)))

strip_unsupported_lines(src) ==
    FlattenSeq(SelectSeq(Lines(src), LAMBDA l : l = <<>> \/ l[1] \notin {"%", "%#include"}))

tokenize(src) ==
    [i \in 1..(Len(src) + 1) |->
        IF i > Len(src) THEN Eof
        ELSE CASE src[i] \in Keywords -> Token("keyword", src[i], 0)
               [] src[i] \in Symbols -> Token("symbol", src[i], 0)
               [] src[i] \in DOMAIN Numbers -> Token("number", "", Numbers[src[i]])
               [] OTHER -> Token("identifier", src[i], 0)]

(***************************************************************************)
(* The parser: its tokens and place, whether it still goes, and the value  *)
(* of what it parsed last.                                                 *)
(***************************************************************************)
Start(tokens) == [tokens |-> tokens, i |-> 1, ok |-> TRUE, v |-> <<>>, err |-> "none"]

peek_n(p, n) == IF p.i + n \in DOMAIN p.tokens THEN p.tokens[p.i + n] ELSE PastEnd
peek(p) == peek_n(p, 0)
next(p) == [p EXCEPT !.i = @ + 1, !.v = peek(p)]

Yield(p, v) == IF p.ok THEN [p EXCEPT !.v = v] ELSE p
Fail(p) == [p EXCEPT !.ok = FALSE, !.err = IF peek(p) = PastEnd THEN "panic" ELSE "Parse"]

\* Rust's `?`: go on with a parser that has not failed.
Then(p, Rest(_)) == IF p.ok THEN Rest(p) ELSE p

At(p, t, s) == p.ok /\ peek(p).t = t /\ peek(p).s = s
consume_symbol(p, s) == IF At(p, "symbol", s) THEN next(p) ELSE p

\* The next token must be one of a kind.
Expect(p, good) == IF ~p.ok THEN p ELSE IF good THEN next(p) ELSE Fail(p)

expect_keyword(p, k) == Expect(p, At(p, "keyword", k))
expect_symbol(p, s) == Expect(p, At(p, "symbol", s))
expect_identifier(p) == Then(Expect(p, peek(p).t = "identifier"), LAMBDA q : Yield(q, q.v.s))
\* Literals above 2^32 - 1 are outside the integers of the model.
expect_u32(p) == Then(Expect(p, peek(p).t = "number" /\ peek(p).n >= 0), LAMBDA q : Yield(q, q.v.n))
parse_value_expr(p) == Expect(p, peek(p).t \in {"number", "identifier"})

\* Types and declarations of the schema.
Type(k, name, disc, body) == [k |-> k, name |-> name, disc |-> disc, body |-> body]
Plain(k) == Type(k, "", <<>>, <<>>)
Named(name) == Type("name", name, <<>>, <<>>)
Declaration(type, d) == [type |-> type, name |-> d.name, m |-> d.m, bound |-> d.bound]
NoDeclarator == [name |-> "", m |-> "none", bound |-> None]

parse_declarator(p) ==
    Then(expect_identifier(consume_symbol(p, "*")), LAMBDA name :
        LET With(m, q) == Yield(q, [name |-> name.v, m |-> m, bound |-> q.v])
            Closed(q, s) == Then(q, LAMBDA bound : Yield(expect_symbol(bound, s), bound.v))
        IN  IF At(name, "symbol", "[") THEN With("fixed", Closed(parse_value_expr(next(name)), "]"))
            ELSE IF At(name, "symbol", "<")
            THEN With("var", Closed(IF peek_n(name, 1) = Token("symbol", ">", 0) THEN Yield(next(name), None)
                                    ELSE parse_value_expr(next(name)), ">"))
            ELSE With(IF At(p, "symbol", "*") THEN "optional" ELSE "none", Yield(name, None)))

RECURSIVE Body(_, _, _)
RECURSIVE parse_type_spec(_)

parse_declaration(p) ==
    Then(parse_type_spec(p), LAMBDA type :
        Then(IF type.v = Plain("void") /\ (At(type, "symbol", ";") \/ At(type, "symbol", ")"))
             THEN Yield(type, NoDeclarator) ELSE parse_declarator(type),
             LAMBDA d : Yield(d, Declaration(type.v, d.v))))

parse_struct_body(p) == Body(expect_symbol(p, "{"), "declaration", <<>>)
parse_enum_body(p) == Body(expect_symbol(p, "{"), "variant", <<>>)

\* The discriminant and the arms: v = [disc |-> declaration, arms |-> sequence].
parse_union_body(p) ==
    Then(parse_declaration(expect_symbol(expect_keyword(p, "switch"), "(")), LAMBDA disc :
    Then(Body(expect_symbol(expect_symbol(disc, ")"), "{"), "arm", <<>>), LAMBDA arms :
        Yield(arms, [disc |-> disc.v, arms |-> arms.v])))

Variant(p) ==
    Then(expect_identifier(p), LAMBDA name :
    Then(parse_value_expr(expect_symbol(name, "=")), LAMBDA value :
        Yield(consume_symbol(value, ","), [name |-> name.v, value |-> value.v])))

RECURSIVE Labels(_, _)
Labels(p, labels) ==
    IF At(p, "keyword", "case")
    THEN Then(parse_value_expr(next(p)), LAMBDA value :
            Labels(expect_symbol(value, ":"), Append(labels, value.v)))
    ELSE IF At(p, "keyword", "default")
    THEN Labels(expect_symbol(next(p), ":"), Append(labels, Token("default", "", 0)))
    ELSE Yield(p, labels)

Arm(p) ==
    Then(Labels(p, <<>>), LAMBDA labels :
    Then(IF labels.v = <<>> THEN Fail(labels) ELSE parse_declaration(labels), LAMBDA decl :
        Yield(expect_symbol(decl, ";"), [labels |-> labels.v, decl |-> decl.v])))

\* Mutant: an argument may not be named.
parse_procedure_argument_type_bare(p) ==
    IF At(p, "keyword", "void") THEN Yield(next(p), Plain("void")) ELSE parse_type_spec(p)

parse_procedure_argument_type(p) ==
    IF At(p, "keyword", "void") THEN Yield(next(p), Plain("void"))
    ELSE Then(parse_type_spec(p), LAMBDA type :
            IF At(type, "symbol", ")") THEN type ELSE Yield(parse_declarator(type), type.v))

parse_procedure(p) ==
    Then(parse_type_spec(p), LAMBDA ret :
    Then(expect_identifier(ret), LAMBDA name :
    Then(parse_procedure_argument_type(expect_symbol(name, "(")), LAMBDA arg :
    Then(expect_u32(expect_symbol(expect_symbol(arg, ")"), "=")), LAMBDA num :
        Yield(expect_symbol(num, ";"),
              [ret |-> ret.v, name |-> name.v, arg |-> arg.v, number |-> num.v])))))

\* What `program` and `version` share: a name, a body and a number.
Block(p, keyword, element) ==
    Then(expect_identifier(expect_keyword(p, keyword)), LAMBDA name :
    Then(Body(expect_symbol(name, "{"), element, <<>>), LAMBDA body :
    Then(expect_u32(expect_symbol(body, "=")), LAMBDA num :
        Yield(expect_symbol(num, ";"),
              [k |-> keyword, name |-> name.v, body |-> body.v, number |-> num.v]))))

parse_version(p) == Block(p, "version", "procedure")
parse_program(p) == Block(p, "program", "version")

\* The loops `while !consume_symbol('}')`.
Body(p, element, found) ==
    IF ~p.ok THEN p
    ELSE IF At(p, "symbol", "}") THEN Yield(next(p), found)
    ELSE Then(CASE element = "declaration" ->
                      Then(parse_declaration(p), LAMBDA d : Yield(expect_symbol(d, ";"), d.v))
                [] element = "variant" -> Variant(p)
                [] element = "arm" -> Arm(p)
                [] element = "procedure" -> parse_procedure(p)
                [] element = "version" -> parse_version(p),
              LAMBDA one : Body(one, element, Append(found, one.v)))

parse_type_spec(p) ==
    LET q == next(p)
        Composite(body, disc, arms) == Yield(body, Type(peek(p).s, "", disc, arms))
        \* After struct, enum or union: a name that does not start a body.
        Reference(t, s, Inline(_)) ==
            IF peek(q).t = "identifier" /\ peek_n(q, 1) # Token(t, s, 0)
            THEN Yield(next(q), Named(peek(q).s)) ELSE Then(q, Inline)
    IN  CASE ~p.ok -> p
          [] peek(p).t = "identifier" -> Yield(q, Named(peek(p).s))
          [] At(p, "keyword", "unsigned") ->
                IF At(q, "keyword", "int") \/ At(q, "keyword", "hyper")
                THEN Yield(next(q), Plain(IF peek(q).s = "int" THEN "unsigned int"
                                          ELSE "unsigned hyper"))
                ELSE Fail(q)
          [] At(p, "keyword", "enum") ->
                Reference("symbol", "{", LAMBDA r :
                    Then(parse_enum_body(r), LAMBDA b : Composite(b, <<>>, b.v)))
          [] At(p, "keyword", "struct") ->
                Reference("symbol", "{", LAMBDA r :
                    Then(parse_struct_body(r), LAMBDA b : Composite(b, <<>>, b.v)))
          [] At(p, "keyword", "union") ->
                Reference("keyword", "switch", LAMBDA r :
                    Then(parse_union_body(r), LAMBDA b : Composite(b, <<b.v.disc>>, b.v.arms)))
          [] peek(p).t = "keyword" /\ peek(p).s \in
                {"void", "bool", "int", "hyper", "float", "double", "quadruple", "opaque",
                 "string"} -> Yield(q, Plain(peek(p).s))
          [] OTHER -> Fail(p)

\* Items: k, name and what the kind has.
parse_const(p) ==
    Then(expect_identifier(expect_keyword(p, "const")), LAMBDA name :
    Then(parse_value_expr(expect_symbol(name, "=")), LAMBDA value :
        Yield(expect_symbol(value, ";"), [k |-> "const", name |-> name.v, value |-> value.v])))

parse_typedef(p) ==
    Then(parse_type_spec(expect_keyword(p, "typedef")), LAMBDA type :
    Then(parse_declarator(type), LAMBDA d :
        Yield(expect_symbol(d, ";"),
              [k |-> "typedef", name |-> d.v.name, decl |-> Declaration(type.v, d.v)])))

parse_named_struct(p) ==
    Then(expect_identifier(expect_keyword(p, "struct")), LAMBDA name :
    Then(parse_struct_body(name), LAMBDA body :
        Yield(expect_symbol(body, ";"),
              [k |-> "struct", name |-> name.v, type |-> Type("struct", "", <<>>, body.v)])))

parse_named_enum(p) ==
    Then(expect_identifier(expect_keyword(p, "enum")), LAMBDA name :
    Then(parse_enum_body(name), LAMBDA body :
        Yield(expect_symbol(body, ";"),
              [k |-> "enum", name |-> name.v, type |-> Type("enum", "", <<>>, body.v)])))

parse_named_union(p) ==
    Then(expect_identifier(expect_keyword(p, "union")), LAMBDA name :
    Then(parse_union_body(name), LAMBDA body :
        Yield(expect_symbol(body, ";"),
              [k |-> "union", name |-> name.v, type |-> Type("union", "", <<body.v.disc>>, body.v.arms)])))

parse_item(p) ==
    CASE At(p, "keyword", "const") -> parse_const(p)
      [] At(p, "keyword", "typedef") -> parse_typedef(p)
      [] At(p, "keyword", "struct") -> parse_named_struct(p)
      [] At(p, "keyword", "enum") -> parse_named_enum(p)
      [] At(p, "keyword", "union") -> parse_named_union(p)
      [] At(p, "keyword", "program") -> parse_program(p)
      [] OTHER -> Fail(p)

RECURSIVE parse_schema(_, _)
parse_schema(p, items) ==
    IF ~p.ok \/ peek(p) = Eof THEN Yield(p, items)
    ELSE Then(parse_item(p), LAMBDA item : parse_schema(item, Append(items, item.v)))

parse_x_source(src) ==
    LET stripped == strip_block_comments(src)
        cleaned  == strip_unsupported_lines(stripped.src)
    IN  IF ~stripped.ok \/ \E i \in DOMAIN cleaned : cleaned[i] \in Unsupported
        THEN Fail(Start(<<Eof>>))
        ELSE parse_schema(Start(tokenize(cleaned)), <<>>)
============================================================================
