---------------------------- MODULE MCTypedCall ----------------------------
(***************************************************************************)
(* Two schemas: STORE, whose types end in an opaque body behind a typedef, *)
(* a struct and a union, spread over files that include each other; and    *)
(* GRAPH, with one member of every kind.  Others have two files of one     *)
(* name, or lack a file.                                                   *)
(***************************************************************************)
EXTENDS TypedCall, TLC

MCNumbers == ("0" :> 0) @@ ("1" :> 1) @@ ("2" :> 2) @@ ("3" :> 3) @@ ("5" :> 5)
             @@ ("-2" :> -2) @@ ("0x190" :> 400)
MCIncludePaths == ("types.h" :> <<"types">>) @@ ("sys/codes.h" :> <<"sys", "codes">>)
                  @@ ("store.h" :> <<"store">>) @@ ("lost.h" :> <<"lost">>)
                  @@ ("a/codes.h" :> <<"a", "codes">>) @@ ("b/codes.h" :> <<"b", "codes">>)

Store == <<
    "%#include", "types.h", "nl",
    "const", "SMALL", "=", "5", ";", "const", "MAXBODY", "=", "SMALL", ";", "nl",
    "program", "STORE", "{",
        "version", "V2", "{", "void", "PUT", "(", "item", "it", ")", "=", "2", ";", "}", "=", "2", ";",
        "version", "V3", "{", "reply", "GET", "(", "key", ")", "=", "2", ";",
                              "item", "SWAP", "(", "item", ")", "=", "3", ";", "}", "=", "3", ";",
    "}", "=", "0x190", ";" >>
Types == <<
    "/*", "%#include", "nl", "*/", "nl",
    "%#include", "store.h", "nl", "%#include", "sys/codes.h", "nl", "%", "passed", "nl",
    "typedef", "opaque", "body", "<", "MAXBODY", ">", ";", "typedef", "opaque", "key", "[", "3", "]", ";",
    "struct", "item", "{", "key", "k", ";", "hyper", "stamp", ";", "body", "data", ";", "}", ";",
    "union", "reply", "switch", "(", "code", "c", ")", "{",
        "case", "OK", ":", "item", "found", ";", "case", "GONE", ":", "void", ";",
        "default", ":", "unsigned", "int", "why", ";", "}", ";" >>
Codes == <<"enum", "code", "{", "OK", "=", "0", ",", "GONE", "=", "3", "}", ";">>

GraphFile == <<
    "struct", "node", "{", "string", "name", "<", ">", ";", "bool", "live", ";", "float", "f", ";",
        "double", "d", ";", "quadruple", "q", ";", "unsigned", "hyper", "u", ";", "node", "*", "link", ";",
        "int", "counts", "<", "2", ">", ";", "opaque", "tag", "[", "2", "]", ";",
        "enum", "{", "A", "=", "1", ",", "B", "=", "-2", "}", "mode", ";",
        "struct", "{", "int", "x", "[", "2", "]", ";", "}", "inner", ";",
        "union", "switch", "(", "bool", "b", ")", "{", "case", "TRUE", ":", "int", "n", ";",
            "case", "FALSE", ":", "void", ";", "}", "opt", ";", "}", ";",
    "program", "GRAPH", "{", "version", "G1", "{", "node", "LINK", "(", "node", ")", "=", "1", ";",
    "}", "=", "1", ";", "}", "=", "5", ";" >>

MCTrees ==
    ("store" :> [files |-> (<<"idl", "store">> :> Store) @@ (<<"inc", "types">> :> Types)
                           @@ (<<"inc", "codes">> :> Codes),
                 dirs |-> <<<<"inc">>, <<"idl">>>>, root |-> <<"idl", "store">>]) @@
    ("types" :> [files |-> (<<"idl", "store">> :> Store) @@ (<<"inc", "types">> :> Types)
                           @@ (<<"inc", "codes">> :> Codes),
                 dirs |-> <<<<"idl">>>>, root |-> <<"inc", "types">>]) @@
    ("graph" :> [files |-> (<<"graph">> :> GraphFile), dirs |-> <<>>, root |-> <<"graph">>]) @@
    ("twins" :> [files |-> (<<"top">> :> <<"%#include", "a/codes.h", "nl", "%#include", "b/codes.h", "nl">>)
                           @@ (<<"a", "codes">> :> Codes) @@ (<<"b", "codes">> :> <<"const", "B", "=", "1", ";">>),
                 dirs |-> <<>>, root |-> <<"top">>]) @@
    ("lost" :> [files |-> (<<"top">> :> <<"%#include", "lost.h", "nl">> \o Codes), dirs |-> <<>>, root |-> <<"top">>])

Auth(n) == [flavor |-> AuthFlavor(n), body |-> <<n, n, n, n, n>>]
LongAuth == [flavor |-> AuthFlavor(6), body |-> Zeros(380)]
OverlongAuth == [flavor |-> AuthFlavor(6), body |-> Zeros(401)]
NoOptions == [config |-> NoAuth, options |-> <<>>]

Item(data) == << <<7, 8, 9>>, <<0, -1>>, data >>
Chosen(label, disc, v) == [label |-> label, disc |-> disc, v |-> v]
Found(data) == Chosen(Token("identifier", "OK", 0), 0, Item(data))
Gone == Chosen(Token("identifier", "GONE", 0), 3, <<>>)
Why == Chosen(Token("default", "", 0), 77, 513)
Node(link) == << <<65>>, TRUE, 1, <<2, 3>>, Zeros(16), <<-1, 0>>, link, <<4, -4>>, <<1, 2>>, -2, << <<5, 6>> >>,
                 Chosen(Token("identifier", "TRUE", 0), TRUE, 8) >>

Base == [proc |-> "GET", mode |-> "into", arg |-> <<1, 2, 3>>, split |-> 0, answer |-> [ok |-> TRUE, v |-> Found(<<1, 2, 3>>)],
         peer |-> "server", cap |-> <<5>>, frag |-> 0, stray |-> FALSE, faults |-> {}, contended |-> FALSE,
         cred |-> NoOptions, verf |-> NoOptions, replyverf |-> NoAuth]
With(mode, v) == [Base EXCEPT !.mode = mode, !.answer.v = v, !.cap = <<40>>]
Refusing(e) == [Base EXCEPT !.answer = [ok |-> FALSE, v |-> e]]
Swap(mode, data) == [Base EXCEPT !.proc = "SWAP", !.mode = mode, !.arg = Item(data), !.answer.v = Item(<<4, 3>>),
                                 !.cap = <<24>>]

MCJobs == [t \in DOMAIN MCTrees |->
    CASE t = "store" -> <<
        [Base EXCEPT !.faults = {"cancel", "close"}, !.frag = 20],
        [Base EXCEPT !.stray = TRUE, !.replyverf = Auth(1), !.cred.options = <<Auth(2)>>, !.verf.config = Auth(3)],
        [Base EXCEPT !.frag = 7, !.answer.v = Found(<<>>)],
        [Base EXCEPT !.answer.v = Found(<<1, 2, 3, 4, 5, 6>>), !.cap = <<6>>],
        [Base EXCEPT !.cap = <<2>>],
        [Base EXCEPT !.answer.v = Gone, !.cap = <<0>>], [Base EXCEPT !.answer.v = Why],
        Refusing("SystemError"), Refusing("GarbageArgs"),
        [Base EXCEPT !.peer = "denied"], [Base EXCEPT !.peer = "version"], [Base EXCEPT !.peer = "mismatch"],
        [Base EXCEPT !.peer = "call"], [Base EXCEPT !.peer = "trailing"], [Base EXCEPT !.peer = "short"],
        [Base EXCEPT !.peer = "padding"], [Base EXCEPT !.frag = 1], [Base EXCEPT !.frag = 250, !.replyverf = LongAuth],
        [Base EXCEPT !.frag = -1, !.cred.options = <<LongAuth>>],
        [Base EXCEPT !.cred.config = OverlongAuth], [Base EXCEPT !.replyverf = OverlongAuth, !.faults = {"close"}],
        [Swap("buffered", <<1>>) EXCEPT !.cred.config = LongAuth, !.verf.options = <<OverlongAuth>>],
        [Base EXCEPT !.contended = TRUE, !.answer.v = Gone],
        Swap("into", <<6, 6, 6, 6, 6>>), [Swap("segmented", <<6, 6, 6, 6, 6>>) EXCEPT !.split = 2],
        [Swap("segmented", <<6, 6, 6>>) EXCEPT !.cap = <<20>>, !.stray = TRUE],
        Swap("segmented", <<6, 6, 6, 6, 6, 6>>),
        [Swap("raw", <<>>) EXCEPT !.cap = <<6, 0, 20>>, !.frag = 13],
        [Swap("raw", <<9>>) EXCEPT !.cap = <<6, 0, 10>>, !.faults = {"close"}],
        [Swap("buffered", <<6, 6>>) EXCEPT !.faults = {"cancel", "close"}, !.frag = 24],
        [Swap("buffered", <<6, 6>>) EXCEPT !.peer = "mismatch", !.frag = 4],
        [Swap("segmented", <<1>>) EXCEPT !.faults = {"cancel"}, !.frag = 24, !.peer = "trailing"],
        [Base EXCEPT !.proc = "PUT", !.mode = "segmented", !.arg = Item(<<1>>), !.answer.v = <<>>, !.cap = <<0>>, !.split = 1] >>
      [] t = "graph" -> <<
        [With("buffered", Node(<<>>)) EXCEPT !.proc = "LINK", !.arg = Node(<<Node(<<>>)>>)],
        [With("segmented", Node(<<Node(<<>>)>>)) EXCEPT !.proc = "LINK", !.arg = Node(<<>>), !.cap = <<300>>] >>
      [] OTHER -> <<>>]

\* One reply whose second fragment exceeds the limit; the first bytes of that
\* fragment are the key <<128, 0, 0>>.
MCLimitJobs == [MCJobs EXCEPT !["store"] =
    <<[Swap("segmented", <<1>>) EXCEPT !.answer.v = << <<128, 0, 0>>, <<0, 1>>, <<>> >>, !.frag = 24, !.faults = {"cancel"}]>>]
============================================================================
