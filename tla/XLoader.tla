------------------------------ MODULE XLoader ------------------------------
(***************************************************************************)
(* The rest of the generator's front end: the text ast.rs prints for a     *)
(* schema (as the tokens of that text, layout left out) and the loader of  *)
(* lib.rs, which gathers a file and everything it includes.                *)
(*                                                                         *)
(* A path is the sequence of its components without the extension, which   *)
(* is always .x; paths hold no links and no "..", so each is canonical,    *)
(* and stems are lower-case words, which sanitize_module_name keeps.       *)
(***************************************************************************)
EXTENDS XParser

(***************************************************************************)
(* Rendering.                                                              *)
(***************************************************************************)
Kw(s) == <<Token("keyword", s, 0)>>
Sym(s) == <<Token("symbol", s, 0)>>
Id(s) == IF s = "" THEN <<>> ELSE <<Token("identifier", s, 0)>>
Each(seq, Render(_)) == FlattenSeq([i \in DOMAIN seq |-> Render(seq[i])])
FirstOf(seq) == IF seq = <<>> THEN <<>> ELSE <<Head(seq)>>
Separated(seq, sep, Render(_)) ==
    FlattenSeq([i \in DOMAIN seq |-> (IF i > 1 THEN sep ELSE <<>>) \o Render(seq[i])])

render_value(value) == <<value>>

render_declarator(d) ==
    (IF d.m = "optional" THEN Sym("*") ELSE <<>>) \o Id(d.name) \o
    CASE d.m = "fixed" -> Sym("[") \o render_value(d.bound) \o Sym("]")
      [] d.m = "var" /\ d.bound # None -> Sym("<") \o render_value(d.bound) \o Sym(">")
      [] d.m = "var" /\ d.bound = None -> Sym("<") \o Sym(">")
      [] OTHER -> <<>>

RenderVariant(v) == Id(v.name) \o Sym("=") \o render_value(v.value)
render_inline_enum(body) == Kw("enum") \o Sym("{") \o Separated(body, Sym(","), RenderVariant) \o Sym("}")

RenderLabel(l, colon) == (IF l.t = "default" THEN Kw("default") ELSE Kw("case") \o <<l>>) \o colon

RECURSIVE render_type_spec(_)
RenderDeclaration(d) == render_type_spec(d.type) \o render_declarator(d)

render_inline_struct(body) ==
    Kw("struct") \o Sym("{") \o Separated(body, Sym(";"), RenderDeclaration)
    \o (IF body = <<>> THEN <<>> ELSE Sym(";")) \o Sym("}")

render_inline_union(disc, arms) ==
    Kw("union") \o Kw("switch") \o Sym("(") \o RenderDeclaration(disc) \o Sym(")") \o Sym("{")
    \o Each(arms, LAMBDA a : Each(a.labels, LAMBDA l : RenderLabel(l, Sym(":")))
                             \o RenderDeclaration(a.decl) \o Sym(";"))
    \o Sym("}")

render_type_spec(t) ==
    CASE t.k = "name" -> Id(t.name)
      [] t.k = "enum" -> render_inline_enum(t.body)
      [] t.k = "struct" -> render_inline_struct(t.body)
      [] t.k = "union" -> render_inline_union(t.disc[1], t.body)
      [] t.k = "unsigned int" -> Kw("unsigned") \o Kw("int")
      [] t.k = "unsigned hyper" -> Kw("unsigned") \o Kw("hyper")
      [] OTHER -> Kw(t.k)

\* The bodies of named items are printed without their punctuation.
render_struct_body(body) == Each(body, RenderDeclaration)
render_enum_body(body) == Each(body, RenderVariant)
render_union_body(disc, arms) ==
    Kw("switch") \o RenderDeclaration(disc)
    \o Each(arms, LAMBDA a : Each(a.labels, LAMBDA l : RenderLabel(l, <<>>)) \o RenderDeclaration(a.decl))

Num(n) == <<Token("number", "", n)>>

RenderProgram(p) ==
    LET Title(b) == Kw(b.k) \o Id(b.name) \o Sym("=") \o Num(b.number)
        Proc(q) == render_type_spec(q.ret) \o Id(q.name) \o Sym("(") \o render_type_spec(q.arg)
                   \o Sym(")") \o Sym("=") \o Num(q.number)
    IN  Title(p) \o Each(p.body, LAMBDA v : Title(v) \o Each(v.body, Proc))

render_snapshot(items) ==
    Each(items, LAMBDA i :
        CASE i.k = "const" -> Kw("const") \o Id(i.name) \o Sym("=") \o render_value(i.value)
          [] i.k = "typedef" -> Kw("typedef") \o RenderDeclaration(i.decl)
          [] i.k = "struct" -> Kw("struct") \o Id(i.name) \o render_struct_body(i.type.body)
          [] i.k = "enum" -> Kw("enum") \o Id(i.name) \o render_enum_body(i.type.body)
          [] i.k = "union" -> Kw("union") \o Id(i.name) \o render_union_body(i.type.disc[1], i.type.body)
          [] i.k = "program" -> RenderProgram(i))

(***************************************************************************)
(* Loading: `files` maps paths to sources.                                 *)
(***************************************************************************)
\* Include lines are found in the raw text, inside comments too.
extract_includes(src) ==
    Each(SelectSeq(Lines(src), LAMBDA l : Len(l) = 2 /\ l[1] = "%#include"), LAMBDA l : <<IncludePaths[l[2]]>>)

\* The path a root offers for an include: as written, else by its last name.
resolve_include(files, including, include, dirs) ==
    LET roots   == <<SubSeq(including, 1, Len(including) - 1)>> \o dirs
        Direct(r) == r \o include
        Base(r)   == Append(r, Last(include))
        offers  == SelectSeq(Each(roots, LAMBDA r : <<Direct(r), Base(r)>>), LAMBDA p : p \in DOMAIN files)
    IN  FirstOf(offers)

module_name_for_path(path) == Last(path)

\* The loader's progress: visited files, the modules in the order they were
\* finished, and the first error.
Fresh == [visited |-> {}, modules |-> <<>>, err |-> "none"]

\* What each include line of a file resolves to: <<path>>, or <<>>.
Included(files, dirs, path) ==
    Each(extract_includes(files[path]), LAMBDA i : <<resolve_include(files, path, i, dirs)>>)

AddModule(load, path, found, parsed) ==
    IF ~parsed.ok THEN [load EXCEPT !.err = parsed.err]
    ELSE [load EXCEPT !.modules = Append(@,
            [name |-> module_name_for_path(path), path |-> path,
             dependencies |-> [j \in DOMAIN found |-> module_name_for_path(found[j][1])],
             items |-> parsed.v])]

RECURSIVE load_module_set_recursive(_, _, _, _)
RECURSIVE LoadIncludes(_, _, _, _, _, _)

\* The includes of `path` from the i-th on; then the module itself.
LoadIncludes(files, dirs, path, found, i, load) ==
    IF load.err # "none" THEN load
    ELSE IF i > Len(found) THEN AddModule(load, path, found, parse_x_source(files[path]))
    ELSE IF found[i] = <<>> THEN [load EXCEPT !.err = "IncludeResolution"]
    ELSE LoadIncludes(files, dirs, path, found, i + 1,
                      load_module_set_recursive(files, dirs, found[i][1], load))

\* Mutant: files are told apart by their stem.
load_module_set_recursive_stem(files, dirs, path, load) ==
    IF \E p \in load.visited : Last(p) = Last(path) THEN load
    ELSE LoadIncludes(files, dirs, path, Included(files, dirs, path), 1,
                      [load EXCEPT !.visited = @ \union {path}])

load_module_set_recursive(files, dirs, path, load) ==
    IF path \in load.visited THEN load
    ELSE LoadIncludes(files, dirs, path, Included(files, dirs, path), 1,
                      [load EXCEPT !.visited = @ \union {path}])

ModuleSet(root, load) == [root |-> root, modules |-> load.modules, err |-> load.err]

load_module_set_from_x_file(files, dirs, path) ==
    ModuleSet(module_name_for_path(path), load_module_set_recursive(files, dirs, path, Fresh))

rename_root_module(loaded, name) ==
    LET New(n) == IF n = loaded.root THEN name ELSE n
    IN  [loaded EXCEPT !.root = name,
            !.modules = [i \in DOMAIN @ |->
                [@[i] EXCEPT !.name = New(@), !.dependencies = [j \in DOMAIN @ |-> New(@[j])]]]]

\* Which modules get types and which get stubs; empty outputs are dropped.
generate_rust_module_set(loaded) ==
    LET Out(m) == [name |-> m.name,
                   types |-> \E i \in DOMAIN m.items : TRUE,
                   stubs |-> m.name = loaded.root
                             /\ \E i \in DOMAIN m.items : m.items[i].k = "program"]
    IN  SelectSeq([i \in DOMAIN loaded.modules |-> Out(loaded.modules[i])],
                  LAMBDA o : o.types \/ o.stubs)
============================================================================
