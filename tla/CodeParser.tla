----------------------------- MODULE CodeParser -----------------------------
(***************************************************************************)
(* The parser of the code knowledge graph (ckg.rs), which extracts symbols *)
(* and edges from the lines of a file.                                     *)
(*                                                                         *)
(* A line is the sequence of its words and marks.  The scanners look at no *)
(* braces: what a line declares is decided by the first occurrence of each *)
(* keyword anywhere on it.                                                 *)
(***************************************************************************)
EXTENDS Naturals, Sequences, SequencesExt, FiniteSetsExt

CONSTANT Keywords \* the words is_keyword knows

Marks == {"///", "(", ")", "<", ">", "{", "}", ";", ",", "::", "'", "&"}
Word(l, i) == IF i \in DOMAIN l /\ l[i] \notin Marks THEN l[i] ELSE ""
Places(l, w) == {i \in DOMAIN l : l[i] = w}

(* The word after the first place of a keyword, or after a < there.        *)
decl_name(l, kw) ==
  LET i == Min(Places(l, kw))
  IN  IF Places(l, kw) = {} THEN ""
      ELSE Word(l, IF i < Len(l) /\ l[i + 1] = "<" THEN i + 2 ELSE i + 1)

collect_calls(l) ==
  LET at == SelectSeq([i \in DOMAIN l |-> i],
                      LAMBDA i : Word(l, i) # "" /\ i < Len(l) /\ l[i + 1] = "(")
  IN  [j \in DOMAIN at |-> l[at[j]]]

(* The first word of each part between braces; or all that follows the     *)
(* last ::, which is not one name when the import is renamed.              *)
parse_use_targets(l) ==
  IF Places(l, "{") # {}
  THEN LET first == SelectSeq([i \in DOMAIN l |-> i],
             LAMBDA i : Word(l, i) # "" /\ i > 1 /\ l[i - 1] \in {"{", ","})
       IN  [j \in DOMAIN first |-> l[first[j]]]
  ELSE LET last == Max({1} \cup Places(l, "::"))
           words == SelectSeq(SubSeq(l, last + 1, Len(l)), LAMBDA w : w # ";")
       IN  IF words = <<>> THEN <<>>
           ELSE <<FoldLeft(LAMBDA text, w : text \o " " \o w, Head(words), Tail(words))>>

ImplNode(type) == "impl " \o type

(* The type an impl line is named after, and the trait it defines for it.  *)
ImplType(l) ==
  IF Places(l, "for") # {} THEN Word(l, Min(Places(l, "for")) + 1)
  ELSE decl_name(l, "impl")
ImplTrait(l) == IF Places(l, "for") # {} THEN Word(l, 2) ELSE ""

(* What a line declares, the kinds tried in this order.                    *)
Declared(l) ==
  LET kinds == SelectSeq(<<"struct", "trait", "mod", "fn">>,
                         LAMBDA kw : decl_name(l, kw) # "")
  IN  IF l[1] = "impl" /\ ImplType(l) # "" THEN "impl"
      ELSE IF kinds # <<>> THEN kinds[1] ELSE "none"

Kind == [struct |-> "Struct", trait |-> "Trait", mod |-> "Mod"]

Unparsed == [symbols |-> <<>>, edges |-> <<>>, doc |-> 0, fn |-> "", impl |-> ""]

(* One line: doc counts the lines of documentation that wait for a symbol; *)
(* fn and impl are the current function and type, empty when there is none.*)
ParseLine(file, l, i, st) ==
  LET Symbol(kind, name) ==
        [kind |-> kind, name |-> name, file |-> file, line |-> i, doc |-> st.doc]
      Edges(from, names, kind) ==
        [j \in DOMAIN names |->
           [from |-> from, to |-> names[j], kind |-> kind, file |-> file, line |-> i]]
      OfImpl(name, kind) ==
        IF st.impl = "" THEN <<>> ELSE Edges(ImplNode(st.impl), <<name>>, kind)
      With(symbol, edges, fn, impl) ==
        [symbols |-> Append(st.symbols, symbol), edges |-> st.edges \o edges,
         doc |-> 0, fn |-> fn, impl |-> impl]
      kw == Declared(l)
      name == decl_name(l, kw)
      node == ImplNode(ImplType(l))
      callees == SelectSeq(collect_calls(l), LAMBDA n : st.fn # "" /\ n \notin Keywords)
  IN  CASE l[1] = "///" -> [st EXCEPT !.doc = @ + 1]
        [] l[1] # "///" /\ kw = "impl" ->
             With(Symbol("Impl", node),
                  IF ImplTrait(l) = "" THEN <<>> ELSE Edges(node, <<ImplTrait(l)>>, "Defines"),
                  "", ImplType(l))
        [] l[1] # "///" /\ kw \in DOMAIN Kind ->
             With(Symbol(Kind[kw], name), OfImpl(name, "Defines"), "", st.impl)
        [] l[1] # "///" /\ kw = "fn" ->
             With(Symbol("Fn", name), OfImpl(name, "Contains"), name, st.impl)
        [] l[1] = "use" /\ kw = "none" ->
             [st EXCEPT !.edges = @ \o Edges(file, parse_use_targets(l), "Imports")]
        [] OTHER -> [st EXCEPT !.edges = @ \o Edges(st.fn, callees, "Calls")]

parse_source(src) ==
  LET st == FoldLeftDomain(LAMBDA acc, i : ParseLine(src.file, src.lines[i], i, acc),
                           Unparsed, src.lines)
  IN  [symbols |-> st.symbols, edges |-> st.edges]

=============================================================================
