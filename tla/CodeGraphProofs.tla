-------------------------- MODULE CodeGraphProofs --------------------------
(***************************************************************************)
(* What the code graph's mirror and its tables keep, for any sources,      *)
(* parser, number of concurrent ingests, restarts and refused rows, and    *)
(* whatever the context does beside them.  The inductive invariant follows *)
(* each row from the file it was parsed from through the task that inserts *)
(* it and the tables to the mirror that is loaded from them.               *)
(***************************************************************************)
EXTENDS ContextWindow, FiniteSetTheorems, Induction

(* The rows of a graph that are in another one.                            *)
Within(g, h) ==
  /\ Range(g.symbols) \subseteq Range(h.symbols)
  /\ Range(g.edges) \subseteq Range(h.edges)

GraphTypeOK ==
  /\ store \in {"down", "symbols", "edges", "up"}
  /\ client \in BOOLEAN
  /\ session \in {"unset", "pinned"}
  /\ mirror \in Graphs
  /\ tables \in Graphs
  /\ others \in Graphs
  /\ rows \in [Tasks -> Graphs]
  /\ ingested \in Graphs
  /\ lossless \in BOOLEAN
  /\ unscoped \in BOOLEAN

(* The tables hold, and a task inserts, only what was ingested; so does    *)
(* the mirror, as a load that is under way reads with its session pinned   *)
(* wherever every pin was granted.                                         *)
OwnRows ==
  /\ Within(tables, ingested)
  /\ \A t \in Tasks : Within(rows[t], ingested)
OwnMirror ==
  ~unscoped =>
    /\ Within(mirror, ingested)
    /\ store \in {"symbols", "edges"} => session = "pinned"

(* Only a store that is up has rows to insert.                             *)
Quiet == store # "up" => \A t \in Tasks : rows[t] = NoGraph

(* Without a loss, every row is in the tables or still with the task that  *)
(* ingested it, a store that runs has its connection, and the mirror has   *)
(* what has been loaded.                                                   *)
Kept ==
  lossless =>
    /\ store # "down" => client
    /\ \A s \in Range(ingested.symbols) :
         s \in Range(tables.symbols) \/ \E t \in Tasks : s \in Range(rows[t].symbols)
    /\ \A e \in Range(ingested.edges) :
         e \in Range(tables.edges) \/ \E t \in Tasks : e \in Range(rows[t].edges)
    /\ store = "edges" => Range(tables.symbols) \subseteq Range(mirror.symbols)
    /\ store = "up" => Within(ingested, mirror)

IInv == GraphTypeOK /\ OwnRows /\ OwnMirror /\ Quiet /\ Kept

-----------------------------------------------------------------------------
(* The rows of sequences and of graphs                                     *)

LEMMA RangeAt ==
  ASSUME NEW S, NEW s \in Seq(S)
  PROVE  /\ \A i \in 1..Len(s) : s[i] \in Range(s)
         /\ \A x \in Range(s) : \E i \in 1..Len(s) : s[i] = x
         /\ \A x \in Range(s) : x \in S
  BY DEF Range

LEMMA Concat ==
  ASSUME NEW S, NEW s \in Seq(S), NEW t \in Seq(S)
  PROVE  /\ s \o t \in Seq(S) /\ Len(s \o t) = Len(s) + Len(t)
         /\ \A i \in 1..Len(s) : (s \o t)[i] = s[i]
         /\ \A i \in 1..Len(t) : (s \o t)[Len(s) + i] = t[i]
         /\ \A i \in (Len(s) + 1)..(Len(s) + Len(t)) :
              i - Len(s) \in 1..Len(t) /\ (s \o t)[i] = t[i - Len(s)]
         /\ Len(s) \in Nat /\ Len(t) \in Nat
  OBVIOUS

LEMMA ConcatRange ==
  ASSUME NEW S, NEW s \in Seq(S), NEW t \in Seq(S)
  PROVE  /\ s \o t \in Seq(S)
         /\ Range(s \o t) = Range(s) \cup Range(t)
<1> DEFINE u == s \o t
<1>1. /\ u \in Seq(S) /\ Len(u) = Len(s) + Len(t)
      /\ \A i \in 1..Len(s) : u[i] = s[i]
      /\ \A i \in 1..Len(t) : u[Len(s) + i] = t[i]
      /\ \A i \in (Len(s) + 1)..Len(u) : i - Len(s) \in 1..Len(t) /\ u[i] = t[i - Len(s)]
      /\ Len(s) \in Nat /\ Len(t) \in Nat
  OBVIOUS
<1> HIDE DEF u
<1>2. ASSUME NEW x \in Range(u) PROVE x \in Range(s) \cup Range(t)
  <2>1. PICK i \in 1..Len(u) : u[i] = x
    BY <1>1, <1>2, RangeAt
  <2>2. CASE i <= Len(s)
    <3>1. i \in 1..Len(s) /\ s[i] = x
      BY <2>1, <2>2, <1>1
    <3> QED BY <3>1, RangeAt
  <2>3. CASE i > Len(s)
    <3>1. i - Len(s) \in 1..Len(t) /\ t[i - Len(s)] = x
      BY <2>1, <2>3, <1>1
    <3> QED BY <3>1, RangeAt
  <2> QED BY <2>1, <2>2, <2>3, <1>1
<1>3. ASSUME NEW x \in Range(s) PROVE x \in Range(u)
  <2>1. PICK i \in 1..Len(s) : s[i] = x
    BY <1>3, RangeAt
  <2>2. i \in 1..Len(u) /\ u[i] = x
    BY <2>1, <1>1
  <2> QED BY <2>2, <1>1, RangeAt
<1>4. ASSUME NEW x \in Range(t) PROVE x \in Range(u)
  <2>1. PICK i \in 1..Len(t) : t[i] = x
    BY <1>4, RangeAt
  <2>2. Len(s) + i \in 1..Len(u) /\ u[Len(s) + i] = x
    BY <2>1, <1>1
  <2> QED BY <2>2, <1>1, RangeAt
<1>5. Range(u) = Range(s) \cup Range(t)
  BY <1>2, <1>3, <1>4
<1> QED BY <1>1, <1>5 DEF u

LEMMA AppendRange ==
  ASSUME NEW S, NEW s \in Seq(S), NEW x \in S
  PROVE  /\ Append(s, x) \in Seq(S)
         /\ Range(Append(s, x)) = Range(s) \cup {x}
<1> DEFINE u == Append(s, x)
<1>1. /\ u \in Seq(S) /\ Len(u) = Len(s) + 1 /\ u[Len(s) + 1] = x
      /\ \A i \in 1..Len(s) : u[i] = s[i]
      /\ Len(s) \in Nat
  OBVIOUS
<1> HIDE DEF u
<1>2. ASSUME NEW y \in Range(u) PROVE y \in Range(s) \cup {x}
  <2>1. PICK i \in 1..Len(u) : u[i] = y
    BY <1>1, <1>2, RangeAt
  <2>2. i = Len(s) + 1 \/ i \in 1..Len(s)
    BY <2>1, <1>1
  <2> QED BY <2>1, <2>2, <1>1, RangeAt
<1>3. ASSUME NEW y \in Range(s) PROVE y \in Range(u)
  <2>1. PICK i \in 1..Len(s) : s[i] = y
    BY <1>3, RangeAt
  <2>2. i \in 1..Len(u) /\ u[i] = y
    BY <2>1, <1>1
  <2> QED BY <2>2, <1>1, RangeAt
<1>4. x \in Range(u)
  <2>1. Len(s) + 1 \in 1..Len(u) /\ u[Len(s) + 1] = x
    BY <1>1
  <2> QED BY <2>1, <1>1, RangeAt
<1>5. Range(u) = Range(s) \cup {x}
  BY <1>2, <1>3, <1>4
<1> QED BY <1>1, <1>5 DEF u

LEMMA TailRange ==
  ASSUME NEW S, NEW s \in Seq(S), s # <<>>
  PROVE  /\ Head(s) \in S /\ Tail(s) \in Seq(S)
         /\ Range(s) = {Head(s)} \cup Range(Tail(s))
<1> DEFINE u == Tail(s)
<1>1. /\ u \in Seq(S) /\ Len(u) = Len(s) - 1 /\ Head(s) = s[1]
      /\ \A i \in 1..Len(u) : u[i] = s[i + 1]
      /\ Len(s) \in Nat /\ Len(s) >= 1 /\ Head(s) \in S
  OBVIOUS
<1> HIDE DEF u
<1>2. ASSUME NEW y \in Range(s) PROVE y = Head(s) \/ y \in Range(u)
  <2>1. PICK i \in 1..Len(s) : s[i] = y
    BY <1>2, RangeAt
  <2>2. CASE i = 1
    BY <2>1, <2>2, <1>1
  <2>3. CASE i # 1
    <3>1. i - 1 \in 1..Len(u) /\ u[i - 1] = s[(i - 1) + 1]
      BY <2>1, <2>3, <1>1
    <3>2. u[i - 1] = y
      BY <3>1, <2>1
    <3> QED BY <3>1, <3>2, <1>1, RangeAt
  <2> QED BY <2>2, <2>3
<1>3. ASSUME NEW y \in Range(u) PROVE y \in Range(s)
  <2>1. PICK i \in 1..Len(u) : u[i] = y
    BY <1>3, <1>1, RangeAt
  <2>2. i + 1 \in 1..Len(s) /\ s[i + 1] = y
    BY <2>1, <1>1
  <2> QED BY <2>2, RangeAt
<1>4. Head(s) \in Range(s)
  <2>1. 1 \in 1..Len(s)
    BY <1>1
  <2> QED BY <2>1, <1>1, RangeAt
<1>5. Range(s) = {Head(s)} \cup Range(u)
  BY <1>2, <1>3, <1>4
<1> QED BY <1>1, <1>5 DEF u

LEMMA PrefixRange ==
  ASSUME NEW S, NEW s \in Seq(S), NEW n \in 0..Len(s)
  PROVE  /\ SubSeq(s, 1, n) \in Seq(S)
         /\ Range(SubSeq(s, 1, n)) \subseteq Range(s)
<1> DEFINE u == SubSeq(s, 1, n)
<1>1. /\ u \in Seq(S) /\ Len(u) = n
      /\ \A i \in 1..n : u[i] = s[i]
      /\ Len(s) \in Nat
  OBVIOUS
<1> HIDE DEF u
<1>2. ASSUME NEW y \in Range(u) PROVE y \in Range(s)
  <2>1. PICK i \in 1..Len(u) : u[i] = y
    BY <1>2, <1>1, RangeAt
  <2>2. i \in 1..Len(s) /\ s[i] = y
    BY <2>1, <1>1
  <2> QED BY <2>2, RangeAt
<1> QED BY <1>1, <1>2 DEF u

LEMMA EmptyRange == Range(<<>>) = {}
  BY DEF Range

LEMMA NoGraphIsGraph == NoGraph \in Graphs /\ \A g \in Graphs : Within(NoGraph, g)
<1>1. NoGraph \in Graphs
  BY DEF NoGraph, Graphs
<1> QED BY <1>1, EmptyRange DEF NoGraph, Within

LEMMA ExtendRows ==
  ASSUME NEW g \in Graphs, NEW h \in Graphs
  PROVE  /\ Extend(g, h) \in Graphs
         /\ Range(Extend(g, h).symbols) = Range(g.symbols) \cup Range(h.symbols)
         /\ Range(Extend(g, h).edges) = Range(g.edges) \cup Range(h.edges)
<1>1. /\ g.symbols \in Seq(Symbols) /\ g.edges \in Seq(CodeEdges)
      /\ h.symbols \in Seq(Symbols) /\ h.edges \in Seq(CodeEdges)
  BY DEF Graphs
<1>2. /\ g.symbols \o h.symbols \in Seq(Symbols)
      /\ Range(g.symbols \o h.symbols) = Range(g.symbols) \cup Range(h.symbols)
  BY <1>1, ConcatRange
<1>3. /\ g.edges \o h.edges \in Seq(CodeEdges)
      /\ Range(g.edges \o h.edges) = Range(g.edges) \cup Range(h.edges)
  BY <1>1, ConcatRange
<1> QED BY <1>2, <1>3 DEF Extend, Graphs

(* A graph with more rows tells every relation again.                      *)
LEMMA MoreRowsMoreFacts ==
  ASSUME NEW g, NEW h, Within(g, h), NEW needle
  PROVE  Facts(g, needle) \subseteq Facts(h, needle)
<1>1. Names(g) \subseteq Names(h)
  BY DEF Names, Within
<1>2. ASSUME NEW name, NEW e, Joins(g, needle, name, e)
      PROVE  Joins(h, needle, name, e)
  BY <1>2 DEF Joins, Within
<1>3. Joined(g, needle) \subseteq Joined(h, needle)
  BY <1>1, <1>2 DEF Joined, Within
<1> QED BY <1>3 DEF Facts

-----------------------------------------------------------------------------
(* The steps                                                               *)

(* The fields of the typed graphs, and the assumption on the constants.    *)
LEMMA Fields ==
  ASSUME GraphTypeOK
  PROVE  /\ mirror.symbols \in Seq(Symbols) /\ mirror.edges \in Seq(CodeEdges)
         /\ tables.symbols \in Seq(Symbols) /\ tables.edges \in Seq(CodeEdges)
         /\ others.symbols \in Seq(Symbols) /\ others.edges \in Seq(CodeEdges)
         /\ \A t \in Tasks : /\ rows[t] \in Graphs
                            /\ rows[t].symbols \in Seq(Symbols)
                            /\ rows[t].edges \in Seq(CodeEdges)
         /\ \A src \in Sources : Parsed[src] \in Graphs
  BY CodeGraphAssumption DEF GraphTypeOK, Graphs

(* A session sees its tenant's rows, and when it is pinned no others.      *)
LEMMA VisibleRows ==
  ASSUME GraphTypeOK
  PROVE  /\ Visible("symbols") \in Seq(Symbols)
         /\ Visible("edges") \in Seq(CodeEdges)
         /\ Range(tables.symbols) \subseteq Range(Visible("symbols"))
         /\ Range(tables.edges) \subseteq Range(Visible("edges"))
         /\ session = "pinned" => /\ Visible("symbols") = tables.symbols
                                 /\ Visible("edges") = tables.edges
<1>1. CASE session = "unset"
  <2>1. /\ others.symbols \o tables.symbols \in Seq(Symbols)
        /\ Range(others.symbols \o tables.symbols)
             = Range(others.symbols) \cup Range(tables.symbols)
    BY Fields, ConcatRange
  <2>2. /\ others.edges \o tables.edges \in Seq(CodeEdges)
        /\ Range(others.edges \o tables.edges)
             = Range(others.edges) \cup Range(tables.edges)
    BY Fields, ConcatRange
  <2> QED BY <1>1, <2>1, <2>2 DEF Visible
<1>2. CASE session # "unset"
  BY <1>2, Fields DEF Visible
<1> QED BY <1>1, <1>2

(* The mirror after some rows are added to one of its vectors.             *)
LEMMA SymbolsAdded ==
  ASSUME GraphTypeOK, NEW read \in Seq(Symbols),
         mirror' = [mirror EXCEPT !.symbols = @ \o read]
  PROVE  /\ mirror' \in Graphs
         /\ Range(mirror'.symbols) = Range(mirror.symbols) \cup Range(read)
         /\ mirror'.edges = mirror.edges
<1>1. /\ mirror.symbols \o read \in Seq(Symbols)
      /\ Range(mirror.symbols \o read) = Range(mirror.symbols) \cup Range(read)
  BY Fields, ConcatRange
<1> QED BY <1>1 DEF GraphTypeOK, Graphs

LEMMA EdgesAdded ==
  ASSUME GraphTypeOK, NEW read \in Seq(CodeEdges),
         mirror' = [mirror EXCEPT !.edges = @ \o read]
  PROVE  /\ mirror' \in Graphs
         /\ Range(mirror'.edges) = Range(mirror.edges) \cup Range(read)
         /\ mirror'.symbols = mirror.symbols
<1>1. /\ mirror.edges \o read \in Seq(CodeEdges)
      /\ Range(mirror.edges \o read) = Range(mirror.edges) \cup Range(read)
  BY Fields, ConcatRange
<1> QED BY <1>1 DEF GraphTypeOK, Graphs

(* The next row of a task: it leaves the task, and is in the tables where  *)
(* it was added; no other row moves.                                       *)
LEMMA RowMoves ==
  ASSUME GraphTypeOK, NEW t \in Tasks, rows[t] # NoGraph,
         NEW inserted \in BOOLEAN, NextRow(t, inserted)
  PROVE  /\ rows' \in [Tasks -> Graphs] /\ tables' \in Graphs
         /\ Within(rows'[t], rows[t])
         /\ \A u \in Tasks \ {t} : rows'[u] = rows[u]
         /\ Within(tables, tables')
         /\ Range(tables'.symbols) \subseteq Range(tables.symbols) \cup Range(rows[t].symbols)
         /\ Range(tables'.edges) \subseteq Range(tables.edges) \cup Range(rows[t].edges)
         /\ inserted => /\ Range(rows[t].symbols)
                           \subseteq Range(tables'.symbols) \cup Range(rows'[t].symbols)
                      /\ Range(rows[t].edges)
                           \subseteq Range(tables'.edges) \cup Range(rows'[t].edges)
<1> DEFINE symbols == rows[t].symbols
           edges == rows[t].edges
<1>t. /\ symbols \in Seq(Symbols) /\ edges \in Seq(CodeEdges)
      /\ tables.symbols \in Seq(Symbols) /\ tables.edges \in Seq(CodeEdges)
      /\ rows \in [Tasks -> Graphs] /\ tables \in Graphs
      /\ rows[t] = [symbols |-> symbols, edges |-> edges]
  BY Fields DEF GraphTypeOK, Graphs
<1>1. CASE symbols # <<>>
  <2>1. /\ Head(symbols) \in Symbols /\ Tail(symbols) \in Seq(Symbols)
        /\ Range(symbols) = {Head(symbols)} \cup Range(Tail(symbols))
    BY <1>1, <1>t, TailRange
  <2>2. /\ Append(tables.symbols, Head(symbols)) \in Seq(Symbols)
        /\ Range(Append(tables.symbols, Head(symbols)))
             = Range(tables.symbols) \cup {Head(symbols)}
    BY <2>1, <1>t, AppendRange
  <2>3. /\ rows' = [rows EXCEPT ![t].symbols = Tail(@)]
        /\ tables' = IF inserted
                     THEN [tables EXCEPT !.symbols = Append(@, Head(symbols))]
                     ELSE tables
    BY <1>1 DEF NextRow
  <2>4. /\ rows' \in [Tasks -> Graphs]
        /\ rows'[t].symbols = Tail(symbols) /\ rows'[t].edges = edges
        /\ \A u \in Tasks \ {t} : rows'[u] = rows[u]
    BY <2>1, <2>3, <1>t DEF Graphs
  <2>5. CASE inserted
    <3>1. /\ tables'.symbols = Append(tables.symbols, Head(symbols))
          /\ tables'.edges = tables.edges /\ tables' \in Graphs
      BY <2>5, <2>2, <2>3, <1>t DEF Graphs
    <3> QED BY <3>1, <2>1, <2>2, <2>4, <1>t DEF Within
  <2>6. CASE ~inserted
    BY <2>6, <2>1, <2>3, <2>4, <1>t DEF Within
  <2> QED BY <2>5, <2>6
<1>2. CASE symbols = <<>>
  <2>0. edges # <<>>
    BY <1>2, <1>t DEF NoGraph
  <2>1. /\ Head(edges) \in CodeEdges /\ Tail(edges) \in Seq(CodeEdges)
        /\ Range(edges) = {Head(edges)} \cup Range(Tail(edges))
    BY <2>0, <1>t, TailRange
  <2>2. /\ Append(tables.edges, Head(edges)) \in Seq(CodeEdges)
        /\ Range(Append(tables.edges, Head(edges))) = Range(tables.edges) \cup {Head(edges)}
    BY <2>1, <1>t, AppendRange
  <2>3. /\ rows' = [rows EXCEPT ![t].edges = Tail(@)]
        /\ tables' = IF inserted
                     THEN [tables EXCEPT !.edges = Append(@, Head(edges))]
                     ELSE tables
    BY <1>2 DEF NextRow
  <2>4. /\ rows' \in [Tasks -> Graphs]
        /\ rows'[t].edges = Tail(edges) /\ rows'[t].symbols = symbols
        /\ \A u \in Tasks \ {t} : rows'[u] = rows[u]
    BY <2>1, <2>3, <1>t DEF Graphs
  <2>5. CASE inserted
    <3>1. /\ tables'.edges = Append(tables.edges, Head(edges))
          /\ tables'.symbols = tables.symbols /\ tables' \in Graphs
      BY <2>5, <2>2, <2>3, <1>t DEF Graphs
    <3> QED BY <3>1, <2>1, <2>2, <2>4, <1>t DEF Within
  <2>6. CASE ~inserted
    BY <2>6, <2>1, <2>3, <2>4, <1>t DEF Within
  <2> QED BY <2>5, <2>6
<1> QED BY <1>1, <1>2

THEOREM InitInv == Init => IInv
<1> SUFFICES ASSUME GraphInit PROVE IInv
  BY DEF Init
<1>1. NoGraph \in Graphs /\ Foreign \in Graphs
  BY NoGraphIsGraph, CodeGraphAssumption
<1>2. GraphTypeOK
  BY <1>1 DEF GraphInit, GraphTypeOK
<1>3. Range(NoGraph.symbols) = {} /\ Range(NoGraph.edges) = {}
  BY EmptyRange DEF NoGraph
<1>4. OwnRows /\ OwnMirror /\ Quiet
  BY <1>3 DEF GraphInit, OwnRows, OwnMirror, Quiet, Within
<1>5. Kept
  BY <1>3 DEF GraphInit, Kept, Within
<1> QED BY <1>2, <1>4, <1>5 DEF IInv

THEOREM StepInv == IInv /\ [Next]_vars => IInv'
<1> SUFFICES ASSUME IInv, [Next]_vars PROVE IInv'
  OBVIOUS
<1>t. GraphTypeOK /\ OwnRows /\ OwnMirror /\ Quiet /\ Kept
  BY DEF IInv
<1>0. CASE UNCHANGED graphVars
  BY <1>0, <1>t
  DEF graphVars, storeVars, boundVars, IInv, GraphTypeOK, OwnRows, OwnMirror, Quiet, Kept,
      Within
<1>1. CASE Connect
  <2>1. /\ store = "down" /\ store' = "symbols" /\ client' = TRUE
        /\ \/ session' = "pinned" /\ unscoped' = unscoped
           \/ session' = "unset" /\ unscoped' = TRUE
        /\ UNCHANGED <<mirror, tables, others, rows, ingested, lossless>>
    BY <1>1 DEF Connect
  <2>2. GraphTypeOK' /\ OwnRows' /\ Quiet'
    BY <2>1, <1>t DEF GraphTypeOK, OwnRows, Quiet, Within
  <2>3. OwnMirror' /\ Kept'
    BY <2>1, <1>t DEF OwnMirror, Kept, Within
  <2> QED BY <2>2, <2>3 DEF IInv
<1>2. CASE ConnectFails
  <2>1. /\ store' = "up" /\ client' = FALSE /\ session' = "unset" /\ lossless' = FALSE
        /\ UNCHANGED <<mirror, tables, others, rows, ingested, unscoped>>
    BY <1>2 DEF ConnectFails
  <2> QED
    BY <2>1, <1>t DEF IInv, GraphTypeOK, OwnRows, OwnMirror, Quiet, Kept, Within
<1>3. CASE LoadSymbols
  <2> DEFINE read == Visible("symbols")
  <2>1. /\ store = "symbols" /\ store' = "edges"
        /\ mirror' = [mirror EXCEPT !.symbols = @ \o read]
        /\ UNCHANGED <<client, session, tables, others, rows, ingested, lossless, unscoped>>
    BY <1>3 DEF LoadSymbols
  <2>2. /\ read \in Seq(Symbols) /\ Range(tables.symbols) \subseteq Range(read)
        /\ session = "pinned" => read = tables.symbols
    BY <1>t, VisibleRows
  <2> HIDE DEF read
  <2>3. /\ mirror' \in Graphs /\ mirror'.edges = mirror.edges
        /\ Range(mirror'.symbols) = Range(mirror.symbols) \cup Range(read)
    BY <2>1, <2>2, <1>t, SymbolsAdded
  <2>4. GraphTypeOK' /\ OwnRows' /\ Quiet'
    BY <2>1, <2>3, <1>t DEF GraphTypeOK, OwnRows, Quiet, Within
  <2>5. OwnMirror'
    BY <2>1, <2>2, <2>3, <1>t DEF OwnMirror, OwnRows, Within
  <2>6. Kept'
    BY <2>1, <2>2, <2>3, <1>t DEF Kept
  <2> QED BY <2>4, <2>5, <2>6 DEF IInv
<1>4. CASE LoadEdges
  <2> DEFINE read == Visible("edges")
  <2>1. /\ store = "edges" /\ store' = "up"
        /\ mirror' = [mirror EXCEPT !.edges = @ \o read]
        /\ UNCHANGED <<client, session, tables, others, rows, ingested, lossless, unscoped>>
    BY <1>4 DEF LoadEdges
  <2>2. /\ read \in Seq(CodeEdges) /\ Range(tables.edges) \subseteq Range(read)
        /\ session = "pinned" => read = tables.edges
    BY <1>t, VisibleRows
  <2> HIDE DEF read
  <2>3. /\ mirror' \in Graphs /\ mirror'.symbols = mirror.symbols
        /\ Range(mirror'.edges) = Range(mirror.edges) \cup Range(read)
    BY <2>1, <2>2, <1>t, EdgesAdded
  <2>4. GraphTypeOK' /\ OwnRows' /\ Quiet'
    BY <2>1, <2>3, <1>t DEF GraphTypeOK, OwnRows, Quiet, Within
  <2>5. OwnMirror'
    BY <2>1, <2>2, <2>3, <1>t DEF OwnMirror, OwnRows, Within
(* Nothing waits to be inserted during a load: the tables have every row.  *)
  <2>6. ASSUME lossless PROVE Within(ingested, mirror)'
    <3>1. \A u \in Tasks : Range(rows[u].symbols) = {} /\ Range(rows[u].edges) = {}
      BY <2>1, <1>t, EmptyRange DEF Quiet, NoGraph
    <3>2. /\ Range(ingested.symbols) \subseteq Range(tables.symbols)
          /\ Range(ingested.edges) \subseteq Range(tables.edges)
      BY <3>1, <2>6, <1>t DEF Kept
    <3>3. Range(tables.symbols) \subseteq Range(mirror.symbols)
      BY <2>1, <2>6, <1>t DEF Kept
    <3> QED BY <3>2, <3>3, <2>1, <2>2, <2>3 DEF Within
  <2>7. Kept'
    BY <2>1, <2>6, <1>t DEF Kept
  <2> QED BY <2>4, <2>5, <2>7 DEF IInv
<1>5. CASE LoadFails
  <2>1. /\ store' = "up" /\ lossless' = FALSE
        /\ UNCHANGED <<client, session, tables, others, rows, ingested, unscoped>>
    BY <1>5 DEF LoadFails
  <2>2. /\ mirror' \in Graphs
        /\ session = "pinned" =>
             /\ Range(mirror'.symbols) \subseteq Range(mirror.symbols) \cup Range(tables.symbols)
             /\ Range(mirror'.edges) \subseteq Range(mirror.edges) \cup Range(tables.edges)
    <3>1. CASE store = "symbols"
      <4>1. PICK n \in {0} \cup 0..(Len(Visible("symbols")) - 1) :
              mirror' = [mirror EXCEPT !.symbols = @ \o SubSeq(Visible("symbols"), 1, n)]
        BY <3>1, <1>5 DEF LoadFails, ReadUpTo
      <4> DEFINE read == SubSeq(Visible("symbols"), 1, n)
      <4>2. Visible("symbols") \in Seq(Symbols) /\ n \in 0..Len(Visible("symbols"))
        BY <1>t, VisibleRows
      <4>3. read \in Seq(Symbols) /\ Range(read) \subseteq Range(Visible("symbols"))
        BY <4>2, PrefixRange
      <4> HIDE DEF read
      <4>4. /\ mirror' \in Graphs /\ mirror'.edges = mirror.edges
            /\ Range(mirror'.symbols) = Range(mirror.symbols) \cup Range(read)
        BY <4>1, <4>3, <1>t, SymbolsAdded DEF read
      <4>5. session = "pinned" => Visible("symbols") = tables.symbols
        BY <1>t, VisibleRows
      <4> QED BY <4>3, <4>4, <4>5
    <3>2. CASE store # "symbols"
      <4>1. PICK n \in {0} \cup 0..(Len(Visible("edges")) - 1) :
              mirror' = [mirror EXCEPT !.edges = @ \o SubSeq(Visible("edges"), 1, n)]
        BY <3>2, <1>5 DEF LoadFails, ReadUpTo
      <4> DEFINE read == SubSeq(Visible("edges"), 1, n)
      <4>2. Visible("edges") \in Seq(CodeEdges) /\ n \in 0..Len(Visible("edges"))
        BY <1>t, VisibleRows
      <4>3. read \in Seq(CodeEdges) /\ Range(read) \subseteq Range(Visible("edges"))
        BY <4>2, PrefixRange
      <4> HIDE DEF read
      <4>4. /\ mirror' \in Graphs /\ mirror'.symbols = mirror.symbols
            /\ Range(mirror'.edges) = Range(mirror.edges) \cup Range(read)
        BY <4>1, <4>3, <1>t, EdgesAdded DEF read
      <4>5. session = "pinned" => Visible("edges") = tables.edges
        BY <1>t, VisibleRows
      <4> QED BY <4>3, <4>4, <4>5
    <3> QED BY <3>1, <3>2
  <2>3. store \in {"symbols", "edges"}
    BY <1>5 DEF LoadFails
  <2>4. GraphTypeOK' /\ OwnRows' /\ Quiet' /\ Kept'
    BY <2>1, <2>2, <1>t DEF GraphTypeOK, OwnRows, Quiet, Kept, Within
  <2>5. OwnMirror'
    BY <2>1, <2>2, <2>3, <1>t DEF OwnMirror, OwnRows, Within
  <2> QED BY <2>4, <2>5 DEF IInv
<1>6. ASSUME NEW t \in Tasks, NEW src \in Sources, Ingest(t, src) PROVE IInv'
  <2> DEFINE g == Parsed[src]
  <2>1. /\ store = "up" /\ rows[t] = NoGraph
        /\ mirror' = Extend(mirror, g) /\ ingested' = Extend(ingested, g)
        /\ rows' = [rows EXCEPT ![t] = IF client THEN g ELSE NoGraph]
        /\ UNCHANGED <<store, client, session, tables, others, lossless, unscoped>>
    BY <1>6 DEF Ingest, storeVars
  <2>2. /\ g \in Graphs /\ NoGraph \in Graphs /\ mirror \in Graphs /\ ingested \in Graphs
        /\ rows \in [Tasks -> Graphs]
    BY <1>t, Fields, NoGraphIsGraph DEF GraphTypeOK
  <2> HIDE DEF g
  <2>3. /\ mirror' \in Graphs
        /\ Range(mirror'.symbols) = Range(mirror.symbols) \cup Range(g.symbols)
        /\ Range(mirror'.edges) = Range(mirror.edges) \cup Range(g.edges)
    BY <2>1, <2>2, ExtendRows
  <2>4. /\ ingested' \in Graphs
        /\ Range(ingested'.symbols) = Range(ingested.symbols) \cup Range(g.symbols)
        /\ Range(ingested'.edges) = Range(ingested.edges) \cup Range(g.edges)
    BY <2>1, <2>2, ExtendRows
  <2>5. /\ rows' \in [Tasks -> Graphs]
        /\ \A u \in Tasks \ {t} : rows'[u] = rows[u]
        /\ rows'[t] = IF client THEN g ELSE NoGraph
    BY <2>1, <2>2
  <2>6. Range(NoGraph.symbols) = {} /\ Range(NoGraph.edges) = {}
    BY EmptyRange DEF NoGraph
  <2>7. GraphTypeOK' /\ Quiet'
    BY <2>1, <2>3, <2>4, <2>5, <1>t DEF GraphTypeOK, Quiet
  <2>8. OwnRows'
    <3>1. Within(tables, ingested)'
      BY <2>1, <2>4, <1>t DEF OwnRows, Within
    <3>2. ASSUME NEW u \in Tasks PROVE Within(rows[u], ingested)'
      <4>1. CASE u = t
        BY <4>1, <2>4, <2>5, <2>6 DEF Within
      <4>2. CASE u # t
        BY <4>2, <2>4, <2>5, <1>t DEF OwnRows, Within
      <4> QED BY <4>1, <4>2
    <3> QED BY <3>1, <3>2 DEF OwnRows
  <2>9. OwnMirror'
    BY <2>1, <2>3, <2>4, <1>t DEF OwnMirror, Within
  <2>10. ASSUME lossless PROVE Kept'
    <3>1. client /\ rows'[t] = g
      BY <2>10, <2>1, <2>5, <1>t DEF Kept
    <3>2. ASSUME NEW s \in Range(ingested'.symbols)
          PROVE  s \in Range(tables'.symbols) \/ \E u \in Tasks : s \in Range(rows'[u].symbols)
      <4>1. CASE s \in Range(g.symbols)
        BY <4>1, <3>1
      <4>2. CASE s \in Range(ingested.symbols)
        BY <4>2, <2>10, <2>1, <2>5, <2>6, <1>t DEF Kept
      <4> QED BY <4>1, <4>2, <2>4
    <3>3. ASSUME NEW e \in Range(ingested'.edges)
          PROVE  e \in Range(tables'.edges) \/ \E u \in Tasks : e \in Range(rows'[u].edges)
      <4>1. CASE e \in Range(g.edges)
        BY <4>1, <3>1
      <4>2. CASE e \in Range(ingested.edges)
        BY <4>2, <2>10, <2>1, <2>5, <2>6, <1>t DEF Kept
      <4> QED BY <4>1, <4>2, <2>4
    <3>4. Within(ingested, mirror)'
      BY <2>10, <2>1, <2>3, <2>4, <1>t DEF Kept, Within
    <3> QED BY <3>1, <3>2, <3>3, <3>4, <2>1 DEF Kept
  <2>11. Kept'
    BY <2>10, <2>1 DEF Kept
  <2> QED BY <2>7, <2>8, <2>9, <2>11 DEF IInv
(* The rows move from a task to the tables, or are lost.                   *)
<1>r. ASSUME NEW t \in Tasks, rows[t] # NoGraph, NEW inserted \in BOOLEAN, NextRow(t, inserted),
             UNCHANGED <<store, client, session, mirror, others, ingested, unscoped>>,
             lossless' = (lossless /\ inserted)
      PROVE  IInv'
  <2>1. /\ rows' \in [Tasks -> Graphs] /\ tables' \in Graphs
        /\ Within(rows'[t], rows[t])
        /\ \A u \in Tasks \ {t} : rows'[u] = rows[u]
        /\ Within(tables, tables')
        /\ Range(tables'.symbols) \subseteq Range(tables.symbols) \cup Range(rows[t].symbols)
        /\ Range(tables'.edges) \subseteq Range(tables.edges) \cup Range(rows[t].edges)
    BY <1>r, <1>t, RowMoves
  <2>2. inserted => /\ Range(rows[t].symbols)
                       \subseteq Range(tables'.symbols) \cup Range(rows'[t].symbols)
                  /\ Range(rows[t].edges)
                       \subseteq Range(tables'.edges) \cup Range(rows'[t].edges)
    BY <1>r, <1>t, RowMoves
  <2>3. store = "up"
    BY <1>r, <1>t DEF Quiet
  <2>4. GraphTypeOK' /\ Quiet' /\ OwnMirror'
    BY <2>1, <2>3, <1>r, <1>t DEF GraphTypeOK, Quiet, OwnMirror, Within
  <2>5. OwnRows'
    <3>1. Within(tables, ingested)'
      BY <2>1, <1>r, <1>t DEF OwnRows, Within
    <3>2. ASSUME NEW u \in Tasks PROVE Within(rows[u], ingested)'
      BY <2>1, <1>r, <1>t DEF OwnRows, Within
    <3> QED BY <3>1, <3>2 DEF OwnRows
  <2>6. ASSUME lossless, inserted PROVE Kept'
    <3>1. ASSUME NEW s \in Range(ingested.symbols)
          PROVE  s \in Range(tables'.symbols) \/ \E u \in Tasks : s \in Range(rows'[u].symbols)
      <4>1. CASE s \in Range(tables.symbols)
        BY <4>1, <2>1 DEF Within
      <4>2. CASE \E u \in Tasks : s \in Range(rows[u].symbols)
        BY <4>2, <2>1, <2>2, <2>6
      <4> QED BY <4>1, <4>2, <2>6, <1>t DEF Kept
    <3>2. ASSUME NEW e \in Range(ingested.edges)
          PROVE  e \in Range(tables'.edges) \/ \E u \in Tasks : e \in Range(rows'[u].edges)
      <4>1. CASE e \in Range(tables.edges)
        BY <4>1, <2>1 DEF Within
      <4>2. CASE \E u \in Tasks : e \in Range(rows[u].edges)
        BY <4>2, <2>1, <2>2, <2>6
      <4> QED BY <4>1, <4>2, <2>6, <1>t DEF Kept
    <3> QED BY <3>1, <3>2, <2>3, <2>6, <1>r, <1>t DEF Kept, Within
  <2>7. Kept'
    BY <2>6, <1>r DEF Kept
  <2> QED BY <2>4, <2>5, <2>7 DEF IInv
<1>7. ASSUME NEW t \in Tasks, Insert(t) PROVE IInv'
  <2>1. /\ rows[t] # NoGraph /\ NextRow(t, TRUE)
        /\ UNCHANGED <<store, client, session, mirror, others, ingested, unscoped>>
        /\ lossless' = (lossless /\ TRUE)
    BY <1>7, <1>t DEF Insert, storeVars, GraphTypeOK
  <2> QED BY <2>1, <1>r
<1>8. ASSUME NEW t \in Tasks, InsertFails(t) PROVE IInv'
  <2>1. /\ rows[t] # NoGraph /\ NextRow(t, FALSE)
        /\ UNCHANGED <<store, client, session, mirror, others, ingested, unscoped>>
        /\ lossless' = (lossless /\ FALSE)
    BY <1>8 DEF InsertFails, storeVars
  <2> QED BY <2>1, <1>r
<1>9. CASE Restart
  <2>1. /\ store' = "down" /\ mirror' = NoGraph /\ client' = FALSE /\ session' = "unset"
        /\ rows' = [u \in Tasks |-> NoGraph]
        /\ lossless' = (lossless /\ rows = [u \in Tasks |-> NoGraph])
        /\ UNCHANGED <<tables, others, ingested, unscoped>>
    BY <1>9 DEF Restart
  <2>2. NoGraph \in Graphs /\ Within(NoGraph, ingested)
    BY <1>t, NoGraphIsGraph DEF GraphTypeOK
  <2>3. GraphTypeOK' /\ Quiet'
    BY <2>1, <2>2, <1>t DEF GraphTypeOK, Quiet
  <2>4. OwnRows' /\ OwnMirror'
    BY <2>1, <2>2, <1>t DEF OwnRows, OwnMirror, Within
  <2>5. ASSUME lossless' PROVE Kept'
    <3>1. lossless /\ \A u \in Tasks : rows'[u] = rows[u]
      BY <2>1, <2>5
    <3> QED BY <3>1, <2>1, <1>t DEF Kept
  <2>6. Kept'
    BY <2>5 DEF Kept
  <2> QED BY <2>3, <2>4, <2>6 DEF IInv
<1>10. CASE UNCHANGED vars
  BY <1>10, <1>0 DEF vars
<1>11. CASE GraphNext
  BY <1>11, <1>1, <1>2, <1>3, <1>4, <1>5, <1>6, <1>7, <1>8, <1>9 DEF GraphNext
<1> QED BY <1>0, <1>10, <1>11 DEF Next

THEOREM Inductive == Spec => []IInv
<1>1. Init => IInv
  BY InitInv
<1>2. IInv /\ [Next]_vars => IInv'
  BY StepInv
<1> QED BY <1>1, <1>2, PTL DEF Spec

(* Every variable of the graph's store keeps its type.                     *)
THEOREM GraphTypeCorrect == Spec => []GraphTypeOK
<1>1. IInv => GraphTypeOK
  BY DEF IInv
<1> QED BY <1>1, Inductive, PTL

(***************************************************************************)
(* PgCkgStore: as long as every session was pinned, no answer tells a      *)
(* relation that no file of this tenant has, for any files, whatever rows  *)
(* others have in the tables, and however loads and inserts fail.          *)
(***************************************************************************)
THEOREM AnswersAreOwn == Spec => []OnlyOwnCode
<1>1. IInv => OnlyOwnCode
  BY MoreRowsMoreFacts DEF IInv, OwnMirror, OnlyOwnCode
<1> QED BY <1>1, Inductive, PTL

(***************************************************************************)
(* PgCkgStore: without a failure or a cut ingest, a store that is up       *)
(* answers with every relation of every file ever ingested, after any      *)
(* number of restarts and for any number of ingests under way at once.     *)
(***************************************************************************)
THEOREM AnswersKeepEverything == Spec => []NothingForgotten
<1>1. IInv => NothingForgotten
  BY MoreRowsMoreFacts DEF IInv, Kept, NothingForgotten
<1> QED BY <1>1, Inductive, PTL

-----------------------------------------------------------------------------
(* Orders                                                                  *)

(* ahead gives for each member of a set those ahead of it, one of any two. *)
Ranking(ahead) ==
  /\ \A i \in DOMAIN ahead : ahead[i] \in SUBSET DOMAIN ahead /\ i \notin ahead[i]
  /\ \A i, j \in DOMAIN ahead :
       /\ i # j => j \in ahead[i] \/ i \in ahead[j]
       /\ j \in ahead[i] => ahead[j] \subseteq ahead[i]

(* The members in that order: as many are ahead of each as come before it. *)
Ranks(ahead, place) ==
  LET n == Cardinality(DOMAIN ahead)
  IN  /\ n \in Nat
      /\ place \in [1..n -> DOMAIN ahead]
      /\ \A i \in DOMAIN ahead : /\ Cardinality(ahead[i]) + 1 \in 1..n
                                /\ place[Cardinality(ahead[i]) + 1] = i
      /\ \A k \in 1..n : Cardinality(ahead[place[k]]) = k - 1
      /\ \A k, l \in 1..n : place[k] \in ahead[place[l]] <=> k < l

LEMMA OrderedPlaces ==
  ASSUME NEW ahead, IsFiniteSet(DOMAIN ahead), Ranking(ahead), NEW s
  PROVE  \E place : /\ Ranks(ahead, place)
                    /\ Ordered(s, ahead) = [k \in 1..Cardinality(DOMAIN ahead) |-> s[place[k]]]
<1> DEFINE D == DOMAIN ahead
           n == Cardinality(D)
           rank == [i \in D |-> Cardinality(ahead[i])]
           place == [k \in 1..n |-> CHOOSE i \in D : Cardinality(ahead[i]) = k - 1]
<1>1. n \in Nat
  BY FS_CardinalityType
<1>2. ASSUME NEW i \in D
      PROVE  /\ IsFiniteSet(ahead[i]) /\ rank[i] \in 0..(n - 1)
             /\ rank[i] = Cardinality(ahead[i])
  <2>1. ahead[i] \in SUBSET D /\ i \in D \ ahead[i]
    BY DEF Ranking
  <2>2. IsFiniteSet(ahead[i]) /\ Cardinality(ahead[i]) <= n
        /\ (n = Cardinality(ahead[i]) => D = ahead[i])
    BY <2>1, FS_Subset
  <2>3. Cardinality(ahead[i]) \in Nat
    BY <2>2, FS_CardinalityType
  <2> QED BY <2>1, <2>2, <2>3, <1>1
<1>3. ASSUME NEW i \in D, NEW j \in D, j \in ahead[i] PROVE rank[j] < rank[i]
  <2>1. ahead[j] \in SUBSET ahead[i] /\ j \notin ahead[j]
    BY <1>3 DEF Ranking
  <2>2. Cardinality(ahead[j]) <= Cardinality(ahead[i])
        /\ (Cardinality(ahead[i]) = Cardinality(ahead[j]) => ahead[i] = ahead[j])
    BY <1>2, <2>1, FS_Subset
  <2>3. rank[i] \in Int /\ rank[j] \in Int /\ rank[i] # rank[j] /\ rank[j] <= rank[i]
    BY <1>2, <1>3, <2>1, <2>2, <1>1
  <2> HIDE DEF rank
  <2> QED BY <2>3
<1>4. ASSUME NEW i \in D, NEW j \in D, i # j PROVE rank[i] # rank[j]
  <2>1. j \in ahead[i] \/ i \in ahead[j]
    BY <1>4 DEF Ranking
  <2>2. rank[i] \in Int /\ rank[j] \in Int
    BY <1>2, <1>1
  <2> HIDE DEF rank
  <2> QED BY <2>1, <2>2, <1>3
<1>5. ASSUME NEW k \in 0..(n - 1) PROVE \E i \in D : rank[i] = k
  <2>1. IsFiniteSet(0..(n - 1)) /\ Cardinality(0..(n - 1)) = n
    BY <1>1, FS_Interval
  <2>2. rank \in [D -> 0..(n - 1)]
    BY <1>2
  <2> HIDE DEF rank
  <2>3. rank \in Injection(D, 0..(n - 1))
    BY <2>2, <1>4 DEF Injection, IsInjective
  <2>4. rank \in Surjection(D, 0..(n - 1))
    BY <2>1, <2>3, FS_Injection
  <2> QED BY <2>4 DEF Surjection
<1>6. ASSUME NEW k \in 1..n PROVE place[k] \in D /\ rank[place[k]] = k - 1
  <2>1. k - 1 \in 0..(n - 1)
    BY <1>1
  <2>2. \E i \in D : Cardinality(ahead[i]) = k - 1
    BY <2>1, <1>5
  <2> QED BY <2>2
<1>7. ASSUME NEW i \in D PROVE rank[i] + 1 \in 1..n /\ place[rank[i] + 1] = i
  <2>1. rank[i] + 1 \in 1..n /\ (rank[i] + 1) - 1 = rank[i]
    <3> HIDE DEF rank
    <3> QED BY <1>2, <1>1
  <2>2. place[rank[i] + 1] \in D /\ rank[place[rank[i] + 1]] = rank[i]
    <3> HIDE DEF rank, place
    <3> QED BY <2>1, <1>6
  <2> HIDE DEF rank, place
  <2> QED BY <2>1, <2>2, <1>4
<1>8. ASSUME NEW k \in 1..n, NEW l \in 1..n PROVE place[k] \in ahead[place[l]] <=> k < l
  <2>1. /\ place[k] \in D /\ rank[place[k]] = k - 1
        /\ place[l] \in D /\ rank[place[l]] = l - 1
    BY <1>6
  <2>2. place[k] \in ahead[place[l]] => k < l
    <3> HIDE DEF rank, place
    <3> QED BY <2>1, <1>3, <1>1
  <2>3. place[k] = place[l] \/ place[k] \in ahead[place[l]] \/ place[l] \in ahead[place[k]]
    <3> HIDE DEF rank, place
    <3> QED BY <2>1 DEF Ranking
  <2>4. k < l => place[k] \in ahead[place[l]]
    <3> HIDE DEF rank, place
    <3> QED BY <2>1, <2>3, <1>3, <1>1
  <2> QED BY <2>2, <2>4
<1>9. Ranks(ahead, place)
  <2>1. place \in [1..n -> D]
    BY <1>6
  <2>2. \A i \in D : Cardinality(ahead[i]) + 1 \in 1..n /\ place[Cardinality(ahead[i]) + 1] = i
    BY <1>7
  <2>3. \A k \in 1..n : Cardinality(ahead[place[k]]) = k - 1
    BY <1>6
  <2> HIDE DEF place
  <2> QED BY <1>1, <2>1, <2>2, <2>3, <1>8 DEF Ranks
<1>10. Ordered(s, ahead) = [k \in 1..n |-> s[place[k]]]
  BY DEF Ordered
<1> HIDE DEF place
<1> QED BY <1>9, <1>10

(* The members of a set of numbers below one, and the set in their order.  *)
Below(K, i) == {j \in K : j < i}
Ascending(K) == [i \in K |-> Below(K, i)]

(* The places of what is selected, and what is at each.                    *)
Selects(S, s, K, place) ==
  LET n == Cardinality(K)
  IN  /\ n \in Nat /\ IsFiniteSet(K) /\ K \in SUBSET Nat
      /\ place \in [1..n -> K]
      /\ \A i \in K : /\ Cardinality(Below(K, i)) + 1 \in 1..n
                      /\ place[Cardinality(Below(K, i)) + 1] = i
      /\ \A k \in 1..n : Cardinality(Below(K, place[k])) = k - 1
      /\ \A k, l \in 1..n : place[k] < place[l] <=> k < l
      /\ Selected(s, K) \in Seq(S) /\ Len(Selected(s, K)) = n
      /\ \A k \in 1..n : Selected(s, K)[k] = s[place[k]]

LEMMA SelectedEntries ==
  ASSUME NEW S, NEW s \in Seq(S), NEW K \in SUBSET DOMAIN s
  PROVE  \E place : Selects(S, s, K, place)
<1>1. K \in SUBSET Nat /\ IsFiniteSet(K)
  <2>1. DOMAIN s = 1..Len(s) /\ Len(s) \in Nat
    OBVIOUS
  <2>2. IsFiniteSet(1..Len(s))
    BY <2>1, FS_Interval
  <2> QED BY <2>1, <2>2, FS_Subset
<1> DEFINE ahead == Ascending(K)
           n == Cardinality(K)
<1>2. DOMAIN ahead = K /\ \A i \in K : ahead[i] = Below(K, i)
  BY DEF Ascending
<1>3. \A i \in K : Below(K, i) \subseteq K /\ i \notin Below(K, i)
  BY <1>1 DEF Below
<1>4. \A i, j \in K :
        /\ i # j => j \in Below(K, i) \/ i \in Below(K, j)
        /\ j \in Below(K, i) => Below(K, j) \subseteq Below(K, i)
        /\ j \in Below(K, i) <=> j < i
  BY <1>1 DEF Below
<1> HIDE DEF ahead
<1>5. Ranking(ahead)
  <2>1. \A i \in DOMAIN ahead : ahead[i] \in SUBSET DOMAIN ahead /\ i \notin ahead[i]
    BY <1>2, <1>3
  <2>2. \A i, j \in DOMAIN ahead :
          /\ i # j => j \in ahead[i] \/ i \in ahead[j]
          /\ j \in ahead[i] => ahead[j] \subseteq ahead[i]
    BY <1>2, <1>4
  <2> QED BY <2>1, <2>2, Zenon DEF Ranking
<1>6. PICK p : Ranks(ahead, p) /\ Ordered(s, ahead) = [k \in 1..n |-> s[p[k]]]
  BY <1>1, <1>2, <1>5, OrderedPlaces
<1>7. /\ n \in Nat /\ p \in [1..n -> K]
      /\ \A i \in K : Cardinality(ahead[i]) + 1 \in 1..n /\ p[Cardinality(ahead[i]) + 1] = i
      /\ \A k \in 1..n : Cardinality(ahead[p[k]]) = k - 1
      /\ \A k, l \in 1..n : p[k] \in ahead[p[l]] <=> k < l
  BY <1>2, <1>6, Zenon DEF Ranks
<1> HIDE DEF n
<1>8. \A k \in 1..n : p[k] \in K /\ s[p[k]] \in S
  BY <1>7
<1> DEFINE t == [k \in 1..n |-> s[p[k]]]
<1>9. t \in Seq(S) /\ Len(t) = n /\ \A k \in 1..n : t[k] = s[p[k]]
  BY <1>7, <1>8
<1>10. Selected(s, K) = t
  BY <1>6 DEF Selected, ahead, Ascending, Below
<1> HIDE DEF t
<1>11. /\ \A i \in K : Cardinality(Below(K, i)) + 1 \in 1..n /\ p[Cardinality(Below(K, i)) + 1] = i
       /\ \A k \in 1..n : Cardinality(Below(K, p[k])) = k - 1
  BY <1>2, <1>7, <1>8
<1>a. \A k, l \in 1..n : p[k] < p[l] <=> k < l
  BY <1>2, <1>4, <1>7, <1>8
<1>12. Selects(S, s, K, p)
  BY <1>1, <1>7, <1>9, <1>10, <1>11, <1>a DEF Selects, n
<1> QED BY <1>12

(* The place, x, whose entry is the m-th of what is selected.              *)
Behind(s, K, m, x) ==
  LET t == Selected(s, K)
  IN  /\ Selected(s, K \ {x}) = RemoveAt(t, m)
      /\ Cardinality(K \ {x}) = Cardinality(K) - 1
      /\ t[m] = s[x]
      /\ \A i \in K : \E k \in 1..Len(t) :
           t[k] = s[i] /\ (k < m <=> i < x) /\ (k = m <=> i = x)

(* To select one place less is to remove its entry.                        *)
LEMMA SelectedWithout ==
  ASSUME NEW S, NEW s \in Seq(S), NEW K \in SUBSET DOMAIN s,
         NEW m \in 1..Len(Selected(s, K))
  PROVE  \E x \in K : Behind(s, K, m, x)
<1> DEFINE t == Selected(s, K)
           n == Cardinality(K)
<1>1. PICK p : Selects(S, s, K, p)
  BY SelectedEntries
<1>2. /\ n \in Nat /\ IsFiniteSet(K) /\ K \in SUBSET Nat
      /\ p \in [1..n -> K]
      /\ \A i \in K : Cardinality(Below(K, i)) + 1 \in 1..n /\ p[Cardinality(Below(K, i)) + 1] = i
      /\ \A k \in 1..n : Cardinality(Below(K, p[k])) = k - 1
      /\ \A k, l \in 1..n : p[k] < p[l] <=> k < l
      /\ t \in Seq(S) /\ Len(t) = n
      /\ \A k \in 1..n : t[k] = s[p[k]]
  BY <1>1 DEF Selects
<1>3. m \in 1..n
  BY <1>2
<1>s. t \in Seq(S) /\ Len(t) = n /\ n \in Nat
  BY <1>2
<1> HIDE DEF t, n
<1> DEFINE x == p[m]
           L == K \ {x}
           u == Selected(s, L)
<1>4. x \in K /\ x \in Nat /\ m \in Nat
  BY <1>2, <1>3
<1>5. ASSUME NEW k \in 1..n
      PROVE  /\ p[k] \in Nat /\ p[k] \in K
             /\ p[k] < x <=> k < m
             /\ x < p[k] <=> m < k
             /\ p[k] = x <=> k = m
  <2>1. p[k] \in K /\ p[k] \in Nat
    BY <1>2
  <2>2. (p[k] < x <=> k < m) /\ (x < p[k] <=> m < k)
    BY <1>2, <1>3
  <2>3. p[k] = x <=> k = m
    BY <2>1, <2>2, <1>4
  <2> QED BY <2>1, <2>2, <2>3
<1>6. L \in SUBSET DOMAIN s /\ Cardinality(L) = n - 1
  <2> HIDE DEF x
  <2> QED BY <1>2, <1>4, FS_RemoveElement DEF n
<1> HIDE DEF x
<1>7. \A i \in Nat : /\ i <= x => Below(L, i) = Below(K, i)
                     /\ i > x => Below(L, i) = Below(K, i) \ {x} /\ x \in Below(K, i)
  BY <1>2, <1>4 DEF Below
<1>8. \A i \in Nat : IsFiniteSet(Below(K, i))
  <2>1. \A i \in Nat : Below(K, i) \in SUBSET K
    BY DEF Below
  <2> QED BY <2>1, <1>2, FS_Subset
<1> HIDE DEF L
<1>9. PICK q : Selects(S, s, L, q)
  BY <1>6, SelectedEntries
<1>10. /\ \A i \in L : q[Cardinality(Below(L, i)) + 1] = i
       /\ u \in Seq(S) /\ Len(u) = n - 1
       /\ \A k \in 1..(n - 1) : u[k] = s[q[k]]
  BY <1>6, <1>9 DEF Selects
<1> HIDE DEF u
<1>11. ASSUME NEW k \in 1..(n - 1), k < m PROVE q[k] = p[k]
  <2>1. k \in 1..n /\ p[k] \in L /\ p[k] \in Nat /\ p[k] < x
    BY <1>2, <1>5, <1>11 DEF L
  <2>2. Cardinality(Below(L, p[k])) = k - 1
    BY <2>1, <1>4, <1>7, <1>2
  <2>3. (k - 1) + 1 = k
    OBVIOUS
  <2> QED BY <2>1, <2>2, <2>3, <1>10
<1>12. ASSUME NEW k \in 1..(n - 1), ~(k < m) PROVE q[k] = p[k + 1]
  <2>1. k + 1 \in 1..n /\ m < k + 1
    BY <1>2, <1>12, <1>4
  <2>2. p[k + 1] \in L /\ p[k + 1] \in Nat /\ p[k + 1] > x
    BY <2>1, <1>5, <1>4 DEF L
  <2>3. Below(L, p[k + 1]) = Below(K, p[k + 1]) \ {x} /\ x \in Below(K, p[k + 1])
    BY <2>2, <1>7
  <2>4. Cardinality(Below(K, p[k + 1])) = k
    BY <2>1, <1>2
  <2>5. Cardinality(Below(L, p[k + 1])) = k - 1
    <3>1. IsFiniteSet(Below(K, p[k + 1]))
      BY <2>2, <1>8
    <3>2. Cardinality(Below(K, p[k + 1]) \ {x}) = Cardinality(Below(K, p[k + 1])) - 1
      BY <3>1, <2>3, FS_RemoveElement
    <3> QED BY <3>2, <2>3, <2>4
  <2>6. (k - 1) + 1 = k
    OBVIOUS
  <2> QED BY <2>2, <2>5, <2>6, <1>10
<1>13. u = RemoveAt(t, m)
  <2> DEFINE v == SubSeq(t, 1, m - 1)
             w == SubSeq(t, m + 1, Len(t))
  <2>1. v \in Seq(S) /\ Len(v) = m - 1 /\ \A k \in 1..(m - 1) : v[k] = t[k]
    BY <1>s, <1>3
  <2>2. w \in Seq(S) /\ Len(w) = n - m /\ \A k \in 1..(n - m) : w[k] = t[k + m]
    BY <1>s, <1>3
  <2> HIDE DEF v, w
  <2>3. v \o w \in Seq(S) /\ Len(v \o w) = n - 1
    <3>1. (m - 1) + (n - m) = n - 1
      BY <1>2, <1>4
    <3>2. v \o w \in Seq(S) /\ Len(v \o w) = Len(v) + Len(w)
      BY <2>1, <2>2, Concat
    <3> QED BY <3>1, <3>2, <2>1, <2>2
  <2>4. ASSUME NEW k \in 1..(n - 1) PROVE u[k] = (v \o w)[k]
    <3>1. CASE k < m
      <4>1. k \in 1..(m - 1) /\ k \in 1..n
        BY <3>1, <1>2, <1>4
      <4>2. (v \o w)[k] = v[k]
        BY <4>1, <2>1, <2>2
      <4>3. u[k] = s[p[k]] /\ v[k] = t[k] /\ t[k] = s[p[k]]
        BY <4>1, <3>1, <2>1, <1>10, <1>11, <1>2
      <4> QED BY <4>2, <4>3
    <3>2. CASE ~(k < m)
      <4>1. k + 1 \in 1..n /\ k - (m - 1) \in 1..(n - m) /\ (k - (m - 1)) + m = k + 1
        BY <3>2, <1>2, <1>3
      <4>2. (v \o w)[k] = w[k - (m - 1)]
        <5>1. k \in (Len(v) + 1)..(Len(v) + Len(w)) /\ Len(v) = m - 1
          BY <3>2, <2>1, <2>2, <1>s, <1>3
        <5> QED BY <5>1, <2>1, <2>2, Concat
      <4>3. w[k - (m - 1)] = t[k + 1]
        BY <4>1, <2>2
      <4>4. u[k] = s[p[k + 1]] /\ t[k + 1] = s[p[k + 1]]
        BY <4>1, <3>2, <1>10, <1>12, <1>2
      <4> QED BY <4>2, <4>3, <4>4
    <3> QED BY <3>1, <3>2
  <2>5. u = v \o w
    BY <2>3, <2>4, <1>10
  <2> QED BY <2>5 DEF RemoveAt, v, w
<1>14. ASSUME NEW i \in K
       PROVE  \E k \in 1..Len(t) : t[k] = s[i] /\ (k < m <=> i < x) /\ (k = m <=> i = x)
  <2>1. PICK k \in 1..n : p[k] = i
    BY <1>2
  <2> QED BY <2>1, <1>2, <1>5
<1>15. t[m] = s[x]
  BY <1>2, <1>3 DEF x
<1>16. Cardinality(K \ {x}) = Cardinality(K) - 1 /\ Selected(s, K \ {x}) = RemoveAt(t, m)
  BY <1>6, <1>13 DEF L, n, u
<1> QED BY <1>4, <1>14, <1>15, <1>16 DEF t, Behind

(* What is selected has the entries at the places in K, in their order.    *)
LEMMA SelectedRange ==
  ASSUME NEW S, NEW s \in Seq(S), NEW K \in SUBSET DOMAIN s
  PROVE  /\ Selected(s, K) \in Seq(S)
         /\ Range(Selected(s, K)) = {s[i] : i \in K}
         /\ \A k, l \in DOMAIN Selected(s, K) : k < l =>
              \E i, j \in K : i < j /\ Selected(s, K)[k] = s[i] /\ Selected(s, K)[l] = s[j]
<1> DEFINE t == Selected(s, K)
           n == Cardinality(K)
<1>1. PICK p : Selects(S, s, K, p)
  BY SelectedEntries
<1>2. /\ n \in Nat /\ p \in [1..n -> K]
      /\ \A i \in K : Cardinality(Below(K, i)) + 1 \in 1..n /\ p[Cardinality(Below(K, i)) + 1] = i
      /\ \A k, l \in 1..n : p[k] < p[l] <=> k < l
      /\ t \in Seq(S) /\ Len(t) = n
      /\ \A k \in 1..n : t[k] = s[p[k]]
  BY <1>1 DEF Selects
<1> HIDE DEF t, n
<1>3. DOMAIN t = 1..n
  BY <1>2
<1>4. \A x \in Range(t) : x \in {s[i] : i \in K}
  BY <1>2, <1>3 DEF Range
<1>5. ASSUME NEW i \in K PROVE s[i] \in Range(t)
  <2>1. PICK k \in 1..n : p[k] = i
    BY <1>2
  <2> QED BY <2>1, <1>2, <1>3 DEF Range
<1>6. ASSUME NEW k \in DOMAIN t, NEW l \in DOMAIN t, k < l
      PROVE  \E i, j \in K : i < j /\ t[k] = s[i] /\ t[l] = s[j]
  <2>1. k \in 1..n /\ l \in 1..n /\ p[k] \in K /\ p[l] \in K
    BY <1>2, <1>3
  <2>2. p[k] < p[l] /\ t[k] = s[p[k]] /\ t[l] = s[p[l]]
    BY <2>1, <1>2, <1>6
  <2> QED BY <2>1, <2>2
<1>7. Range(t) = {s[i] : i \in K}
  BY <1>4, <1>5
<1> QED BY <1>2, <1>6, <1>7 DEF t

-----------------------------------------------------------------------------
(* The order of the answers                                                *)

LEMMA Ranked ==
  /\ \A x \in Range(Order) : Rank[x] \in Nat
  /\ \A x, y \in Range(Order) : Rank[x] = Rank[y] => x = y
<1>1. Order \in Seq(STRING) /\ DOMAIN Order = 1..Len(Order)
  BY CodeGraphAssumption
<1>2. ASSUME NEW x \in Range(Order) PROVE Rank[x] \in DOMAIN Order /\ Order[Rank[x]] = x
  <2>1. \E i \in DOMAIN Order : Order[i] = x
    BY DEF Range
  <2> QED BY <2>1 DEF Rank
<1> QED BY <1>1, <1>2

(* Entries of an answer: the first symbol of a name, with a relation.      *)
Entries(g) == {[symbol |-> symbol_by_name(g, name), relation |-> r] :
                 name \in Names(g), r \in Relevant}

(* The neighbourhood of a needle, said of the graph as a whole: of every   *)
(* name an edge joins to it, the first symbol, with the relation.          *)
Neighbourhood(g, needle) ==
  {[symbol |-> symbol_by_name(g, p[1]), relation |-> p[2].kind] : p \in Joined(g, needle)}

LEMMA FirstOfName ==
  ASSUME NEW g \in Graphs, NEW name \in Names(g)
  PROVE  /\ symbol_by_name(g, name) \in Range(g.symbols)
         /\ symbol_by_name(g, name) \in Symbols
         /\ symbol_by_name(g, name).name = name
<1> DEFINE s == g.symbols
           T == {i \in 1..Len(s) : s[i].name = name}
<1>1. s \in Seq(Symbols) /\ Len(s) \in Nat /\ DOMAIN s = 1..Len(s)
  BY DEF Graphs
<1>2. T # {}
  BY <1>1, RangeAt DEF Names
<1>3. PICK i \in T : \A j \in T : i <= j
  <2>1. T \in SUBSET Nat
    BY <1>1
  <2> HIDE DEF T
  <2> QED BY <2>1, <1>2, Least
<1>4. i \in DOMAIN s /\ s[i].name = name /\ \A j \in 1..(i - 1) : s[j].name # name
  BY <1>1, <1>3
<1> DEFINE first == CHOOSE k \in DOMAIN s :
                      s[k].name = name /\ \A j \in 1..(k - 1) : s[j].name # name
<1>5. first \in DOMAIN s /\ s[first].name = name
  BY <1>4
<1>6. symbol_by_name(g, name) = s[first]
  BY DEF symbol_by_name
<1> HIDE DEF first
<1> QED BY <1>1, <1>5, <1>6, RangeAt

(* Before orders the entries by what they are, and tells any two apart     *)
(* unless they are the same symbol.                                        *)
LEMMA BeforeOrders ==
  ASSUME NEW g \in Graphs
  PROVE  /\ \A r, s \in Entries(g) : Before(r, s) => ~Before(s, r)
         /\ \A r, s, t \in Entries(g) : Before(r, s) /\ ~Before(t, s) => Before(r, t)
         /\ \A r, s, t \in Entries(g) : ~Before(s, r) /\ Before(s, t) => Before(r, t)
         /\ \A r, s, t \in Entries(g) : ~Before(s, r) /\ ~Before(t, s) => ~Before(t, r)
         /\ \A r, s \in Entries(g) : SamePlace(r, s) /\ r.relation = s.relation => r = s
<1>1. ASSUME NEW r \in Entries(g)
      PROVE  /\ r.symbol \in Symbols
             /\ r.symbol = symbol_by_name(g, r.symbol.name)
             /\ r = [symbol |-> r.symbol, relation |-> r.relation]
  BY FirstOfName DEF Entries
<1> DEFINE F(r) == Rank[r.symbol.file]
           L(r) == r.symbol.line
           N(r) == Rank[r.symbol.name]
<1>2. ASSUME NEW r \in Entries(g)
      PROVE  F(r) \in Nat /\ L(r) \in Nat /\ N(r) \in Nat
  <2>1. r.symbol.file \in Range(Order) /\ r.symbol.name \in Range(Order) /\ L(r) \in Nat
    BY <1>1 DEF Symbols
  <2> QED BY <2>1, Ranked
<1>3. ASSUME NEW r \in Entries(g), NEW s \in Entries(g)
      PROVE  /\ Before(r, s) <=> \/ F(r) < F(s)
                                 \/ F(r) = F(s) /\ L(r) < L(s)
                                 \/ F(r) = F(s) /\ L(r) = L(s) /\ N(r) < N(s)
             /\ N(r) = N(s) => r.symbol = s.symbol
  <2>1. /\ r.symbol.file \in Range(Order) /\ r.symbol.name \in Range(Order)
        /\ s.symbol.file \in Range(Order) /\ s.symbol.name \in Range(Order)
    BY <1>1 DEF Symbols
  <2>2. r.symbol.file = s.symbol.file <=> F(r) = F(s)
    BY <2>1, Ranked
  <2>3. N(r) = N(s) => r.symbol.name = s.symbol.name
    BY <2>1, Ranked
  <2> QED BY <2>2, <2>3, <1>1 DEF Before
<1> HIDE DEF F, L, N
<1>4. ASSUME NEW r \in Entries(g), NEW s \in Entries(g)
      PROVE  /\ Before(r, s) => ~Before(s, r)
             /\ SamePlace(r, s) /\ r.relation = s.relation => r = s
  <2>1. F(r) \in Nat /\ L(r) \in Nat /\ N(r) \in Nat /\ F(s) \in Nat /\ L(s) \in Nat /\ N(s) \in Nat
    BY <1>2
  <2>2. Before(r, s) => ~Before(s, r)
    BY <2>1, <1>3
  <2>3. SamePlace(r, s) => r.symbol = s.symbol
    BY <2>1, <1>3 DEF SamePlace
  <2> QED BY <2>2, <2>3, <1>1
<1>5. ASSUME NEW r \in Entries(g), NEW s \in Entries(g), NEW t \in Entries(g)
      PROVE  /\ Before(r, s) /\ ~Before(t, s) => Before(r, t)
             /\ ~Before(s, r) /\ Before(s, t) => Before(r, t)
             /\ ~Before(s, r) /\ ~Before(t, s) => ~Before(t, r)
  <2>1. /\ F(r) \in Nat /\ L(r) \in Nat /\ N(r) \in Nat
        /\ F(s) \in Nat /\ L(s) \in Nat /\ N(s) \in Nat
        /\ F(t) \in Nat /\ L(t) \in Nat /\ N(t) \in Nat
    BY <1>2
  <2> QED BY <2>1, <1>3
<1> QED BY <1>4, <1>5

LEMMA SortedAnswers ==
  ASSUME NEW g \in Graphs, NEW f \in Seq(Entries(g))
  PROVE  /\ Sorted(f) \in Seq(Entries(g))
         /\ Range(Sorted(f)) = Range(f)
         /\ \A k, l \in DOMAIN Sorted(f) : k < l => ~Before(Sorted(f)[l], Sorted(f)[k])
<1> DEFINE D == DOMAIN f
           ahead == [i \in D |-> {j \in D : \/ Before(f[j], f[i])
                                            \/ j < i /\ ~Before(f[i], f[j])}]
<1>1. D = 1..Len(f) /\ Len(f) \in Nat /\ \A i \in D : f[i] \in Entries(g)
  OBVIOUS
<1>2. DOMAIN ahead = D
  OBVIOUS
<1>3. \A i, j \in D : j \in ahead[i] <=> Before(f[j], f[i]) \/ (j < i /\ ~Before(f[i], f[j]))
  OBVIOUS
<1>4. \A i \in D : ahead[i] \in SUBSET D
  OBVIOUS
<1> HIDE DEF ahead
<1>5. Ranking(ahead)
  <2>1. ASSUME NEW i \in D PROVE i \notin ahead[i]
    BY <1>1, <1>3, BeforeOrders
  <2>2. ASSUME NEW i \in D, NEW j \in D, i # j PROVE j \in ahead[i] \/ i \in ahead[j]
    <3>1. i \in Nat /\ j \in Nat
      BY <1>1
    <3>2. i < j \/ j < i
      BY <3>1, <2>2
    <3> QED BY <3>2, <1>3
  <2>3. ASSUME NEW i \in D, NEW j \in D, j \in ahead[i], NEW k \in ahead[j] PROVE k \in ahead[i]
    <3>1. k \in D /\ i \in Nat /\ j \in Nat /\ k \in Nat
      BY <1>1, <1>4, <2>3
    <3>2. f[i] \in Entries(g) /\ f[j] \in Entries(g) /\ f[k] \in Entries(g)
      BY <1>1, <3>1
    <3>3. Before(f[j], f[i]) \/ (j < i /\ ~Before(f[i], f[j]))
      BY <1>3, <2>3
    <3>4. Before(f[k], f[j]) \/ (k < j /\ ~Before(f[j], f[k]))
      BY <1>3, <2>3, <3>1
    <3>5. ~Before(f[i], f[j]) /\ ~Before(f[j], f[k])
      BY <3>2, <3>3, <3>4, BeforeOrders
    <3>6. Before(f[k], f[i]) \/ k < i
      BY <3>1, <3>2, <3>3, <3>4, <3>5, BeforeOrders
    <3>7. ~Before(f[i], f[k])
      BY <3>2, <3>5, BeforeOrders
    <3> QED BY <3>1, <3>6, <3>7, <1>3
  <2> QED BY <2>1, <2>2, <2>3, <1>2, <1>4 DEF Ranking
<1>6. IsFiniteSet(D)
  BY <1>1, FS_Interval
<1> DEFINE n == Cardinality(D)
<1>7. PICK p : Ranks(ahead, p) /\ Ordered(f, ahead) = [k \in 1..n |-> f[p[k]]]
  BY <1>2, <1>5, <1>6, OrderedPlaces
<1>8. /\ n \in Nat /\ p \in [1..n -> D]
      /\ \A i \in D : Cardinality(ahead[i]) + 1 \in 1..n /\ p[Cardinality(ahead[i]) + 1] = i
      /\ \A k, l \in 1..n : p[k] \in ahead[p[l]] <=> k < l
  BY <1>2, <1>7, Zenon DEF Ranks
<1> DEFINE t == [k \in 1..n |-> f[p[k]]]
<1> HIDE DEF n
<1>9. t \in Seq(Entries(g)) /\ DOMAIN t = 1..n /\ \A k \in 1..n : t[k] = f[p[k]]
  BY <1>1, <1>8
<1>10. Sorted(f) = t
  BY <1>7 DEF Sorted, ahead
<1> HIDE DEF t
<1>11. Range(t) = Range(f)
  <2>1. \A x \in Range(t) : x \in Range(f)
    BY <1>8, <1>9 DEF Range
  <2>2. ASSUME NEW i \in D PROVE f[i] \in Range(t)
    <3>1. PICK k \in 1..n : p[k] = i
      BY <1>8
    <3> QED BY <3>1, <1>9 DEF Range
  <2>3. \A x \in Range(f) : x \in Range(t)
    BY <2>2 DEF Range
  <2> QED BY <2>1, <2>3
<1>12. ASSUME NEW k \in 1..n, NEW l \in 1..n, k < l PROVE ~Before(t[l], t[k])
  <2>1. p[k] \in D /\ p[l] \in D /\ p[k] \in ahead[p[l]]
    BY <1>8, <1>12
  <2>2. f[p[k]] \in Entries(g) /\ f[p[l]] \in Entries(g)
    BY <2>1, <1>1
  <2>3. Before(f[p[k]], f[p[l]]) \/ ~Before(f[p[l]], f[p[k]])
    BY <2>1, <1>3
  <2>4. ~Before(f[p[l]], f[p[k]])
    BY <2>2, <2>3, BeforeOrders
  <2> QED BY <2>4, <1>9
<1> QED BY <1>9, <1>10, <1>11, <1>12

LEMMA DedupAnswers ==
  ASSUME NEW g \in Graphs, NEW f \in Seq(Entries(g)),
         \A k, l \in DOMAIN f : k < l => ~Before(f[l], f[k])
  PROVE  /\ Dedup(f) \in Seq(Entries(g))
         /\ Range(Dedup(f)) = Range(f)
         /\ \A k, l \in DOMAIN Dedup(f) : k < l => ~Before(Dedup(f)[l], Dedup(f)[k])
<1> DEFINE K == {i \in DOMAIN f : ~Repeated(f, i)}
           t == Dedup(f)
<1>1. DOMAIN f = 1..Len(f) /\ Len(f) \in Nat /\ \A i \in DOMAIN f : f[i] \in Entries(g)
  OBVIOUS
<1>2. K \in SUBSET DOMAIN f /\ t = Selected(f, K)
  BY DEF Dedup
<1> HIDE DEF K, t
<1>3. /\ t \in Seq(Entries(g)) /\ Range(t) = {f[i] : i \in K}
      /\ \A k, l \in DOMAIN t : k < l =>
           \E i, j \in K : i < j /\ t[k] = f[i] /\ t[l] = f[j]
  BY <1>2, SelectedRange
(* The first place of an entry repeats nothing.                            *)
<1>4. ASSUME NEW x \in Range(f) PROVE x \in Range(t)
  <2> DEFINE T == {i \in 1..Len(f) : f[i] = x}
  <2>1. T \in SUBSET Nat /\ T # {}
    BY <1>1 DEF Range
  <2>2. PICK i \in T : \A j \in T : i <= j
    <3> HIDE DEF T
    <3> QED BY <2>1, Least
  <2>3. i \in 1..Len(f) /\ f[i] = x
    BY <2>2
  <2>4. ASSUME Repeated(f, i) PROVE FALSE
    <3>1. i > 1 /\ SamePlace(f[i - 1], f[i]) /\ f[i - 1].relation = f[i].relation
      BY <2>4 DEF Repeated
    <3>2. i - 1 \in 1..Len(f) /\ i - 1 < i
      BY <2>3, <3>1, <1>1
    <3>3. f[i - 1] \in Entries(g) /\ f[i] \in Entries(g)
      BY <2>3, <3>2, <1>1
    <3>4. f[i - 1] = f[i]
      BY <3>1, <3>3, BeforeOrders
    <3>5. i - 1 \in T
      BY <3>2, <3>4, <2>3
    <3> QED BY <3>5, <3>2, <2>2, <2>3, <1>1
  <2>5. i \in K
    BY <2>3, <2>4, <1>1 DEF K
  <2> QED BY <2>3, <2>5, <1>3
<1>5. ASSUME NEW x \in Range(t) PROVE x \in Range(f)
  <2>1. PICK i \in K : f[i] = x
    BY <1>3
  <2> QED BY <2>1, <1>2 DEF Range
<1>6. ASSUME NEW k \in DOMAIN t, NEW l \in DOMAIN t, k < l PROVE ~Before(t[l], t[k])
  <2>1. PICK i \in K, j \in K : i < j /\ t[k] = f[i] /\ t[l] = f[j]
    BY <1>3, <1>6
  <2> QED BY <2>1, <1>2
<1> QED BY <1>3, <1>4, <1>5, <1>6 DEF t

-----------------------------------------------------------------------------
(* The seeds with the edges                                                *)

(* The row and the column of a place in a table of e columns.              *)
Row(i, e) == ((i - 1) \div e) + 1
Column(i, e) == ((i - 1) % e) + 1

LEMMA RowAndColumn ==
  ASSUME NEW m \in Nat, NEW e \in Nat
  PROVE  /\ m * e \in Nat
         /\ \A i \in 1..(m * e) : Row(i, e) \in 1..m /\ Column(i, e) \in 1..e
         /\ \A a \in 1..m, b \in 1..e : \E i \in 1..(m * e) : Row(i, e) = a /\ Column(i, e) = b
<1>1. m * e \in Nat
  OBVIOUS
<1>2. ASSUME NEW i \in 1..(m * e)
      PROVE  Row(i, e) \in 1..m /\ Column(i, e) \in 1..e
  <2>1. e > 0
    <3>1. e = 0 => m * e = 0
      OBVIOUS
    <3> QED BY <3>1, <1>1
  <2> DEFINE q == (i - 1) \div e
             r == (i - 1) % e
  <2>2. q \in Int /\ r \in 0..(e - 1) /\ i - 1 = e * q + r
    BY <2>1
  <2> HIDE DEF q, r
  <2>3. q >= 0
    <3>1. q < 0 => e * q <= -e
      BY <2>1, <2>2
    <3>2. e * q + r >= 0
      BY <2>2, <1>1
    <3>3. e * q \in Int
      BY <2>2
    <3> QED BY <3>1, <3>2, <3>3, <2>1, <2>2
  <2>4. q < m
    <3>1. q >= m => e * q >= m * e
      BY <2>1, <2>2
    <3>2. e * q + r < m * e
      BY <2>2, <1>1
    <3>3. e * q \in Int
      BY <2>2
    <3> QED BY <3>1, <3>2, <3>3, <2>1, <2>2, <1>1
  <2> QED BY <2>2, <2>3, <2>4 DEF Row, Column, q, r
<1>3. ASSUME NEW a \in 1..m, NEW b \in 1..e
      PROVE  \E i \in 1..(m * e) : Row(i, e) = a /\ Column(i, e) = b
  <2> DEFINE i == (a - 1) * e + b
  <2>1. i \in 1..(m * e)
    <3>1. (a - 1) * e \in Nat
      OBVIOUS
    <3>2. (a - 1) * e + e = a * e
      OBVIOUS
    <3>3. a * e <= m * e
      OBVIOUS
    <3>4. a * e \in Nat
      OBVIOUS
    <3> HIDE DEF i
    <3> QED BY <3>1, <3>2, <3>3, <3>4, <1>1 DEF i
  <2>2. i - 1 = e * (a - 1) + (b - 1) /\ b - 1 \in 0..(e - 1) /\ e > 0
    OBVIOUS
  <2>3. (i - 1) \div e = a - 1 /\ (i - 1) % e = b - 1
    BY <2>2
  <2>4. (a - 1) + 1 = a /\ (b - 1) + 1 = b
    OBVIOUS
  <2>5. Row(i, e) = a /\ Column(i, e) = b
    BY <2>3, <2>4 DEF Row, Column
  <2> HIDE DEF i
  <2> QED BY <2>1, <2>5
<1> QED BY <1>1, <1>2, <1>3

-----------------------------------------------------------------------------
(* The query                                                               *)

(* What a query finds before it is sorted, for any graph.                  *)
LEMMA QueryFinds ==
  ASSUME NEW g \in Graphs, NEW needle
  PROVE  /\ query(g, needle) \in Seq(Entries(g))
         /\ Range(query(g, needle)) = Neighbourhood(g, needle)
         /\ \A i, j \in DOMAIN query(g, needle) :
              i < j => ~Before(query(g, needle)[j], query(g, needle)[i])
<1> DEFINE K == {i \in DOMAIN g.symbols : Has(g.symbols[i].name, needle)}
           seeds == Selected(g.symbols, K)
           e == Len(g.edges)
           m == Len(seeds)
           Pair(i) == [seed |-> seeds[Row(i, e)].name, edge |-> g.edges[Column(i, e)]]
           pairs == [i \in 1..(m * e) |-> Pair(i)]
           Pairs == [seed : Range(Order), edge : CodeEdges]
           J == {i \in DOMAIN pairs : Leads(g, pairs[i])}
           leading == Selected(pairs, J)
           Entry(p) == [symbol |-> symbol_by_name(g, OtherEnd(p)), relation |-> p.edge.kind]
           found == [i \in DOMAIN leading |-> Entry(leading[i])]
<1>0. query(g, needle) = Dedup(Sorted(found))
  BY DEF query, Row, Column
<1>1. /\ g.symbols \in Seq(Symbols) /\ g.edges \in Seq(CodeEdges) /\ e \in Nat
      /\ DOMAIN g.symbols = 1..Len(g.symbols)
  BY DEF Graphs
<1>2. /\ seeds \in Seq(Symbols) /\ Range(seeds) = {g.symbols[i] : i \in K} /\ m \in Nat
  <2>1. K \in SUBSET DOMAIN g.symbols
    OBVIOUS
  <2> HIDE DEF K
  <2> QED BY <2>1, <1>1, SelectedRange
<1>3. /\ \A s \in Range(seeds) : s \in Range(g.symbols) /\ Has(s.name, needle)
      /\ \A s \in Range(g.symbols) : Has(s.name, needle) => s \in Range(seeds)
  <2>1. \A s \in Range(g.symbols) : \E i \in DOMAIN g.symbols : g.symbols[i] = s
    BY DEF Range
  <2>2. \A i \in DOMAIN g.symbols : g.symbols[i] \in Range(g.symbols)
    BY DEF Range
  <2> QED BY <2>1, <2>2, <1>2
<1> HIDE DEF seeds, K
<1> HIDE DEF Pair, e, m, Pairs
<1>4. /\ m * e \in Nat
      /\ \A i \in 1..(m * e) : Row(i, e) \in 1..m /\ Column(i, e) \in 1..e
      /\ \A a \in 1..m, b \in 1..e : \E i \in 1..(m * e) : Row(i, e) = a /\ Column(i, e) = b
  BY <1>1, <1>2, RowAndColumn
<1>5. ASSUME NEW i \in 1..(m * e)
      PROVE  /\ Pair(i) \in Pairs
             /\ \E s \in Range(seeds) : Pair(i).seed = s.name
             /\ Pair(i).edge \in Range(g.edges)
  <2> DEFINE a == Row(i, e)
             b == Column(i, e)
  <2>1. a \in 1..m /\ b \in 1..e
    BY <1>4
  <2> HIDE DEF a, b
  <2>2. seeds[a] \in Range(seeds) /\ seeds[a] \in Symbols
    BY <2>1, <1>2, RangeAt DEF m
  <2>3. g.edges[b] \in Range(g.edges) /\ g.edges[b] \in CodeEdges
    BY <2>1, <1>1, RangeAt DEF e
  <2>4. Pair(i) = [seed |-> seeds[a].name, edge |-> g.edges[b]]
    BY DEF Pair, a, b
  <2> QED BY <2>2, <2>3, <2>4 DEF Symbols, Pairs
<1>6. ASSUME NEW s \in Range(seeds), NEW d \in Range(g.edges)
      PROVE  \E i \in 1..(m * e) : Pair(i) = [seed |-> s.name, edge |-> d]
  <2>1. PICK a \in 1..m : seeds[a] = s
    BY <1>2, RangeAt DEF m
  <2>2. PICK b \in 1..e : g.edges[b] = d
    BY <1>1, RangeAt DEF e
  <2>3. PICK i \in 1..(m * e) : Row(i, e) = a /\ Column(i, e) = b
    BY <1>4
  <2> QED BY <2>1, <2>2, <2>3 DEF Pair
<1> DEFINE n == m * e
<1> HIDE DEF n
<1>7. pairs \in Seq(Pairs) /\ DOMAIN pairs = 1..(m * e) /\ \A i \in 1..(m * e) : pairs[i] = Pair(i)
  <2>1. n \in Nat /\ \A i \in 1..n : Pair(i) \in Pairs
    BY <1>4, <1>5 DEF n
  <2>2. pairs = [i \in 1..n |-> Pair(i)]
    BY DEF n
  <2> HIDE DEF pairs
  <2>3. pairs \in Seq(Pairs) /\ DOMAIN pairs = 1..n /\ \A i \in 1..n : pairs[i] = Pair(i)
    BY <2>1, <2>2
  <2> QED BY <2>3 DEF n
<1> HIDE DEF pairs
<1>8. leading \in Seq(Pairs) /\ Range(leading) = {pairs[i] : i \in J}
  <2>1. J \in SUBSET DOMAIN pairs
    OBVIOUS
  <2>2. pairs \in Seq(Pairs)
    BY <1>7
  <2> HIDE DEF J
  <2> QED BY <2>1, <2>2, SelectedRange
<1>9. ASSUME NEW p \in Range(leading)
      PROVE  /\ p \in Pairs /\ Leads(g, p)
             /\ \E s \in Range(seeds) : p.seed = s.name
             /\ p.edge \in Range(g.edges)
  <2>1. PICK i \in DOMAIN pairs : pairs[i] = p /\ Leads(g, p)
    BY <1>8
  <2> QED BY <2>1, <1>5, <1>7
<1>10. ASSUME NEW s \in Range(seeds), NEW d \in Range(g.edges),
              Leads(g, [seed |-> s.name, edge |-> d])
       PROVE  [seed |-> s.name, edge |-> d] \in Range(leading)
  <2>1. PICK i \in 1..(m * e) : Pair(i) = [seed |-> s.name, edge |-> d]
    BY <1>6
  <2>2. i \in J /\ pairs[i] = [seed |-> s.name, edge |-> d]
    BY <2>1, <1>7, <1>10
  <2> QED BY <2>2, <1>8
<1> HIDE DEF leading
<1>11. ASSUME NEW p \in Range(leading)
       PROVE  Entry(p) \in Entries(g) /\ Entry(p) \in Neighbourhood(g, needle)
  <2>1. /\ p \in Pairs /\ Leads(g, p) /\ p.edge \in Range(g.edges)
    BY <1>9
  <2>2. PICK s \in Range(seeds) : p.seed = s.name
    BY <1>9
  <2>3. s \in Range(g.symbols) /\ Has(s.name, needle)
    BY <1>3
  <2> DEFINE name == OtherEnd(p)
  <2>4. /\ p.edge.kind \in Relevant /\ name # s.name /\ name \in Names(g)
        /\ {p.edge.from, p.edge.to} = {s.name, name}
    BY <2>1, <2>2 DEF Leads, OtherEnd, Named, Names, Range
  <2>5. Joins(g, needle, name, p.edge)
    BY <2>3, <2>4 DEF Joins
  <2>6. <<name, p.edge>> \in Joined(g, needle)
    BY <2>1, <2>4, <2>5 DEF Joined
  <2>7. Entry(p) = [symbol |-> symbol_by_name(g, name), relation |-> p.edge.kind]
    OBVIOUS
  <2> HIDE DEF name, Entry
  <2>8. Entry(p) \in Entries(g)
    BY <2>4, <2>7 DEF Entries
  <2>9. Entry(p) \in Neighbourhood(g, needle)
    BY <2>6, <2>7 DEF Neighbourhood
  <2> QED BY <2>8, <2>9
<1>12. ASSUME NEW x \in Neighbourhood(g, needle)
       PROVE  \E p \in Range(leading) : Entry(p) = x
  <2>1. PICK q \in Joined(g, needle) :
          x = [symbol |-> symbol_by_name(g, q[1]), relation |-> q[2].kind]
    BY DEF Neighbourhood
  <2> DEFINE name == q[1]
             d == q[2]
  <2>2. name \in Names(g) /\ d \in Range(g.edges) /\ Joins(g, needle, name, d)
    BY DEF Joined
  <2> HIDE DEF name, d
  <2>3. PICK s \in Range(g.symbols) :
          Has(s.name, needle) /\ s.name # name /\ {d.from, d.to} = {s.name, name}
    BY <2>2 DEF Joins
  <2> DEFINE p == [seed |-> s.name, edge |-> d]
  <2>4. p.seed = s.name /\ p.edge = d
    OBVIOUS
  <2> HIDE DEF p
  <2>5. OtherEnd(p) = name
    BY <2>3, <2>4 DEF OtherEnd
  <2>6. Leads(g, p)
    BY <2>2, <2>3, <2>4, <2>5 DEF Leads, Joins, Named, Names, Range
  <2>7. p \in Range(leading)
    BY <2>2, <2>3, <2>6, <1>3, <1>10 DEF p
  <2>8. Entry(p) = x
    BY <2>1, <2>4, <2>5 DEF name, d
  <2> HIDE DEF Entry
  <2> QED BY <2>7, <2>8
<1> HIDE DEF Entry
<1>13. /\ found \in Seq(Entries(g)) /\ Range(found) = Neighbourhood(g, needle)
  <2>1. DOMAIN leading = 1..Len(leading) /\ Len(leading) \in Nat
    BY <1>8
  <2>2. \A i \in DOMAIN leading : leading[i] \in Range(leading)
    BY DEF Range
  <2>3. found \in Seq(Entries(g))
    BY <2>1, <2>2, <1>11
  <2>4. DOMAIN found = DOMAIN leading /\ \A i \in DOMAIN leading : found[i] = Entry(leading[i])
    OBVIOUS
  <2> HIDE DEF found
  <2>5. ASSUME NEW x \in Range(found) PROVE x \in Neighbourhood(g, needle)
    <3>1. PICK i \in DOMAIN leading : Entry(leading[i]) = x
      BY <2>4 DEF Range
    <3> QED BY <3>1, <2>2, <1>11
  <2>6. ASSUME NEW x \in Neighbourhood(g, needle) PROVE x \in Range(found)
    <3>1. PICK p \in Range(leading) : Entry(p) = x
      BY <1>12
    <3>2. PICK i \in DOMAIN leading : leading[i] = p
      BY DEF Range
    <3>3. i \in DOMAIN found /\ found[i] = x
      BY <3>1, <3>2, <2>4
    <3> QED BY <3>3 DEF Range
  <2> QED BY <2>3, <2>5, <2>6
<1> HIDE DEF found
<1>14. /\ Sorted(found) \in Seq(Entries(g)) /\ Range(Sorted(found)) = Range(found)
       /\ \A k, l \in DOMAIN Sorted(found) :
            k < l => ~Before(Sorted(found)[l], Sorted(found)[k])
  BY <1>13, SortedAnswers
<1>15. /\ Dedup(Sorted(found)) \in Seq(Entries(g))
       /\ Range(Dedup(Sorted(found))) = Range(Sorted(found))
       /\ \A k, l \in DOMAIN Dedup(Sorted(found)) :
            k < l => ~Before(Dedup(Sorted(found))[l], Dedup(Sorted(found))[k])
  BY <1>14, DedupAnswers
<1> QED BY <1>0, <1>13, <1>14, <1>15

(* What the neighbourhood tells are the facts.                             *)
LEMMA NeighbourhoodTells ==
  ASSUME NEW g \in Graphs, NEW needle
  PROVE  /\ Told(query(g, needle)) = Facts(g, needle)
         /\ \A r \in Range(query(g, needle)) : r.symbol \in Range(g.symbols)
<1> DEFINE answer == query(g, needle)
           Entry(p) == [symbol |-> symbol_by_name(g, p[1]), relation |-> p[2].kind]
<1>1. Range(answer) = {Entry(p) : p \in Joined(g, needle)}
  BY QueryFinds DEF Neighbourhood
<1>2. ASSUME NEW p \in Joined(g, needle)
      PROVE  /\ Entry(p).symbol \in Range(g.symbols)
             /\ Entry(p).symbol.name = p[1]
             /\ Entry(p).relation = p[2].kind
  <2>1. p[1] \in Names(g)
    BY DEF Joined
  <2> QED BY <2>1, FirstOfName
<1> HIDE DEF answer, Entry
<1>3. Told(answer) = {<<r.symbol.name, r.relation>> : r \in {Entry(p) : p \in Joined(g, needle)}}
  BY <1>1 DEF Told
<1>4. Told(answer) = {<<Entry(p).symbol.name, Entry(p).relation>> : p \in Joined(g, needle)}
  BY <1>3
<1>5. Told(answer) = {<<p[1], p[2].kind>> : p \in Joined(g, needle)}
  BY <1>2, <1>4
<1> QED BY <1>1, <1>2, <1>5 DEF answer, Facts

(***************************************************************************)
(* InMemoryCkg::query: the answer tells every fact of the graph and        *)
(* nothing else, in the order of files and lines, for every graph any      *)
(* history of ingests, loads, failures and restarts leaves in the mirror.  *)
(***************************************************************************)
THEOREM AnswersTellTheGraph == Spec => []AnswersMatchGraph
<1>1. GraphTypeOK => AnswersMatchGraph
  <2> SUFFICES ASSUME GraphTypeOK, NEW needle \in Needles
               PROVE  LET answer == query(mirror, needle)
                      IN  /\ Told(answer) = Facts(mirror, needle)
                          /\ \A r \in Range(answer) : r.symbol \in Range(mirror.symbols)
                          /\ \A i, j \in DOMAIN answer :
                               i < j => ~Before(answer[j], answer[i])
    BY Zenon DEF AnswersMatchGraph
  <2>1. mirror \in Graphs
    BY DEF GraphTypeOK
  <2> QED BY <2>1, QueryFinds, NeighbourhoodTells
<1> QED BY <1>1, GraphTypeCorrect, PTL

(* Of the symbols of one name an answer tells the first, whichever file it *)
(* is from.                                                                *)
FirstOfEachName ==
  \A needle \in Needles :
    \A r \in Range(query(mirror, needle)) :
      r.symbol = symbol_by_name(mirror, r.symbol.name)

(***************************************************************************)
(* InMemoryCkg::symbol_by_name: which symbol is told where several have    *)
(* the name, the rule by which EveryFileContributes fails.                 *)
(***************************************************************************)
THEOREM AnswersTellTheFirst == Spec => []FirstOfEachName
<1>1. GraphTypeOK => FirstOfEachName
  <2> SUFFICES ASSUME GraphTypeOK, NEW needle \in Needles,
                      NEW r \in Range(query(mirror, needle))
               PROVE  r.symbol = symbol_by_name(mirror, r.symbol.name)
    BY DEF FirstOfEachName
  <2>1. mirror \in Graphs
    BY DEF GraphTypeOK
  <2>2. r \in Neighbourhood(mirror, needle)
    BY <2>1, QueryFinds
  <2>3. PICK p \in Joined(mirror, needle) : r.symbol = symbol_by_name(mirror, p[1])
    BY <2>2 DEF Neighbourhood
  <2>4. p[1] \in Names(mirror)
    BY DEF Joined
  <2>5. r.symbol.name = p[1]
    BY <2>1, <2>3, <2>4, FirstOfName
  <2> QED BY <2>3, <2>5
<1> QED BY <1>1, GraphTypeCorrect, PTL

(* A part of a graph has rows of the graph, and symbols of its file only.  *)
LEMMA PartWithin ==
  ASSUME NEW g \in Graphs, NEW file
  PROVE  /\ Within(PartOf(g, file), g)
         /\ \A s \in Range(PartOf(g, file).symbols) : s.file = file
<1> DEFINE K == {i \in DOMAIN g.symbols : g.symbols[i].file = file}
           M == {i \in DOMAIN g.edges : g.edges[i].file = file}
<1>1. g.symbols \in Seq(Symbols) /\ g.edges \in Seq(CodeEdges)
  BY DEF Graphs
<1>2. K \in SUBSET DOMAIN g.symbols /\ M \in SUBSET DOMAIN g.edges
  OBVIOUS
<1>3. /\ PartOf(g, file).symbols = Selected(g.symbols, K)
      /\ PartOf(g, file).edges = Selected(g.edges, M)
  BY DEF PartOf
<1>4. /\ \A i \in K : g.symbols[i] \in Range(g.symbols) /\ g.symbols[i].file = file
      /\ \A i \in M : g.edges[i] \in Range(g.edges)
  BY DEF Range
<1> HIDE DEF K, M
<1>5. /\ Selected(g.symbols, K) \in Seq(Symbols)
      /\ Range(Selected(g.symbols, K)) = {g.symbols[i] : i \in K}
  BY <1>1, <1>2, SelectedRange
<1>6. /\ Selected(g.edges, M) \in Seq(CodeEdges)
      /\ Range(Selected(g.edges, M)) = {g.edges[i] : i \in M}
  BY <1>1, <1>2, SelectedRange
<1> QED BY <1>3, <1>4, <1>5, <1>6 DEF Within

(* No name is defined in two files.                                        *)
NamesOfOneFile ==
  \A s, t \in Range(mirror.symbols) : s.name = t.name => s.file = t.file

(***************************************************************************)
(* What remains of the claim that every file contributes to an answer: it  *)
(* holds while the files ingested share no name (InMemoryCkg::query).      *)
(***************************************************************************)
THEOREM FilesApartContribute == Spec => [](NamesOfOneFile => EveryFileContributes)
<1>1. GraphTypeOK => (NamesOfOneFile => EveryFileContributes)
  <2> SUFFICES ASSUME GraphTypeOK, NamesOfOneFile, NEW needle \in Needles, NEW file,
                      Facts(PartOf(mirror, file), needle) # {}
               PROVE  \E r \in Range(query(mirror, needle)) : r.symbol.file = file
    BY Zenon DEF EveryFileContributes
  <2> DEFINE part == PartOf(mirror, file)
             answer == query(mirror, needle)
  <2>1. mirror \in Graphs
    BY DEF GraphTypeOK
  <2>2. Within(part, mirror) /\ \A s \in Range(part.symbols) : s.file = file
    BY <2>1, PartWithin
  <2>3. /\ Told(answer) = Facts(mirror, needle)
        /\ \A r \in Range(answer) : r.symbol \in Range(mirror.symbols)
    BY <2>1, NeighbourhoodTells
  <2> HIDE DEF part, answer
  <2>4. PICK p \in Joined(part, needle) : TRUE
    BY DEF Facts, part
  <2>5. PICK s \in Range(part.symbols) : s.name = p[1]
    BY DEF Joined, Names
  <2>6. <<p[1], p[2].kind>> \in Told(answer)
    <3>1. <<p[1], p[2].kind>> \in Facts(part, needle)
      BY DEF Facts
    <3> QED BY <3>1, <2>2, <2>3, MoreRowsMoreFacts
  <2>7. PICK r \in Range(answer) : r.symbol.name = p[1]
    BY <2>6 DEF Told
  <2>8. s \in Range(mirror.symbols) /\ s.file = file /\ r.symbol \in Range(mirror.symbols)
    BY <2>2, <2>3, <2>5, <2>7 DEF Within
  <2>9. r.symbol.file = s.file
    BY <2>5, <2>7, <2>8 DEF NamesOfOneFile
  <2> QED BY <2>7, <2>8, <2>9 DEF answer
<1> QED BY <1>1, GraphTypeCorrect, PTL

-----------------------------------------------------------------------------
(* The trim                                                                *)

Better(cs, i, j) == Pri(cs[i]) > Pri(cs[j]) \/ (Pri(cs[i]) = Pri(cs[j]) /\ i > j)

LEMMA Priorities ==
  \A c \in Chunks : Pri(c) \in 0..2 /\ (Pri(c) = 2 <=> c.priority = "High")
  BY DEF Chunks, Pri, Priority

(* The worst of some chunks: of the lowest priority, and the first of it.  *)
LEMMA WorstOne ==
  ASSUME NEW cs \in Seq(Chunks), cs # <<>>
  PROVE  /\ Worst(cs) \in 1..Len(cs)
         /\ \A j \in 1..Len(cs) :
              Pri(cs[Worst(cs)]) < Pri(cs[j])
              \/ (Pri(cs[Worst(cs)]) = Pri(cs[j]) /\ Worst(cs) <= j)
<1> DEFINE D == 1..Len(cs)
           pri == [i \in D |-> Pri(cs[i])]
           Values == {pri[i] : i \in D}
<1>1. /\ DOMAIN cs = D /\ Len(cs) \in Nat /\ 1 \in D
      /\ \A i \in D : cs[i] \in Chunks
  OBVIOUS
<1>2. \A i \in D : pri[i] \in Nat /\ pri[i] = Pri(cs[i])
  BY <1>1, Priorities
<1> HIDE DEF pri
<1>3. PICK v \in Values : \A w \in Values : v <= w
  <2>1. Values \in SUBSET Nat /\ Values # {}
    BY <1>1, <1>2
  <2> HIDE DEF Values
  <2> QED BY <2>1, Least
<1> DEFINE T == {i \in D : pri[i] = v}
<1>4. PICK m \in T : \A j \in T : m <= j
  <2>1. T \in SUBSET Nat /\ T # {}
    BY <1>1, <1>3
  <2> HIDE DEF T
  <2> QED BY <2>1, Least
<1>5. m \in D /\ \A j \in D : pri[m] < pri[j] \/ (pri[m] = pri[j] /\ m <= j)
  <2>1. m \in D /\ pri[m] = v
    BY <1>4
  <2> SUFFICES ASSUME NEW j \in D PROVE pri[m] < pri[j] \/ (pri[m] = pri[j] /\ m <= j)
    BY <2>1
  <2>2. v <= pri[j] /\ pri[j] \in Nat /\ pri[m] \in Nat
    BY <1>2, <1>3, <2>1
  <2>3. pri[j] = v => m <= j
    BY <1>4
  <2> QED BY <2>1, <2>2, <2>3
<1> DEFINE W(i) == i \in D /\ \A j \in D : Pri(cs[i]) < Pri(cs[j]) \/ (Pri(cs[i]) = Pri(cs[j]) /\ i <= j)
<1>6. W(m)
  BY <1>2, <1>5
<1>7. Worst(cs) = CHOOSE i \in D : \A j \in D :
                    Pri(cs[i]) < Pri(cs[j]) \/ (Pri(cs[i]) = Pri(cs[j]) /\ i <= j)
  BY <1>1 DEF Worst
<1> HIDE DEF D
<1>8. W(Worst(cs))
  BY <1>6, <1>7
<1> QED BY <1>8 DEF D

(* What is kept, K, of some chunks by a trim that is under way, and one    *)
(* that is through.                                                        *)
Best(cs, K) ==
  LET gone == DOMAIN cs \ K
  IN  /\ K \in SUBSET DOMAIN cs
      /\ \A i \in gone : cs[i].priority # "High" /\ \A j \in K : Better(cs, j, i)
      /\ \A i \in gone : (\A j \in gone : i = j \/ Better(cs, i, j)) =>
                            OverBudget(Selected(cs, K \cup {i}))
Settled(cs, K) == OverBudget(Selected(cs, K)) => \A i \in K : cs[i].priority = "High"

LEMMA TrimStep ==
  ASSUME NEW cs \in Seq(Chunks), NEW K, Best(cs, K)
  PROVE  \E M : /\ Best(cs, M) /\ Selected(cs, M) = TrimOnce(Selected(cs, K))
                /\ \/ M = K /\ Settled(cs, K)
                   \/ ~Settled(cs, K) /\ Cardinality(M) = Cardinality(K) - 1
<1> DEFINE t == Selected(cs, K)
<1>1. K \in SUBSET DOMAIN cs /\ DOMAIN cs = 1..Len(cs) /\ Len(cs) \in Nat
      /\ \A i \in DOMAIN cs : cs[i] \in Chunks
  BY DEF Best
<1>2. t \in Seq(Chunks) /\ Range(t) = {cs[i] : i \in K}
  BY <1>1, SelectedRange
<1> HIDE DEF t
<1>3. CASE ~OverBudget(t)
  <2>1. TrimOnce(t) = t /\ Settled(cs, K)
    BY <1>3 DEF TrimOnce, Settled, t
  <2> QED BY <2>1 DEF t
<1>4. CASE t = <<>>
  <2>1. TrimOnce(t) = t
    BY <1>4 DEF TrimOnce
  <2>2. K = {}
    <3>1. Range(t) = {}
      BY <1>4, EmptyRange
    <3> QED BY <3>1, <1>2
  <2>3. Settled(cs, K)
    BY <2>2 DEF Settled
  <2> QED BY <2>1, <2>3 DEF t
<1>5. CASE t # <<>> /\ OverBudget(t)
  <2> DEFINE m == Worst(t)
  <2>1. /\ m \in 1..Len(t)
        /\ \A j \in 1..Len(t) : Pri(t[m]) < Pri(t[j]) \/ (Pri(t[m]) = Pri(t[j]) /\ m <= j)
    BY <1>2, <1>5, WorstOne
  <2> HIDE DEF m
  <2>2. PICK x \in K : Behind(cs, K, m, x)
    <3>1. m \in 1..Len(Selected(cs, K))
      BY <2>1 DEF t
    <3> QED BY <1>1, <3>1, SelectedWithout
  <2>a. /\ Selected(cs, K \ {x}) = RemoveAt(t, m)
        /\ Cardinality(K \ {x}) = Cardinality(K) - 1
        /\ t[m] = cs[x]
        /\ \A i \in K : \E k \in 1..Len(t) :
              t[k] = cs[i] /\ (k < m <=> i < x) /\ (k = m <=> i = x)
    BY <2>2 DEF Behind, t
  <2>3. ASSUME NEW i \in K, i # x PROVE Better(cs, i, x) /\ Pri(cs[x]) <= Pri(cs[i])
    <3>1. PICK k \in 1..Len(t) : t[k] = cs[i] /\ (k < m <=> i < x) /\ (k = m <=> i = x)
      BY <2>a
    <3>2. Pri(cs[x]) < Pri(cs[i]) \/ (Pri(cs[x]) = Pri(cs[i]) /\ m <= k)
      BY <2>1, <2>a, <3>1
    <3>3. i \in Nat /\ x \in Nat /\ k \in Nat /\ m \in Nat /\ Pri(cs[i]) \in 0..2 /\ Pri(cs[x]) \in 0..2
      BY <1>1, <2>1, Priorities
    <3> QED BY <3>1, <3>2, <3>3, <2>3 DEF Better
  <2>4. CASE t[m].priority = "High"
    <3>1. TrimOnce(t) = t
      BY <2>4 DEF TrimOnce, m
    <3>2. ASSUME NEW i \in K PROVE cs[i].priority = "High"
      <4>1. Pri(cs[x]) = 2
        BY <2>a, <2>4, <1>1, Priorities
      <4>2. Pri(cs[i]) \in 0..2 /\ Pri(cs[x]) <= Pri(cs[i])
        BY <2>3, <4>1, <1>1, Priorities
      <4>3. Pri(cs[i]) = 2
        BY <4>1, <4>2
      <4> QED BY <4>3, <1>1, Priorities
    <3>3. Settled(cs, K)
      BY <3>2 DEF Settled
    <3> QED BY <3>1, <3>3 DEF t
  <2>5. CASE t[m].priority # "High"
    <3> DEFINE M == K \ {x}
               gone == DOMAIN cs \ M
    <3>1. TrimOnce(t) = RemoveAt(t, m)
      BY <1>5, <2>5 DEF TrimOnce, m
    <3>2. ~Settled(cs, K)
      BY <1>5, <2>a, <2>5 DEF Settled, t
    <3>3. gone = (DOMAIN cs \ K) \cup {x} /\ M \in SUBSET DOMAIN cs /\ M \cup {x} = K
      BY <1>1
    <3> HIDE DEF gone
    <3>4. ASSUME NEW i \in gone PROVE cs[i].priority # "High" /\ \A j \in M : Better(cs, j, i)
      BY <3>3, <2>a, <2>3, <2>5 DEF Best
    <3>5. ASSUME NEW i \in gone, \A j \in gone : i = j \/ Better(cs, i, j)
          PROVE  OverBudget(Selected(cs, M \cup {i}))
      <4>1. CASE i = x
        BY <4>1, <3>3, <1>5 DEF t
      <4>2. CASE i # x
        <5>1. Better(cs, i, x) /\ Better(cs, x, i)
          BY <4>2, <3>3, <3>5 DEF Best
        <5>2. i \in Nat /\ x \in Nat /\ Pri(cs[i]) \in 0..2 /\ Pri(cs[x]) \in 0..2
          BY <1>1, <3>3, Priorities
        <5> QED BY <5>1, <5>2 DEF Better
      <4> QED BY <4>1, <4>2
    <3>6. Best(cs, M)
      BY <3>3, <3>4, <3>5 DEF Best, gone
    <3> QED BY <3>1, <3>2, <3>6, <2>a DEF t
  <2> QED BY <2>4, <2>5
<1> QED BY <1>3, <1>4, <1>5
LEMMA UpTo ==
  ASSUME NEW n \in Nat
  PROVE  IsFiniteSet(1..n) /\ Cardinality(1..n) = n
<1>1. 1 \in Int /\ n \in Int
  OBVIOUS
<1>2. IsFiniteSet(1..n) /\ Cardinality(1..n) = IF 1 > n THEN 0 ELSE n - 1 + 1
  BY <1>1, FS_Interval, Zenon
<1> QED BY <1>2

(* All the places select the whole.                                        *)
LEMMA SelectedAll ==
  ASSUME NEW S, NEW s \in Seq(S)
  PROVE  Selected(s, DOMAIN s) = s
<1> DEFINE L == Len(s)
           D == 1..L
           t == Selected(s, D)
<1>1. L \in Nat /\ DOMAIN s = D /\ Cardinality(D) = L
  <2>1. L \in Nat /\ DOMAIN s = D
    OBVIOUS
  <2> HIDE DEF L
  <2> QED BY <2>1, UpTo
<1>2. PICK p : Selects(S, s, D, p)
  BY <1>1, SelectedEntries
<1>3. /\ p \in [D -> D]
      /\ \A k \in D : Cardinality(Below(D, p[k])) = k - 1
      /\ t \in Seq(S) /\ Len(t) = L
      /\ \A k \in D : t[k] = s[p[k]]
  BY <1>1, <1>2 DEF Selects
<1>4. ASSUME NEW k \in D PROVE p[k] = k
  <2>1. p[k] \in D
    BY <1>3
  <2> DEFINE i == p[k]
  <2>2. Below(D, i) = 1..(i - 1)
    BY <1>1, <2>1 DEF Below
  <2>3. Cardinality(1..(i - 1)) = i - 1
    <3>1. i - 1 \in Nat
      BY <1>1, <2>1
    <3> HIDE DEF i
    <3> QED BY <3>1, UpTo
  <2>4. Cardinality(Below(D, i)) = k - 1
    BY <1>3
  <2>5. i - 1 = k - 1
    BY <2>2, <2>3, <2>4
  <2> QED BY <2>1, <2>5, <1>1
<1> HIDE DEF t
<1>5. \A k \in D : t[k] = s[k]
  BY <1>3, <1>4
<1>6. t = s
  BY <1>1, <1>3, <1>5
<1> QED BY <1>1, <1>6 DEF t

LEMMA TrimOnceTyped ==
  ASSUME NEW cs \in Seq(Chunks)
  PROVE  TrimOnce(cs) \in Seq(Chunks)
<1>1. CASE cs = <<>>
  BY <1>1 DEF TrimOnce
<1>2. CASE cs # <<>>
  <2> DEFINE m == Worst(cs)
  <2>1. m \in 1..Len(cs)
    BY <1>2, WorstOne
  <2> HIDE DEF m
  <2>2. RemoveAt(cs, m) \in Seq(Chunks)
    BY <2>1 DEF RemoveAt
  <2> QED BY <2>2 DEF TrimOnce, m
<1> QED BY <1>1, <1>2

(* As many steps as there are chunks end the trim.                         *)
LEMMA TrimmedKeeps ==
  ASSUME NEW cs \in Seq(Chunks)
  PROVE  \E K : Best(cs, K) /\ Settled(cs, K) /\ Trimmed(cs) = Selected(cs, K)
<1> DEFINE L == Len(cs)
           V == Seq(Chunks)
           step == [p \in Nat \X V |-> TrimOnce(p[2])]
           P(g) == g = [n \in 0..L |-> IF n = 0 THEN cs ELSE TrimOnce(g[n - 1])]
<1>1. L \in Nat /\ DOMAIN cs = 1..L /\ IsFiniteSet(1..L) /\ Cardinality(1..L) = L
  <2>1. L \in Nat /\ DOMAIN cs = 1..L
    OBVIOUS
  <2> HIDE DEF L
  <2> QED BY <2>1, UpTo
<1>2. PICK f \in [Nat -> V] : Follows(f, cs, step)
  <2>1. cs \in V /\ step \in [Nat \X V -> V]
    BY TrimOnceTyped
  <2> HIDE DEF step, V
  <2> QED BY <2>1, Recursion
<1>3. f[0] = cs /\ \A n \in Nat : f[n + 1] = TrimOnce(f[n])
  <2>1. f[0] = cs /\ \A n \in Nat : f[n + 1] = step[<<n, f[n]>>]
    BY <1>2 DEF Follows
  <2>2. \A n \in Nat : <<n, f[n]>> \in Nat \X V /\ step[<<n, f[n]>>] = TrimOnce(f[n])
    BY <1>2
  <2> QED BY <2>1, <2>2
<1> DEFINE h == [n \in 0..L |-> f[n]]
<1>4. P(h)
  <2>1. ASSUME NEW n \in 0..L
        PROVE  h[n] = IF n = 0 THEN cs ELSE TrimOnce(h[n - 1])
    <3>1. n # 0 => n - 1 \in Nat /\ n - 1 \in 0..L /\ (n - 1) + 1 = n
      BY <1>1
    <3> QED BY <1>3, <3>1
  <2> QED BY <2>1
<1> DEFINE after == CHOOSE g : P(g)
<1>5. Trimmed(cs) = after[L]
  BY DEF Trimmed
<1>6. P(after)
  <2> HIDE DEF P, h
  <2> QED BY <1>4
<1>7. after[0] = cs /\ \A n \in 0..(L - 1) : after[n + 1] = TrimOnce(after[n])
  <2> HIDE DEF after
  <2>1. 0 \in 0..L /\ \A n \in 0..(L - 1) : n + 1 \in 0..L /\ n + 1 # 0 /\ (n + 1) - 1 = n
    BY <1>1
  <2> QED BY <1>6, <2>1
<1> DEFINE Left(n, K) == /\ Best(cs, K)
                         /\ after[n] = Selected(cs, K)
                         /\ ~Settled(cs, K) => Cardinality(K) = L - n
           S == {n \in Nat : n <= L => \E K : Left(n, K)}
<1> HIDE DEF after, P
<1>8. \A n \in Nat : n \in S
  <2>1. 0 \in S
    <3>1. Best(cs, DOMAIN cs)
      BY DEF Best
    <3>2. Selected(cs, DOMAIN cs) = cs /\ Cardinality(DOMAIN cs) = L
      BY <1>1, SelectedAll
    <3>3. L - 0 = L
      BY <1>1
    <3>4. Left(0, DOMAIN cs)
      BY <3>1, <3>2, <3>3, <1>7
    <3> HIDE DEF Left
    <3> QED BY <3>4
  <2>2. ASSUME NEW n \in Nat, n \in S PROVE n + 1 \in S
    <3> SUFFICES ASSUME n + 1 <= L PROVE \E K : Left(n + 1, K)
      OBVIOUS
    <3>1. n <= L /\ n \in 0..(L - 1)
      BY <1>1
    <3>2. PICK K : Left(n, K)
      BY <2>2, <3>1
    <3>3. PICK M : /\ Best(cs, M) /\ Selected(cs, M) = TrimOnce(Selected(cs, K))
                   /\ \/ M = K /\ Settled(cs, K)
                      \/ ~Settled(cs, K) /\ Cardinality(M) = Cardinality(K) - 1
      BY <3>2, TrimStep
    <3>4. after[n + 1] = Selected(cs, M)
      BY <3>1, <3>2, <3>3, <1>7
    <3>5. ~Settled(cs, M) => Cardinality(M) = L - (n + 1)
      <4>1. SUFFICES ASSUME ~Settled(cs, M) PROVE Cardinality(M) = L - (n + 1)
        OBVIOUS
      <4>2. ~Settled(cs, K) /\ Cardinality(M) = Cardinality(K) - 1
        BY <4>1, <3>3
      <4>3. Cardinality(K) = L - n
        BY <4>2, <3>2
      <4> QED BY <4>2, <4>3, <1>1
    <3>6. Left(n + 1, M)
      BY <3>3, <3>4, <3>5
    <3> HIDE DEF Left
    <3> QED BY <3>6
  <2> HIDE DEF S
  <2> QED BY <2>1, <2>2, ByInduction
<1>9. PICK K : Left(L, K)
  <2>1. L \in Nat /\ L <= L
    BY <1>1
  <2> HIDE DEF L, Left
  <2> QED BY <1>8, <2>1
<1>10. Settled(cs, K)
  <2>1. CASE Cardinality(K) = L - L
    <3>1. Cardinality(K) = 0
      BY <2>1, <1>1
    <3>2. IsFiniteSet(K)
      <4>1. K \in SUBSET (1..L) /\ IsFiniteSet(1..L)
        BY <1>1, <1>9 DEF Best
      <4> QED BY <4>1, FS_Subset
    <3>3. K = {}
      BY <3>1, <3>2, FS_EmptySet
    <3> QED BY <3>3 DEF Settled
  <2> QED BY <2>1, <1>9
<1> QED BY <1>5, <1>9, <1>10

-----------------------------------------------------------------------------
(* The chunks                                                              *)

(* Every symbol the graph holds is of a known file, and every chunk is of  *)
(* one of them or of what the callers add.                                 *)
KnownRows ==
  /\ Range(mirror.symbols) \subseteq KnownSymbols
  /\ Range(ingested.symbols) \subseteq KnownSymbols
  /\ Range(others.symbols) \subseteq KnownSymbols
ContextInv == KnownRows /\ chunks \in Seq(Chunks)

LEMMA ChunkTyped ==
  ASSUME NEW source \in {c.source : c \in Gathered} \cup {"Symbol"},
         NEW uri \in {c.uri : c \in Gathered} \cup Range(Order),
         NEW content \in [head : Heads, tail : Tails], NEW priority \in DOMAIN Priority
  PROVE  ContextChunk(source, uri, content, priority) \in Chunks
<1>1. estimate_tokens(content) \in 1..3
  BY DEF estimate_tokens
<1> QED BY <1>1 DEF ContextChunk, Chunks

LEMMA NeighboursTyped ==
  ASSUME mirror \in Graphs, KnownRows, NEW needle
  PROVE  Neighbours(needle) \in Seq(Chunks)
<1> DEFINE found == query(mirror, needle)
<1>1. found \in Seq(Entries(mirror))
  BY QueryFinds
<1> HIDE DEF found
<1>2. ASSUME NEW r \in Entries(mirror) PROVE SymbolChunk(r) \in Chunks
  <2>1. PICK name \in Names(mirror), relation \in Relevant :
          r = [symbol |-> symbol_by_name(mirror, name), relation |-> relation]
    BY DEF Entries
  <2> DEFINE s == symbol_by_name(mirror, name)
             head == <<s.kind, s.name, relation, s.line>>
  <2>2. s \in KnownSymbols /\ s \in Symbols
    BY FirstOfName DEF KnownRows
  <2>3. r.symbol = s /\ r.relation = relation
    BY <2>1
  <2> HIDE DEF s
  <2>4. s.file \in Range(Order)
    BY <2>2 DEF Symbols
  <2>5. head \in Heads
    BY <2>2 DEF Heads
  <2> HIDE DEF head
  <2>6. /\ [head |-> head, tail |-> ""] \in [head : Heads, tail : Tails]
        /\ "Medium" \in DOMAIN Priority
    BY <2>5 DEF Priority, Tails
  <2>7. SymbolChunk(r) = ContextChunk("Symbol", s.file, [head |-> head, tail |-> ""], "Medium")
    BY <2>3 DEF SymbolChunk, head
  <2>8. /\ "Symbol" \in {c.source : c \in Gathered} \cup {"Symbol"}
        /\ s.file \in {c.uri : c \in Gathered} \cup Range(Order)
    BY <2>4
  <2>9. ContextChunk("Symbol", s.file, [head |-> head, tail |-> ""], "Medium") \in Chunks
    BY <2>6, <2>8, ChunkTyped
  <2> QED BY <2>7, <2>9
<1>3. Neighbours(needle) = [i \in DOMAIN found |-> SymbolChunk(found[i])]
  BY DEF Neighbours, found
<1>4. /\ DOMAIN found = 1..Len(found) /\ Len(found) \in Nat
      /\ \A i \in 1..Len(found) : found[i] \in Entries(mirror)
  BY <1>1
<1>5. \A i \in 1..Len(found) : SymbolChunk(found[i]) \in Chunks
  BY <1>2, <1>4
<1> DEFINE n == Len(found)
           F(i) == SymbolChunk(found[i])
<1>6. n \in Nat /\ (\A i \in 1..n : F(i) \in Chunks) /\ Neighbours(needle) = [i \in 1..n |-> F(i)]
  BY <1>3, <1>4, <1>5
<1> HIDE DEF n, F
<1> QED BY <1>6

LEMMA VisibleSymbols ==
  ASSUME GraphTypeOK, OwnRows, KnownRows
  PROVE  /\ Visible("symbols") \in Seq(Symbols)
         /\ Range(Visible("symbols")) \subseteq KnownSymbols
<1>1. Range(tables.symbols) \subseteq KnownSymbols
  BY DEF OwnRows, Within, KnownRows
<1>2. CASE session = "unset"
  <2>1. /\ others.symbols \o tables.symbols \in Seq(Symbols)
        /\ Range(others.symbols \o tables.symbols)
             = Range(others.symbols) \cup Range(tables.symbols)
    BY Fields, ConcatRange
  <2> QED BY <1>1, <1>2, <2>1 DEF Visible, KnownRows
<1>3. CASE session # "unset"
  BY <1>1, <1>3, Fields DEF Visible
<1> QED BY <1>2, <1>3

LEMMA KnownSources ==
  /\ \A src \in Sources : Range(Parsed[src].symbols) \subseteq KnownSymbols
  /\ Range(Foreign.symbols) \subseteq KnownSymbols
  BY DEF KnownSymbols

LEMMA ContextInit == Init => ContextInv
<1> SUFFICES ASSUME Init PROVE ContextInv
  OBVIOUS
<1>1. Range(NoGraph.symbols) = {}
  BY EmptyRange DEF NoGraph
<1>2. KnownRows
  BY <1>1, KnownSources DEF Init, GraphInit, KnownRows
<1>3. chunks = <<>>
  BY DEF Init
<1>4. chunks \in Seq(Chunks)
  BY <1>3
<1> QED BY <1>2, <1>4 DEF ContextInv

LEMMA KnownRowsStep ==
  ASSUME GraphTypeOK, OwnRows, KnownRows, GraphNext
  PROVE  KnownRows'
<1>a. ASSUME NEW read \in Seq(Symbols), Range(read) \subseteq KnownSymbols,
             mirror' = [mirror EXCEPT !.symbols = @ \o read], UNCHANGED <<others, ingested>>
      PROVE  KnownRows'
  <2>1. Range(mirror'.symbols) = Range(mirror.symbols) \cup Range(read)
    BY <1>a, SymbolsAdded
  <2> QED BY <2>1, <1>a DEF KnownRows
<1>b. ASSUME mirror'.symbols = mirror.symbols, UNCHANGED <<others, ingested>>
      PROVE  KnownRows'
  BY <1>b DEF KnownRows
<1>1. CASE LoadSymbols
  BY <1>1, <1>a, VisibleSymbols DEF LoadSymbols
<1>2. CASE LoadEdges
  <2>1. mirror'.symbols = mirror.symbols
    BY <1>2, Fields DEF LoadEdges, GraphTypeOK, Graphs
  <2> QED BY <1>2, <2>1, <1>b DEF LoadEdges
<1>3. CASE LoadFails
  <2>1. UNCHANGED <<others, ingested>>
    BY <1>3 DEF LoadFails
  <2>2. CASE store = "symbols"
    <3>1. PICK n \in {0} \cup 0..(Len(Visible("symbols")) - 1) :
            mirror' = [mirror EXCEPT !.symbols = @ \o SubSeq(Visible("symbols"), 1, n)]
      BY <2>2, <1>3 DEF LoadFails, ReadUpTo
    <3> DEFINE read == SubSeq(Visible("symbols"), 1, n)
    <3>2. /\ Visible("symbols") \in Seq(Symbols) /\ n \in 0..Len(Visible("symbols"))
          /\ Range(Visible("symbols")) \subseteq KnownSymbols
      BY VisibleSymbols
    <3>3. read \in Seq(Symbols) /\ Range(read) \subseteq KnownSymbols
      BY <3>2, PrefixRange
    <3>4. mirror' = [mirror EXCEPT !.symbols = @ \o read]
      BY <3>1
    <3> HIDE DEF read
    <3> QED BY <3>3, <3>4, <2>1, <1>a
  <2>3. CASE store # "symbols"
    <3>1. mirror'.symbols = mirror.symbols
      BY <2>3, <1>3 DEF LoadFails, GraphTypeOK, Graphs
    <3> QED BY <3>1, <2>1, <1>b
  <2> QED BY <2>2, <2>3
<1>4. ASSUME NEW t \in Tasks, NEW src \in Sources, Ingest(t, src) PROVE KnownRows'
  <2>1. /\ mirror \in Graphs /\ ingested \in Graphs /\ Parsed[src] \in Graphs
        /\ mirror' = Extend(mirror, Parsed[src]) /\ ingested' = Extend(ingested, Parsed[src])
        /\ others' = others
    BY <1>4, Fields DEF Ingest, GraphTypeOK
  <2>2. /\ Range(mirror'.symbols) = Range(mirror.symbols) \cup Range(Parsed[src].symbols)
        /\ Range(ingested'.symbols) = Range(ingested.symbols) \cup Range(Parsed[src].symbols)
    BY <2>1, ExtendRows
  <2> QED BY <2>1, <2>2, KnownSources DEF KnownRows
<1>5. CASE Restart
  <2>1. mirror' = NoGraph /\ UNCHANGED <<others, ingested>>
    BY <1>5 DEF Restart
  <2>2. Range(NoGraph.symbols) = {}
    BY EmptyRange DEF NoGraph
  <2> QED BY <2>1, <2>2 DEF KnownRows
<1>6. CASE Connect \/ ConnectFails
  BY <1>6, <1>b DEF Connect, ConnectFails
<1>7. ASSUME NEW t \in Tasks, Insert(t) \/ InsertFails(t) PROVE KnownRows'
  BY <1>7, <1>b DEF Insert, InsertFails
<1> QED BY <1>1, <1>2, <1>3, <1>4, <1>5, <1>6, <1>7 DEF GraphNext

LEMMA ContextStep == IInv /\ ContextInv /\ [Next]_vars => ContextInv'
<1> SUFFICES ASSUME IInv, ContextInv, [Next]_vars PROVE ContextInv'
  OBVIOUS
<1>t. GraphTypeOK /\ OwnRows /\ KnownRows /\ chunks \in Seq(Chunks) /\ mirror \in Graphs
  BY DEF IInv, ContextInv, GraphTypeOK
<1>1. CASE GraphNext /\ UNCHANGED ctxVars
  BY <1>1, <1>t, KnownRowsStep DEF ctxVars, ContextInv
<1>r. ASSUME UNCHANGED graphVars, chunks' \in Seq(Chunks) PROVE ContextInv'
  BY <1>r, <1>t DEF graphVars, ContextInv, KnownRows
<1>2. CASE UNCHANGED vars
  BY <1>2, <1>r, <1>t DEF vars, ctxVars
<1>3. CASE ContextNext /\ UNCHANGED graphVars
  <2> SUFFICES ASSUME ContextNext PROVE chunks' \in Seq(Chunks)
    BY <1>3, <1>r
  <2>1. ASSUME NEW tokens, Push(tokens) PROVE chunks' \in Seq(Chunks)
    BY <2>1, <1>t DEF Push
  <2>2. ASSUME NEW c \in Gathered, AddChunk(c) PROVE chunks' \in Seq(Chunks)
    <3> DEFINE d == ContextChunk(c.source, c.uri, c.content, c.priority)
    <3>1. c.content \in [head : Heads, tail : Tails] /\ c.priority \in DOMAIN Priority
      BY ContextWindowAssumption
    <3>2. d \in Chunks
      BY <3>1, ChunkTyped
    <3>3. chunks' = Append(chunks, d)
      BY <2>2 DEF AddChunk
    <3> HIDE DEF d
    <3> QED BY <3>2, <3>3, <1>t
  <2>3. ASSUME NEW needle, EnrichFromCkg(needle) PROVE chunks' \in Seq(Chunks)
    <3>1. Neighbours(needle) \in Seq(Chunks)
      BY <1>t, NeighboursTyped
    <3>2. chunks' = chunks \o Neighbours(needle)
      BY <2>3 DEF EnrichFromCkg
    <3> QED BY <3>1, <3>2, <1>t, Concat
  <2>4. CASE BudgetTrim
    <3>1. PICK K : Best(chunks, K) /\ Trimmed(chunks) = Selected(chunks, K)
      BY <1>t, TrimmedKeeps
    <3>2. K \in SUBSET DOMAIN chunks
      BY <3>1 DEF Best
    <3>3. Selected(chunks, K) \in Seq(Chunks)
      BY <3>2, <1>t, SelectedRange
    <3> QED BY <3>1, <3>3, <2>4 DEF BudgetTrim
  <2>5. CASE Compress
    <3> DEFINE K == {i \in DOMAIN chunks :
                       \A j \in 1..(i - 1) : chunks[j].content # chunks[i].content}
               firsts == Selected(chunks, K)
               Cut(c) == IF c.content.tail = "" THEN c
                         ELSE ContextChunk(c.source, c.uri,
                                [c.content EXCEPT !.tail = Truncated], c.priority)
    <3>1. firsts \in Seq(Chunks)
      <4>1. K \in SUBSET DOMAIN chunks
        OBVIOUS
      <4> HIDE DEF K
      <4> QED BY <4>1, <1>t, SelectedRange
    <3>2. ASSUME NEW c \in Chunks PROVE Cut(c) \in Chunks
      <4>1. /\ c.source \in {x.source : x \in Gathered} \cup {"Symbol"}
            /\ c.uri \in {x.uri : x \in Gathered} \cup Range(Order)
            /\ c.content \in [head : Heads, tail : Tails] /\ c.priority \in DOMAIN Priority
        BY DEF Chunks
      <4>2. [c.content EXCEPT !.tail = Truncated] \in [head : Heads, tail : Tails]
        BY <4>1 DEF Tails
      <4> QED BY <4>1, <4>2, ChunkTyped
    <3>3. chunks' = [i \in DOMAIN firsts |-> Cut(firsts[i])]
      BY <2>5 DEF Compress
    <3> HIDE DEF firsts, Cut
    <3> QED BY <3>1, <3>2, <3>3
  <2> QED BY <2>1, <2>2, <2>3, <2>4, <2>5 DEF ContextNext
<1> QED BY <1>1, <1>2, <1>3 DEF Next

THEOREM ContextTyped == Spec => []ContextInv
<1>1. Init => ContextInv
  BY ContextInit
<1>2. IInv /\ ContextInv /\ [Next]_vars => ContextInv'
  BY ContextStep
<1> QED BY <1>1, <1>2, Inductive, PTL DEF Spec

(***************************************************************************)
(* ContextManager::budget_trim: what a trim leaves is the best there is of *)
(* what was there, within the budget, for any chunks, window and budget.   *)
(***************************************************************************)
THEOREM TrimsKeepTheBest == Spec => []TrimKeepsBest
<1>1. ContextInv => TrimKeepsBest
  <2> SUFFICES ASSUME ContextInv
               PROVE  \E K \in SUBSET DOMAIN chunks : KeepsBest(K)
    BY DEF TrimKeepsBest
  <2>1. PICK K : Best(chunks, K) /\ Settled(chunks, K) /\ Trimmed(chunks) = Selected(chunks, K)
    BY TrimmedKeeps DEF ContextInv
  <2>2. K \in SUBSET DOMAIN chunks
    BY <2>1 DEF Best
  <2>3. KeepsBest(K)
    BY <2>1, Zenon DEF KeepsBest, Best, Settled, Better
  <2> QED BY <2>2, <2>3
<1> QED BY <1>1, ContextTyped, PTL

-----------------------------------------------------------------------------
(* Retrieval                                                               *)

Hits == [chunk : Chunks, score : Nat]
Score(q, c) == Similar(q, c.content.head)

(* The n best of some chunks, best first.                                  *)
NBest(q, cs, n, top) ==
  /\ top \in Seq(Hits) /\ Len(top) = n
  /\ \A i, j \in 1..n : i < j => top[i].score >= top[j].score
  /\ \E hits \in kSubset(n, DOMAIN cs) :
       /\ {top[i].chunk : i \in 1..n} = {cs[i] : i \in hits}
       /\ \A i \in hits, j \in DOMAIN cs \ hits : Score(q, cs[i]) >= Score(q, cs[j])

HowMany(cs, k) == Min({Max({k, 1}), Len(cs)})

LEMMA Asked ==
  ASSUME NEW k \in Nat, NEW S, NEW cs \in Seq(S)
  PROVE  HowMany(cs, k) \in 0..Len(cs)
<1>1. Max({k, 1}) \in Nat
  <2> DEFINE P(x) == \A y \in {k, 1} : x >= y
  <2>1. \E x \in {k, 1} : P(x)
    <3>1. k >= 1 => P(k)
      OBVIOUS
    <3>2. ~(k >= 1) => P(1)
      OBVIOUS
    <3> HIDE DEF P
    <3> QED BY <3>1, <3>2
  <2>2. Max({k, 1}) = CHOOSE x \in {k, 1} : P(x)
    BY DEF Max
  <2> HIDE DEF P
  <2> QED BY <2>1, <2>2
<1> DEFINE a == Max({k, 1})
           b == Len(cs)
           P(x) == \A y \in {a, b} : x =< y
<1>2. a \in Nat /\ b \in Nat
  BY <1>1
<1> HIDE DEF a, b
<1>3. \E x \in {a, b} : P(x)
  <2>1. a <= b => P(a)
    BY <1>2
  <2>2. ~(a <= b) => P(b)
    BY <1>2
  <2> HIDE DEF P
  <2> QED BY <2>1, <2>2
<1>4. HowMany(cs, k) = CHOOSE x \in {a, b} : P(x)
  BY DEF HowMany, Min, a, b
<1> DEFINE m == CHOOSE x \in {a, b} : P(x)
<1>5. m \in {a, b} /\ P(m)
  <2> HIDE DEF P
  <2> QED BY <1>3
<1> HIDE DEF m
<1>6. m \in 0..b
  BY <1>2, <1>5
<1> QED BY <1>4, <1>6 DEF m, b

LEMMA RawRanks ==
  ASSUME NEW q \in Needles, NEW cs \in Seq(Chunks), NEW k \in Nat
  PROVE  NBest(q, cs, HowMany(cs, k), rank_raw(q, cs, k))
<1> DEFINE D == DOMAIN cs
           L == Len(cs)
           n == HowMany(cs, k)
           hits == [i \in D |-> Hit(q, cs[i])]
           score == [i \in D |-> Score(q, cs[i])]
           ahead == [i \in D |-> {j \in D : score[j] > score[i] \/ (j < i /\ score[j] = score[i])}]
           top == rank_raw(q, cs, k)
<1>1. D = 1..L /\ L \in Nat /\ n \in 0..L
  BY Asked
<1>2. IsFiniteSet(D) /\ Cardinality(D) = L
  <2> HIDE DEF L, D
  <2> QED BY <1>1, UpTo
<1>3. \A i \in D : /\ score[i] \in Nat /\ score[i] = Score(q, cs[i])
                   /\ hits[i] \in Hits /\ hits[i].score = score[i] /\ hits[i].chunk = cs[i]
  <2> SUFFICES ASSUME NEW i \in D
               PROVE  /\ score[i] \in Nat /\ score[i] = Score(q, cs[i])
                      /\ hits[i] \in Hits /\ hits[i].score = score[i] /\ hits[i].chunk = cs[i]
    OBVIOUS
  <2>1. cs[i] \in Chunks
    BY <1>1
  <2>2. Score(q, cs[i]) \in Nat
    BY <2>1, ContextWindowAssumption DEF Score, Chunks
  <2>3. hits[i] = [chunk |-> cs[i], score |-> Score(q, cs[i])]
    BY DEF Hit, Score
  <2> QED BY <2>1, <2>2, <2>3 DEF Hits
<1>4. top = SubSeq(Ordered(hits, ahead), 1, n)
  <2>1. DOMAIN hits = D
    OBVIOUS
  <2>2. ahead = [i \in DOMAIN hits |-> {j \in DOMAIN hits :
                    \/ hits[j].score > hits[i].score
                    \/ j < i /\ hits[j].score = hits[i].score}]
    <3> HIDE DEF hits, score, D
    <3> QED BY <1>3, <2>1
  <2> HIDE DEF ahead
  <2> QED BY <2>2 DEF rank_raw, HowMany
<1>5. DOMAIN ahead = D /\ \A i, j \in D : j \in ahead[i] <=>
                            score[j] > score[i] \/ (j < i /\ score[j] = score[i])
  OBVIOUS
<1>6. \A i \in D : ahead[i] \in SUBSET D /\ i \in Nat
  BY <1>1
<1> HIDE DEF ahead, score, hits
<1>7. Ranking(ahead)
  <2>1. ASSUME NEW i \in D PROVE i \notin ahead[i]
    BY <1>3, <1>5, <1>6
  <2>2. ASSUME NEW i \in D, NEW j \in D, i # j PROVE j \in ahead[i] \/ i \in ahead[j]
    <3>1. i \in Nat /\ j \in Nat /\ score[i] \in Nat /\ score[j] \in Nat
      BY <1>3, <1>6
    <3> QED BY <3>1, <2>2, <1>5
  <2>3. ASSUME NEW i \in D, NEW j \in D, j \in ahead[i], NEW x \in ahead[j] PROVE x \in ahead[i]
    <3>1. x \in D
      BY <1>6
    <3>2. /\ i \in Nat /\ j \in Nat /\ x \in Nat
          /\ score[i] \in Nat /\ score[j] \in Nat /\ score[x] \in Nat
      BY <3>1, <1>3, <1>6
    <3>3. /\ score[j] > score[i] \/ (j < i /\ score[j] = score[i])
          /\ score[x] > score[j] \/ (x < j /\ score[x] = score[j])
      BY <3>1, <2>3, <1>5
    <3>4. score[x] > score[i] \/ (x < i /\ score[x] = score[i])
      BY <3>2, <3>3
    <3> QED BY <3>1, <3>4, <1>5
  <2> QED BY <2>1, <2>2, <2>3, <1>5, <1>6 DEF Ranking
<1>8. PICK p : Ranks(ahead, p) /\ Ordered(hits, ahead) = [i \in 1..L |-> hits[p[i]]]
  <2> HIDE DEF D, L
  <2> QED BY <1>2, <1>5, <1>7, OrderedPlaces
<1>9. /\ p \in [1..L -> D]
      /\ \A i \in D : Cardinality(ahead[i]) + 1 \in 1..L /\ p[Cardinality(ahead[i]) + 1] = i
      /\ \A i, j \in 1..L : p[i] \in ahead[p[j]] <=> i < j
  <2> HIDE DEF D, L
  <2> QED BY <1>2, <1>5, <1>8, Zenon DEF Ranks
<1> HIDE DEF L, D, n
<1>10. \A i \in 1..L : p[i] \in D /\ hits[p[i]] \in Hits
  BY <1>3, <1>9
<1>11. top \in Seq(Hits) /\ Len(top) = n /\ \A i \in 1..n : i \in 1..L /\ top[i] = hits[p[i]]
  <2> DEFINE s == Ordered(hits, ahead)
  <2>1. s \in Seq(Hits) /\ Len(s) = L /\ \A i \in 1..L : s[i] = hits[p[i]]
    BY <1>1, <1>8, <1>10
  <2> HIDE DEF s
  <2>2. /\ SubSeq(s, 1, n) \in Seq(Hits) /\ Len(SubSeq(s, 1, n)) = n
        /\ \A i \in 1..n : i \in 1..L /\ SubSeq(s, 1, n)[i] = s[i]
    BY <1>1, <2>1
  <2> QED BY <1>4, <2>1, <2>2 DEF s
<1>12. ASSUME NEW i \in 1..L, NEW j \in 1..L, i < j PROVE score[p[i]] >= score[p[j]]
  <2>1. p[i] \in D /\ p[j] \in D /\ p[i] \in ahead[p[j]]
    BY <1>9, <1>10, <1>12
  <2>2. score[p[i]] > score[p[j]] \/ score[p[i]] = score[p[j]]
    BY <2>1, <1>5
  <2>3. score[p[i]] \in Nat /\ score[p[j]] \in Nat
    BY <2>1, <1>3
  <2> QED BY <2>2, <2>3
<1>13. \A i, j \in 1..n : i < j => top[i].score >= top[j].score
  BY <1>3, <1>10, <1>11, <1>12
<1> HIDE DEF top
<1> DEFINE H == {p[i] : i \in 1..n}
<1>14. H \in kSubset(n, D)
  <2>1. H \in SUBSET D
    BY <1>10, <1>11
  <2> DEFINE f == [i \in 1..n |-> p[i]]
  <2>2. ASSUME NEW i \in 1..n, NEW j \in 1..n, p[i] = p[j] PROVE i = j
    <3>1. i \in 1..L /\ j \in 1..L /\ i \in Nat /\ j \in Nat
      BY <1>1, <1>11
    <3>2. i < j => p[i] \in ahead[p[i]]
      BY <3>1, <2>2, <1>9
    <3>3. j < i => p[i] \in ahead[p[i]]
      BY <3>1, <2>2, <1>9
    <3>4. p[i] \notin ahead[p[i]]
      BY <3>1, <1>5, <1>7, <1>10 DEF Ranking
    <3> QED BY <3>1, <3>2, <3>3, <3>4
  <2>3. f \in [1..n -> H] /\ IsInjective(f)
    BY <2>2 DEF IsInjective
  <2>4. \A x \in H : \E i \in 1..n : f[i] = x
    OBVIOUS
  <2> HIDE DEF f, H
  <2>5. f \in Bijection(1..n, H)
    BY <2>3, <2>4 DEF Bijection, Injection, Surjection
  <2>6. n \in Nat
    BY <1>1
  <2>7. Cardinality(H) = n
    BY <2>5, <2>6, UpTo, FS_Bijection DEF ExistsBijection
  <2> QED BY <2>1, <2>7 DEF kSubset
<1>15. {top[i].chunk : i \in 1..n} = {cs[i] : i \in H}
  <2>1. \A i \in 1..n : top[i].chunk = cs[p[i]]
    BY <1>3, <1>10, <1>11
  <2> QED BY <2>1
<1>16. ASSUME NEW i \in H, NEW j \in D \ H PROVE Score(q, cs[i]) >= Score(q, cs[j])
  <2>1. PICK a \in 1..n : p[a] = i
    OBVIOUS
  <2>2. PICK b \in 1..L : p[b] = j
    BY <1>9
  <2>3. a \in 1..L /\ a < b
    <3>1. b \notin 1..n
      BY <2>2
    <3> QED BY <3>1, <2>1, <2>2, <1>1, <1>11
  <2>4. score[i] >= score[j]
    BY <2>1, <2>2, <2>3, <1>12
  <2>5. i \in D /\ j \in D
    BY <2>1, <2>3, <1>10
  <2> QED BY <2>4, <2>5, <1>3
<1> HIDE DEF H
<1>17. NBest(q, cs, n, top)
  <2>1. \A i \in H, j \in DOMAIN cs \ H : Score(q, cs[i]) >= Score(q, cs[j])
    BY <1>16 DEF D
  <2>2. H \in kSubset(n, DOMAIN cs)
    BY <1>14 DEF D
  <2> QED BY <1>11, <1>13, <1>15, <2>1, <2>2 DEF NBest
<1> QED BY <1>17 DEF n, top

(* The best, and behind them what the graph tells, without a score.        *)
Followed(top, n, related, found) ==
  /\ DOMAIN found = 1..Len(found) /\ Len(found) \in Nat /\ n <= Len(found)
  /\ \A i \in 1..n : found[i] = top[i]
  /\ \A i \in (n + 1)..Len(found) : found[i].score = 0
  /\ {found[i].chunk : i \in (n + 1)..Len(found)} = Range(related)

LEMMA RelatedAfter ==
  ASSUME NEW top \in Seq(Hits), NEW related \in Seq(Chunks)
  PROVE  Followed(top, Len(top), related,
                  top \o [i \in DOMAIN related |-> [chunk |-> related[i], score |-> 0]])
<1> DEFINE n == Len(top)
           found == top \o [i \in DOMAIN related |-> [chunk |-> related[i], score |-> 0]]
           m == Len(related)
           F(i) == [chunk |-> related[i], score |-> 0]
           rest == [i \in 1..m |-> F(i)]
<1>1. n \in Nat /\ m \in Nat /\ DOMAIN related = 1..m /\ \A i \in 1..m : related[i] \in Chunks
  OBVIOUS
<1>2. \A i \in 1..m : F(i) \in Hits /\ F(i).chunk = related[i] /\ F(i).score = 0
  BY <1>1 DEF Hits
<1>3. found = top \o rest
  BY <1>1
<1> HIDE DEF F, m, found
<1>4. rest \in Seq(Hits) /\ Len(rest) = m /\ \A i \in 1..m : rest[i] = F(i)
  BY <1>1, <1>2
<1> HIDE DEF rest
<1>5. /\ found \in Seq(Hits) /\ Len(found) = n + m
      /\ \A i \in 1..n : found[i] = top[i]
      /\ \A i \in 1..m : found[n + i] = rest[i]
      /\ \A i \in (n + 1)..(n + m) : i - n \in 1..m /\ found[i] = rest[i - n]
  <2>1. /\ top \o rest \in Seq(Hits) /\ Len(top \o rest) = Len(top) + Len(rest)
        /\ \A i \in 1..Len(top) : (top \o rest)[i] = top[i]
        /\ \A i \in 1..Len(rest) : (top \o rest)[Len(top) + i] = rest[i]
        /\ \A i \in (Len(top) + 1)..(Len(top) + Len(rest)) :
             i - Len(top) \in 1..Len(rest) /\ (top \o rest)[i] = rest[i - Len(top)]
    <3>1. top \in Seq(Hits) /\ rest \in Seq(Hits)
      BY <1>4
    <3> QED BY <3>1, Concat
  <2> QED BY <2>1, <1>3, <1>4
<1> HIDE DEF n
<1>6. \A i \in 1..m : n + i \in (n + 1)..(n + m)
  BY <1>1
<1>7. \A i \in (n + 1)..(n + m) : found[i].score = 0 /\ found[i].chunk \in Range(related)
  <2>1. \A i \in 1..m : related[i] \in Range(related)
    BY RangeAt DEF m
  <2> QED BY <2>1, <1>2, <1>4, <1>5
<1>8. \A c \in Range(related) : \E i \in (n + 1)..(n + m) : found[i].chunk = c
  <2> SUFFICES ASSUME NEW c \in Range(related)
               PROVE  \E i \in (n + 1)..(n + m) : found[i].chunk = c
    OBVIOUS
  <2>1. PICK i \in 1..m : related[i] = c
    BY RangeAt DEF m
  <2>2. n + i \in (n + 1)..(n + m) /\ found[n + i].chunk = c
    BY <2>1, <1>2, <1>4, <1>5, <1>6
  <2> QED BY <2>2
<1>9. DOMAIN found = 1..Len(found) /\ Len(found) \in Nat /\ n <= Len(found)
  BY <1>1, <1>5
<1>10. {found[i].chunk : i \in (n + 1)..(n + m)} = Range(related)
  BY <1>7, <1>8
<1>11. Followed(top, n, related, found)
  BY <1>5, <1>7, <1>9, <1>10 DEF Followed
<1> QED BY <1>11 DEF n, found

(* For any number of chunks asked for.                                     *)
LEMMA Retrieves ==
  ASSUME ContextInv, mirror \in Graphs, NEW q \in Needles, NEW k \in Nat
  PROVE  LET found == retrieve_with_ckg(q, chunks, k)
             n == HowMany(chunks, k)
         IN  /\ \A i, j \in DOMAIN found : i < j => found[i].score >= found[j].score
             /\ \E hits \in kSubset(n, DOMAIN chunks) :
                  /\ {found[i].chunk : i \in 1..n} = {chunks[i] : i \in hits}
                  /\ \A i \in hits, j \in DOMAIN chunks \ hits :
                       Score(q, chunks[i]) >= Score(q, chunks[j])
             /\ {Tells(found[i].chunk) : i \in (n + 1)..Len(found)} = Facts(mirror, q)
<1> DEFINE found == retrieve_with_ckg(q, chunks, k)
           n == HowMany(chunks, k)
           top == rank_raw(q, chunks, k)
           related == Neighbours(q)
           answer == query(mirror, q)
<1>1. chunks \in Seq(Chunks) /\ KnownRows
  BY DEF ContextInv
<1>2. n \in Nat
  <2>1. n \in 0..Len(chunks)
    BY <1>1, Asked
  <2> QED BY <2>1
<1>3. NBest(q, chunks, n, top)
  BY <1>1, RawRanks
<1>4. related \in Seq(Chunks)
  BY <1>1, NeighboursTyped
<1>5. found = top \o [i \in DOMAIN related |-> [chunk |-> related[i], score |-> 0]]
  BY DEF retrieve_with_ckg
<1>6. {Tells(c) : c \in Range(related)} = Facts(mirror, q)
  <2>1. Told(answer) = Facts(mirror, q)
    BY NeighbourhoodTells
  <2>2. related = [i \in DOMAIN answer |-> SymbolChunk(answer[i])]
    BY DEF Neighbours
  <2>3. \A r : Tells(SymbolChunk(r)) = <<r.symbol.name, r.relation>>
    BY DEF Tells, SymbolChunk, ContextChunk
  <2> HIDE DEF related, answer
  <2>4. Range(related) = {SymbolChunk(answer[i]) : i \in DOMAIN answer}
    BY <2>2 DEF Range
  <2>5. Range(answer) = {answer[i] : i \in DOMAIN answer}
    BY DEF Range
  <2>6. {Tells(c) : c \in Range(related)}
          = {<<answer[i].symbol.name, answer[i].relation>> : i \in DOMAIN answer}
    BY <2>3, <2>4
  <2>7. Told(answer) = {<<answer[i].symbol.name, answer[i].relation>> : i \in DOMAIN answer}
    BY <2>5 DEF Told
  <2> QED BY <2>1, <2>6, <2>7
<1> HIDE DEF found, n, top, related, answer
<1>7. /\ top \in Seq(Hits) /\ Len(top) = n
      /\ \A i, j \in 1..n : i < j => top[i].score >= top[j].score
  BY <1>3 DEF NBest
<1>8. PICK hits \in kSubset(n, DOMAIN chunks) :
        /\ {top[i].chunk : i \in 1..n} = {chunks[i] : i \in hits}
        /\ \A i \in hits, j \in DOMAIN chunks \ hits :
             Score(q, chunks[i]) >= Score(q, chunks[j])
  BY <1>3, Zenon DEF NBest
<1>9. /\ DOMAIN found = 1..Len(found) /\ Len(found) \in Nat /\ n <= Len(found)
      /\ \A i \in 1..n : found[i] = top[i]
      /\ \A i \in (n + 1)..Len(found) : found[i].score = 0
      /\ {found[i].chunk : i \in (n + 1)..Len(found)} = Range(related)
  <2>1. Followed(top, n, related, found)
    BY <1>2, <1>4, <1>5, <1>7, RelatedAfter
  <2> QED BY <2>1 DEF Followed
<1>10. ASSUME NEW i \in DOMAIN found, NEW j \in DOMAIN found, i < j
       PROVE  found[i].score >= found[j].score
  <2>1. i \in Nat /\ j \in Nat /\ i \in 1..Len(found) /\ j \in 1..Len(found)
    BY <1>9
  <2>2. \A x \in 1..n : top[x].score \in Nat
    <3>1. \A x \in 1..n : top[x] \in Hits
      BY <1>7
    <3> QED BY <3>1 DEF Hits
  <2>3. CASE j \in 1..n
    <3>1. i \in 1..n
      BY <2>1, <2>3, <1>10, <1>2
    <3> QED BY <3>1, <2>3, <1>7, <1>9, <1>10
  <2>4. CASE j \notin 1..n
    <3>1. j \in (n + 1)..Len(found)
      BY <2>1, <2>4, <1>2, <1>9
    <3>2. found[j].score = 0
      BY <3>1, <1>9
    <3>3. found[i].score \in Nat
      <4>1. CASE i \in 1..n
        BY <4>1, <2>2, <1>9
      <4>2. CASE i \notin 1..n
        <5>1. i \in (n + 1)..Len(found)
          BY <2>1, <4>2, <1>2, <1>9
        <5> QED BY <5>1, <1>9
      <4> QED BY <4>1, <4>2
    <3> QED BY <3>2, <3>3
  <2> QED BY <2>3, <2>4
<1>11. {found[i].chunk : i \in 1..n} = {chunks[i] : i \in hits}
  <2>1. {found[i].chunk : i \in 1..n} = {top[i].chunk : i \in 1..n}
    BY <1>9
  <2> QED BY <2>1, <1>8
<1>12. \E H \in kSubset(n, DOMAIN chunks) :
         /\ {found[i].chunk : i \in 1..n} = {chunks[i] : i \in H}
         /\ \A i \in H, j \in DOMAIN chunks \ H : Score(q, chunks[i]) >= Score(q, chunks[j])
  BY <1>8, <1>11, Zenon
<1>13. {Tells(found[i].chunk) : i \in (n + 1)..Len(found)} = Facts(mirror, q)
  <2>1. {Tells(found[i].chunk) : i \in (n + 1)..Len(found)}
          = {Tells(c) : c \in {found[i].chunk : i \in (n + 1)..Len(found)}}
    OBVIOUS
  <2> QED BY <2>1, <1>6, <1>9
<1> QED BY <1>10, <1>12, <1>13, Zenon DEF found, n

(***************************************************************************)
(* retrieve_with_ckg: the most similar chunks come back, best first and    *)
(* one at least where there is one, and every fact of the graph about the  *)
(* query behind them, for any chunks, measure of similarity and graph.     *)
(***************************************************************************)
THEOREM RetrievalsFindTheBest == Spec => []BestHitsAndAllNeighbours
<1>1. GraphTypeOK /\ ContextInv => BestHitsAndAllNeighbours
  <2> SUFFICES ASSUME GraphTypeOK, ContextInv, NEW q \in Needles, NEW k \in 0..2
               PROVE  LET found == retrieve_with_ckg(q, chunks, k)
                          score == [i \in DOMAIN chunks |-> Similar(q, chunks[i].content.head)]
                          n == Min({Max({k, 1}), Len(chunks)})
                      IN  /\ \A i, j \in DOMAIN found : i < j => found[i].score >= found[j].score
                          /\ \E hits \in kSubset(n, DOMAIN chunks) :
                               /\ {found[i].chunk : i \in 1..n} = {chunks[i] : i \in hits}
                               /\ \A i \in hits, j \in DOMAIN chunks \ hits : score[i] >= score[j]
                          /\ {Tells(found[i].chunk) : i \in (n + 1)..Len(found)}
                               = Facts(mirror, q)
    BY Zenon DEF BestHitsAndAllNeighbours
  <2> DEFINE found == retrieve_with_ckg(q, chunks, k)
             score == [i \in DOMAIN chunks |-> Similar(q, chunks[i].content.head)]
             n == Min({Max({k, 1}), Len(chunks)})
             Whole(H) == {found[i].chunk : i \in 1..n} = {chunks[i] : i \in H}
  <2>1. n = HowMany(chunks, k) /\ k \in Nat /\ mirror \in Graphs
    BY DEF HowMany, GraphTypeOK
  <2>2. /\ \A i, j \in DOMAIN found : i < j => found[i].score >= found[j].score
        /\ \E hits \in kSubset(n, DOMAIN chunks) :
             /\ {found[i].chunk : i \in 1..n} = {chunks[i] : i \in hits}
             /\ \A i \in hits, j \in DOMAIN chunks \ hits :
                  Score(q, chunks[i]) >= Score(q, chunks[j])
        /\ {Tells(found[i].chunk) : i \in (n + 1)..Len(found)} = Facts(mirror, q)
    <3> HIDE DEF found, n
    <3> QED BY <2>1, Retrieves DEF found
  <2>3. \A i \in DOMAIN chunks : score[i] = Score(q, chunks[i])
    BY DEF Score
  <2> HIDE DEF found, score, n
  <2>4. PICK H \in kSubset(n, DOMAIN chunks) :
          /\ Whole(H)
          /\ \A i \in H, j \in DOMAIN chunks \ H : Score(q, chunks[i]) >= Score(q, chunks[j])
    BY <2>2, Zenon
  <2>5. H \in SUBSET DOMAIN chunks
    BY DEF kSubset
  <2>6. \A i \in H, j \in DOMAIN chunks \ H : score[i] >= score[j]
    BY <2>3, <2>4, <2>5
  <2>7. \E hits \in kSubset(n, DOMAIN chunks) :
          /\ {found[i].chunk : i \in 1..n} = {chunks[i] : i \in hits}
          /\ \A i \in hits, j \in DOMAIN chunks \ hits : score[i] >= score[j]
    BY <2>4, <2>6, Zenon
  <2> QED BY <2>2, <2>7, Zenon DEF found, score, n
<1> QED BY <1>1, GraphTypeCorrect, ContextTyped, PTL

=============================================================================
