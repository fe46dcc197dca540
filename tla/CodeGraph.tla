----------------------------- MODULE CodeGraph -----------------------------
(***************************************************************************)
(* The code knowledge graph (ckg.rs): the neighbourhood query, and the     *)
(* store that keeps a mirror in memory and, row by row and best effort, a  *)
(* copy in PostgreSQL it loads again when it connects.  What the parser    *)
(* makes of a file (CodeParser) is a parameter.                            *)
(*                                                                         *)
(* External: a scan of a table returns its rows in the order they were     *)
(* inserted, restricted to the session's tenant once that is set.          *)
(***************************************************************************)
EXTENDS Naturals, Sequences, SequencesExt, FiniteSetsExt

CONSTANTS
  Sources,     \* what may be ingested
  Parsed,      \* the graph parse_source makes of each
  Needles,     \* what may be asked for
  Has(_, _),   \* a name contains a needle
  Order,       \* the names of files and symbols in their order
  Foreign,     \* rows of another tenant that may be in the tables
  Tasks,       \* ingest_file calls, as many as may be under way at once
  MaxIngests,  \* bound of the model: files ever ingested
  MaxRestarts, \* bound of the model: restarts of the store's process
  MaxRefused   \* bound of the model: inserts the database refuses

(* CodeSymbol, CodeEdge and the two vectors of a graph.                    *)
Symbols ==
  [kind : STRING, name : Range(Order), file : Range(Order), line : Nat, doc : Nat]
CodeEdges == [from : STRING, to : STRING, kind : STRING, file : STRING, line : Nat]
Graphs == [symbols : Seq(Symbols), edges : Seq(CodeEdges)]

ASSUME CodeGraphAssumption ==
  /\ Order \in Seq(STRING)
  /\ Parsed \in [Sources -> Graphs]
  /\ Foreign \in Graphs
  /\ MaxIngests \in Nat
  /\ MaxRestarts \in Nat
  /\ MaxRefused \in Nat

-----------------------------------------------------------------------------
(* Sequences                                                               *)

(* Entries of a sequence in an order: ahead[i] is the set of the places    *)
(* whose entries go ahead of that at place i.                              *)
Ordered(s, ahead) ==
  [k \in 1..Cardinality(DOMAIN ahead) |->
     s[CHOOSE i \in DOMAIN ahead : Cardinality(ahead[i]) = k - 1]]

(* The entries at the places in K, in the order they have.                 *)
Selected(s, K) == Ordered(s, [i \in K |-> {j \in K : j < i}])

-----------------------------------------------------------------------------
(* The graph in memory                                                     *)

NoGraph == [symbols |-> <<>>, edges |-> <<>>]

Extend(g, h) == [symbols |-> g.symbols \o h.symbols, edges |-> g.edges \o h.edges]

Named(g, name) == \E i \in DOMAIN g.symbols : g.symbols[i].name = name
symbol_by_name(g, name) ==
  g.symbols[CHOOSE i \in DOMAIN g.symbols :
              /\ g.symbols[i].name = name
              /\ \A j \in 1..(i - 1) : g.symbols[j].name # name]

Relevant == {"Calls", "Defines", "Contains"}

(* A seed with an edge leads to the symbol at the other end of the edge,   *)
(* if the graph has one of that name and it is another than the seed's.    *)
OtherEnd(p) == IF p.edge.from = p.seed THEN p.edge.to ELSE p.edge.from
Leads(g, p) ==
  /\ p.edge.kind \in Relevant
  /\ p.seed \in {p.edge.from, p.edge.to}
  /\ Named(g, OtherEnd(p))
  /\ OtherEnd(p) # p.seed

Rank == [x \in Range(Order) |-> CHOOSE i \in DOMAIN Order : Order[i] = x]
Before(r, s) ==
  \/ Rank[r.symbol.file] < Rank[s.symbol.file]
  \/ /\ r.symbol.file = s.symbol.file
     /\ \/ r.symbol.line < s.symbol.line
        \/ /\ r.symbol.line = s.symbol.line
           /\ Rank[r.symbol.name] < Rank[s.symbol.name]
SamePlace(r, s) == ~Before(r, s) /\ ~Before(s, r)

(* A stable sort, and the removal of repetitions that stand side by side.  *)
Sorted(found) ==
  Ordered(found, [i \in DOMAIN found |-> {j \in DOMAIN found :
                    \/ Before(found[j], found[i])
                    \/ j < i /\ ~Before(found[i], found[j])}])
Repeated_AnyRelation(found, i) == i > 1 /\ SamePlace(found[i - 1], found[i])
Repeated(found, i) ==
  /\ i > 1
  /\ SamePlace(found[i - 1], found[i])
  /\ found[i - 1].relation = found[i].relation
Dedup(found) == Selected(found, {i \in DOMAIN found : ~Repeated(found, i)})

query(g, needle) ==
  LET seeds == Selected(g.symbols, {i \in DOMAIN g.symbols : Has(g.symbols[i].name, needle)})
      edges == Len(g.edges)
      pairs == [i \in 1..(Len(seeds) * edges) |->
                  [seed |-> seeds[((i - 1) \div edges) + 1].name,
                   edge |-> g.edges[((i - 1) % edges) + 1]]]
      leading == Selected(pairs, {i \in DOMAIN pairs : Leads(g, pairs[i])})
  IN  Dedup(Sorted([i \in DOMAIN leading |->
        [symbol |-> symbol_by_name(g, OtherEnd(leading[i])),
         relation |-> leading[i].edge.kind]]))

-----------------------------------------------------------------------------
(* The store                                                               *)

VARIABLES
  store,    \* the process: down, loading symbols, loading edges, or up
  mirror,   \* the graph in memory
  client,   \* the store has a connection
  session,  \* whether the session is pinned to the tenant, or unset
  tables,   \* the rows of ckg_symbols and ckg_edges of the store's tenant
  others,   \* those of another tenant, in the tables before them
  rows,     \* what an ingest_file has still to insert
  ingests,  \* files ingested so far
  restarts, \* restarts so far
  refused,  \* inserts refused so far
  ingested, \* history: the graph of every file this tenant ever ingested
  lossless, \* history: no row or load ever failed, none was cut short
  unscoped  \* history: the database refused to pin a session

storeVars == <<store, client, session>>
boundVars == <<ingests, restarts, refused>>
graphVars == <<storeVars, mirror, tables, others, rows, boundVars, ingested, lossless, unscoped>>

GraphInit ==
  /\ store = "down"
  /\ mirror = NoGraph
  /\ client = FALSE
  /\ session = "unset"
  /\ tables = NoGraph
  /\ others \in {NoGraph, Foreign}
  /\ rows = [t \in Tasks |-> NoGraph]
  /\ ingests = 0 /\ restarts = 0 /\ refused = 0
  /\ ingested = NoGraph
  /\ lossless = TRUE
  /\ unscoped = FALSE

(* Connected, with the session pinned to the tenant or the pin refused and *)
(* ignored; or no database, and the mirror alone.                          *)
Connect_Unpinned ==
  /\ store = "down"
  /\ store' = "symbols"
  /\ client' = TRUE
  /\ UNCHANGED <<session, mirror, tables, others, rows, boundVars, ingested, lossless, unscoped>>
Connect ==
  /\ store = "down"
  /\ store' = "symbols"
  /\ client' = TRUE
  /\ \/ session' = "pinned" /\ UNCHANGED unscoped
     \/ session' = "unset" /\ unscoped' = TRUE
  /\ UNCHANGED <<mirror, tables, others, rows, boundVars, ingested, lossless>>

ConnectFails ==
  /\ store = "down"
  /\ store' = "up"
  /\ client' = FALSE
  /\ session' = "unset"
  /\ lossless' = FALSE
  /\ UNCHANGED <<mirror, tables, others, rows, boundVars, ingested, unscoped>>

(* The rows a query of the session sees: without a tenant, everyone's.     *)
Visible(table) ==
  IF session = "unset" THEN others[table] \o tables[table] ELSE tables[table]

LoadSymbols ==
  /\ store = "symbols"
  /\ store' = "edges"
  /\ mirror' = [mirror EXCEPT !.symbols = @ \o Visible("symbols")]
  /\ UNCHANGED <<client, session, tables, others, rows, boundVars, ingested, lossless, unscoped>>

LoadEdges_KindsUnknown ==
  /\ store = "edges"
  /\ store' = "up"
  /\ mirror' = [mirror EXCEPT !.edges = @ \o
       [i \in DOMAIN Visible("edges") |->
          [Visible("edges")[i] EXCEPT !.kind = IF @ = "Contains" THEN "Calls" ELSE @]]]
  /\ UNCHANGED <<client, session, tables, others, rows, boundVars, ingested, lossless, unscoped>>
LoadEdges ==
  /\ store = "edges"
  /\ store' = "up"
  /\ mirror' = [mirror EXCEPT !.edges = @ \o Visible("edges")]
  /\ UNCHANGED <<client, session, tables, others, rows, boundVars, ingested, lossless, unscoped>>

ReadUpTo(table) ==
  {SubSeq(Visible(table), 1, n) : n \in {0} \cup 0..(Len(Visible(table)) - 1)}

(* A query or a row fails: what was read so far stays, the rest is never   *)
(* read, and the store is used as it is.                                   *)
LoadFails ==
  /\ \/ /\ store = "symbols"
        /\ \E read \in ReadUpTo("symbols") :
             mirror' = [mirror EXCEPT !.symbols = @ \o read]
     \/ /\ store = "edges"
        /\ \E read \in ReadUpTo("edges") :
             mirror' = [mirror EXCEPT !.edges = @ \o read]
  /\ store' = "up"
  /\ lossless' = FALSE
  /\ UNCHANGED <<client, session, tables, others, rows, boundVars, ingested, unscoped>>

(* ingest_file: the mirror at once, the rows one by one after it.          *)
Ingest(t, src) ==
  /\ store = "up"
  /\ rows[t] = NoGraph
  /\ ingests < MaxIngests
  /\ ingests' = ingests + 1
  /\ mirror' = Extend(mirror, Parsed[src])
  /\ rows' = [rows EXCEPT ![t] = IF client THEN Parsed[src] ELSE NoGraph]
  /\ ingested' = Extend(ingested, Parsed[src])
  /\ UNCHANGED <<storeVars, tables, others, restarts, refused, lossless, unscoped>>

(* The next row of a task, under the store's tenant whatever the session:  *)
(* first its symbols, then its edges.                                      *)
NextRow(t, added) ==
  IF rows[t].symbols # <<>>
  THEN /\ rows' = [rows EXCEPT ![t].symbols = Tail(@)]
       /\ tables' = IF added
                    THEN [tables EXCEPT !.symbols = Append(@, Head(rows[t].symbols))]
                    ELSE tables
  ELSE /\ rows' = [rows EXCEPT ![t].edges = Tail(@)]
       /\ tables' = IF added
                    THEN [tables EXCEPT !.edges = Append(@, Head(rows[t].edges))]
                    ELSE tables

Insert(t) ==
  /\ rows[t] # NoGraph
  /\ NextRow(t, TRUE)
  /\ UNCHANGED <<storeVars, mirror, others, boundVars, ingested, lossless, unscoped>>

(* The database refuses a row, or is gone: logged, and on to the next.     *)
InsertFails(t) ==
  /\ rows[t] # NoGraph
  /\ refused < MaxRefused
  /\ refused' = refused + 1
  /\ NextRow(t, FALSE)
  /\ lossless' = FALSE
  /\ UNCHANGED <<storeVars, mirror, others, ingests, restarts, ingested, unscoped>>

(* The process ends, wherever it is, and is started again.                 *)
Restart ==
  /\ store # "down"
  /\ restarts < MaxRestarts
  /\ restarts' = restarts + 1
  /\ store' = "down"
  /\ mirror' = NoGraph
  /\ client' = FALSE
  /\ session' = "unset"
  /\ rows' = [t \in Tasks |-> NoGraph]
  /\ lossless' = (lossless /\ rows = [t \in Tasks |-> NoGraph])
  /\ UNCHANGED <<tables, others, ingests, refused, ingested, unscoped>>

GraphNext ==
  \/ Connect \/ ConnectFails
  \/ LoadSymbols \/ LoadEdges \/ LoadFails
  \/ \E t \in Tasks : \/ \E src \in Sources : Ingest(t, src)
                      \/ Insert(t) \/ InsertFails(t)
  \/ Restart

-----------------------------------------------------------------------------
(* Correctness                                                             *)

(* An edge of a relevant kind joins, in either direction, a symbol that    *)
(* has the needle and another name.                                        *)
Joins(g, needle, name, e) ==
  /\ e.kind \in Relevant
  /\ \E s \in Range(g.symbols) : /\ Has(s.name, needle)
                                 /\ s.name # name
                                 /\ {e.from, e.to} = {s.name, name}

Names(g) == {s.name : s \in Range(g.symbols)}
Joined(g, needle) ==
  {p \in Names(g) \X Range(g.edges) : Joins(g, needle, p[1], p[2])}

(* What there is to tell of a needle: the names an edge joins to it, each  *)
(* with the relation; and what an answer tells.                            *)
Facts(g, needle) == {<<p[1], p[2].kind>> : p \in Joined(g, needle)}
Told(answer) == {<<r.symbol.name, r.relation>> : r \in Range(answer)}

(* A query tells every fact of the graph about the needle and nothing      *)
(* else, of symbols the graph has and in the order of files and lines,     *)
(* whatever was loaded or ingested, however often and in whatever order    *)
(* (InMemoryCkg::query).  Where several symbols have one name, it does not *)
(* say which of them is told: see EveryFileContributes.                    *)
AnswersMatchGraph ==
  \A needle \in Needles :
    LET answer == query(mirror, needle)
    IN  /\ Told(answer) = Facts(mirror, needle)
        /\ \A r \in Range(answer) : r.symbol \in Range(mirror.symbols)
        /\ \A i, j \in DOMAIN answer : i < j => ~Before(answer[j], answer[i])

(* The part of a graph that one file is the source of.                     *)
PartOf(g, file) ==
  [symbols |-> Selected(g.symbols, {i \in DOMAIN g.symbols : g.symbols[i].file = file}),
   edges |-> Selected(g.edges, {i \in DOMAIN g.edges : g.edges[i].file = file})]

(* What the test query_groups_by_file_and_dedups expects: a file that has  *)
(* a fact about the needle to tell by itself has a symbol in the answer,   *)
(* also when other files define the same names ("Both files contribute").  *)
EveryFileContributes ==
  \A needle \in Needles, file \in {s.file : s \in Range(mirror.symbols)} :
    Facts(PartOf(mirror, file), needle) # {} =>
      \E r \in Range(query(mirror, needle)) : r.symbol.file = file

(* No answer tells a relation that no file of this tenant has: rows lost   *)
(* on the way, a load that stops half way and files that are read again    *)
(* only ever take relations away (PgCkgStore::connect, load).  Where the   *)
(* database refused to pin the session, the rows of others are read too.   *)
OnlyOwnCode ==
  ~unscoped =>
    \A needle \in Needles : Facts(mirror, needle) \subseteq Facts(ingested, needle)

(* As long as nothing failed and no ingest was cut short, a store that is  *)
(* up answers, after any number of restarts, with every relation of every  *)
(* file ever ingested (PgCkgStore::ingest_file, load).                     *)
NothingForgotten ==
  (store = "up" /\ lossless) =>
    \A needle \in Needles : Facts(ingested, needle) \subseteq Facts(mirror, needle)

=============================================================================
