-------------------------- MODULE MCContextWindow --------------------------
(***************************************************************************)
(* The instance of ContextWindow for TLC: a type with a trait and a method *)
(* in one file, the trait and a caller of the method in another, and a new *)
(* version of the first file that defines a function of the second once    *)
(* more, on the line the type stood on.  Another tenant may have left a    *)
(* call in the tables.  Or else, one text in two files and nothing more.   *)
(***************************************************************************)
EXTENDS ContextWindow, CodeParser, TLC

MCSources ==
  {[file |-> "a.rs", lines |-> <<
      <<"impl", "Animal", "for", "Dog", "{">>, <<"///", "says", "so">>,
      <<"fn", "bark", "(", ")", "{">>, <<"if", "(", "wag", "(", ")", ")", "{", "}">>>>],
   [file |-> "a.rs", lines |-> <<
      <<"fn", "wag", "(", ")", "{">>, <<"bark", "(", ")", ";">>>>],
   [file |-> "b.rs", lines |-> <<
      <<"use", "a", "::", "{", "Dog", ",", "bark", "}", ";">>,
      <<"trait", "Animal", "{", "fn", "wag", "(", ")", ";", "}">>,
      <<"fn", "wag", "(", ")", "{">>, <<"bark", "(", ")", ";">>>>]}

MCParsed == [src \in MCSources |-> parse_source(src)]

(* One text in two files, as in query_groups_by_file_and_dedups.           *)
MCTwins ==
  {[file |-> f, lines |-> <<
      <<"///", "retries">>, <<"fn", "retry", "(", ")", "{", "}">>,
      <<"fn", "process", "(", ")", "{">>, <<"retry", "(", ")", ";">>,
      <<"let", "_", "=", "compute", "(", "1", ")", ";">>, <<"}">>,
      <<"fn", "compute", "(", "x", ":", "i32", ")", "{", "x", "}">>>>] : f \in {"a.rs", "z.rs"}}
MCParsedTwins == [src \in MCTwins |-> parse_source(src)]

MCOrder == <<"Animal", "a.rs", "b.rs", "bark", "compute", "impl Dog", "process", "retry",
             "wag", "z.rs">>

MCHas(name, needle) ==
  \/ needle = name
  \/ needle = "Dog" /\ name = "impl Dog"
  \/ needle = "a" /\ name \in {"bark", "wag", "Animal"}

MCForeign ==
  [symbols |-> <<[kind |-> "Fn", name |-> "wag", file |-> "a.rs", line |-> 9, doc |-> 0]>>,
   edges |-> <<[from |-> "wag", to |-> "Animal", kind |-> "Calls", file |-> "a.rs", line |-> 9]>>]

Chunk(uri, priority, head, tail) ==
  [source |-> "OpenFile", uri |-> uri, priority |-> priority,
   content |-> [head |-> <<head>>, tail |-> tail]]
MCGathered ==
  {Chunk("short", "Low", "goal", ""), Chunk("short", "High", "goal", ""),
   Chunk("long", "Low", "text", "end"), Chunk("other", "High", "text", "rest")}

MCSimilar(q, head) ==
  IF head = <<"goal">> THEN 2
  ELSE IF head = <<"text">> /\ q = "wag" THEN 3
  ELSE IF head = <<"text">> THEN 1 ELSE 0

(* The context has no part in what the store does: it is explored on the   *)
(* graphs of one life of a store without a database.  Two ingests insert   *)
(* their rows at once only into tables of one tenant, while every row is   *)
(* taken: what a lost or a foreign row does depends on the row alone.  No  *)
(* step leaves this scope.                                                 *)
OneTenant == others = NoGraph
Alone == {t \in Tasks : rows[t] # NoGraph} # Tasks
Scope ==
  /\ \/ pushes = 0 /\ added = 0
     \/ restarts = 0 /\ ~client /\ tables = NoGraph /\ OneTenant
  /\ Alone \/ (refused = 0 /\ ~unscoped /\ OneTenant)

ScopedNext ==
  \/ GraphNext /\ UNCHANGED ctxVars /\ Scope'
  \/ ContextNext /\ UNCHANGED graphVars /\ Scope'
ScopedSpec == Init /\ [][ScopedNext]_vars

TasksAlike == Permutations(Tasks)

=============================================================================
