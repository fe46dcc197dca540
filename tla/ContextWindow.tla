--------------------------- MODULE ContextWindow ---------------------------
(***************************************************************************)
(* The context handed to the model (context_manager.rs) and the retrieval  *)
(* over it (retrieval.rs): a rolling window of observations, chunks with a *)
(* priority under a budget of tokens, and the neighbours the code graph    *)
(* adds to both.  The callers, ReAct planner and chat, call add_chunk,     *)
(* push and budget_trim; all operations may come in any order here.        *)
(*                                                                         *)
(* A text is its first CAP bytes (head) and what follows them (tail, empty *)
(* for a short text); bytes that are cut off end on a character here.  The *)
(* feature hashing behind the similarity of two texts is a parameter.      *)
(***************************************************************************)
EXTENDS CodeGraph

CONSTANTS
  Gathered,     \* chunks the callers add
  Similar(_, _), \* the similarity of a query and a head, none below zero
  MaxItems,     \* observations the window keeps
  Budget,       \* the budget of tokens
  MaxPushes,    \* bound of the model: observations pushed
  MaxChunks     \* bound of the model: chunks added

Priority == [Low |-> 0, Medium |-> 1, High |-> 2]

Truncated == "[truncated]"

(* The texts the callers add and those the graph's symbols make, and what  *)
(* a chunk of them is.                                                     *)
KnownSymbols == Range(Foreign.symbols) \cup UNION {Range(Parsed[src].symbols) : src \in Sources}
Heads == {c.content.head : c \in Gathered} \cup
         {<<s.kind, s.name, relation, s.line>> : s \in KnownSymbols, relation \in Relevant}
Tails == {c.content.tail : c \in Gathered} \cup {"", Truncated}
Chunks == [source : {c.source : c \in Gathered} \cup {"Symbol"},
           uri : {c.uri : c \in Gathered} \cup Range(Order),
           content : [head : Heads, tail : Tails],
           priority : DOMAIN Priority, token_est : 1..3]

ASSUME ContextWindowAssumption ==
  /\ \A c \in Gathered : /\ c.content \in [head : Heads, tail : Tails]
                          /\ c.priority \in DOMAIN Priority
  /\ \A q \in Needles, head \in Heads : Similar(q, head) \in Nat
  /\ MaxItems \in Nat
  /\ Budget \in Nat
  /\ MaxPushes \in Nat
  /\ MaxChunks \in Nat

VARIABLES
  window, \* the tokens of the observations, oldest first
  chunks, \* the chunks, in the order they were added
  pushes, \* observations pushed so far
  added   \* chunks added so far

ctxVars == <<window, chunks, pushes, added>>
vars == <<graphVars, ctxVars>>

-----------------------------------------------------------------------------
(* Chunks                                                                  *)

Pri(c) == Priority[c.priority]

estimate_tokens(content) ==
  CASE content.tail = "" -> 1 [] content.tail = Truncated -> 2 [] OTHER -> 3

ContextChunk(source, uri, content, priority) ==
  [source |-> source, uri |-> uri, content |-> content, priority |-> priority,
   token_est |-> estimate_tokens(content)]

(* A neighbour the graph found, as a chunk.                                *)
SymbolChunk(r) ==
  ContextChunk("Symbol", r.symbol.file,
    [head |-> <<r.symbol.kind, r.symbol.name, r.relation, r.symbol.line>>, tail |-> ""],
    "Medium")
Neighbours(needle) ==
  LET found == query(mirror, needle)
  IN  [i \in DOMAIN found |-> SymbolChunk(found[i])]

Limit == Max({Budget, 1})
total_tokens(cs) ==
  FoldLeft(+, 0, window) + FoldLeft(+, 0, [i \in DOMAIN cs |-> cs[i].token_est])
OverBudget(cs) == total_tokens(cs) > Limit

-----------------------------------------------------------------------------
(* budget_trim                                                             *)

(* The first chunk of the lowest priority.                                 *)
Worst_Latest(cs) ==
  CHOOSE i \in DOMAIN cs : \A j \in DOMAIN cs :
    Pri(cs[i]) < Pri(cs[j]) \/ (Pri(cs[i]) = Pri(cs[j]) /\ i >= j)
Worst(cs) ==
  CHOOSE i \in DOMAIN cs : \A j \in DOMAIN cs :
    Pri(cs[i]) < Pri(cs[j]) \/ (Pri(cs[i]) = Pri(cs[j]) /\ i <= j)

TrimOnce(cs) ==
  IF OverBudget(cs) /\ cs # <<>> /\ cs[Worst(cs)].priority # "High"
  THEN RemoveAt(cs, Worst(cs))
  ELSE cs
Trimmed(cs) ==
  LET after[n \in 0..Len(cs)] == IF n = 0 THEN cs ELSE TrimOnce(after[n - 1])
  IN  after[Len(cs)]

-----------------------------------------------------------------------------
(* Retrieval                                                               *)

Hit(q, c) == [chunk |-> c, score |-> Similar(q, c.content.head)]
rank_raw(q, corpus, k) ==
  LET hits == [i \in DOMAIN corpus |-> Hit(q, corpus[i])]
      best == Ordered(hits, [i \in DOMAIN hits |-> {j \in DOMAIN hits :
                                \/ hits[j].score > hits[i].score
                                \/ j < i /\ hits[j].score = hits[i].score}])
  IN  SubSeq(best, 1, Min({Max({k, 1}), Len(corpus)}))

retrieve_with_ckg_WithinK(q, corpus, k) ==
  LET related == Neighbours(q)
      found == rank_raw(q, corpus, k) \o
               [i \in DOMAIN related |-> [chunk |-> related[i], score |-> 0]]
  IN  SubSeq(found, 1, Min({Max({k, 1}), Len(found)}))
retrieve_with_ckg(q, corpus, k) ==
  LET related == Neighbours(q)
  IN  rank_raw(q, corpus, k) \o
      [i \in DOMAIN related |-> [chunk |-> related[i], score |-> 0]]

-----------------------------------------------------------------------------
(* Operations                                                              *)

Init ==
  /\ GraphInit
  /\ window = <<>>
  /\ chunks = <<>>
  /\ pushes = 0
  /\ added = 0

Push(tokens) ==
  /\ pushes < MaxPushes
  /\ pushes' = pushes + 1
  /\ window' = Append(IF Len(window) = Max({MaxItems, 1}) THEN Tail(window) ELSE window,
                      tokens)
  /\ UNCHANGED <<chunks, added>>

AddChunk(c) ==
  /\ added < MaxChunks
  /\ added' = added + 1
  /\ chunks' = Append(chunks, ContextChunk(c.source, c.uri, c.content, c.priority))
  /\ UNCHANGED <<window, pushes>>

EnrichFromCkg(needle) ==
  /\ store = "up"
  /\ added < MaxChunks
  /\ added' = added + 1
  /\ chunks' = chunks \o Neighbours(needle)
  /\ UNCHANGED <<window, pushes>>

BudgetTrim ==
  /\ chunks' = Trimmed(chunks)
  /\ UNCHANGED <<window, pushes, added>>

(* Of equal texts the first stays, whatever the priorities; then long ones *)
(* are cut, which may make two of them equal.                              *)
Compress ==
  LET firsts == Selected(chunks, {i \in DOMAIN chunks :
                  \A j \in 1..(i - 1) : chunks[j].content # chunks[i].content})
      Cut(c) == IF c.content.tail = "" THEN c
                ELSE ContextChunk(c.source, c.uri,
                       [c.content EXCEPT !.tail = Truncated], c.priority)
  IN  /\ chunks' = [i \in DOMAIN firsts |-> Cut(firsts[i])]
      /\ UNCHANGED <<window, pushes, added>>

ContextNext ==
  \/ \E tokens \in {1, 3} : Push(tokens)
  \/ \E c \in Gathered : AddChunk(c)
  \/ \E needle \in Needles : EnrichFromCkg(needle)
  \/ BudgetTrim
  \/ Compress

Next ==
  \/ GraphNext /\ UNCHANGED ctxVars
  \/ ContextNext /\ UNCHANGED graphVars

Spec == Init /\ [][Next]_vars

-----------------------------------------------------------------------------
(* Correctness                                                             *)

(* What a trim leaves are the chunks at some places K: nothing of high     *)
(* priority is gone, nothing kept ranks below something gone or is older   *)
(* at the same rank, the budget is met unless only high ones are left, and *)
(* putting back the best that is gone would break it                       *)
(* (ContextManager::budget_trim).                                          *)
KeepsBest(K) ==
  LET gone == DOMAIN chunks \ K
      Better(i, j) == Pri(chunks[i]) > Pri(chunks[j])
                      \/ (Pri(chunks[i]) = Pri(chunks[j]) /\ i > j)
  IN  /\ \A i \in gone : chunks[i].priority # "High" /\ \A j \in K : Better(j, i)
      /\ Trimmed(chunks) = Selected(chunks, K)
      /\ OverBudget(Selected(chunks, K)) => \A i \in K : chunks[i].priority = "High"
      /\ \A i \in gone : (\A j \in gone : i = j \/ Better(i, j)) =>
                            OverBudget(Selected(chunks, K \cup {i}))

(* Whatever was pushed, added, cut or trimmed before, a trim now would     *)
(* keep the best, also when that is to drop nothing.                       *)
TrimKeepsBest == \E K \in SUBSET DOMAIN chunks : KeepsBest(K)

(* What a chunk made of a symbol tells.                                    *)
Tells(c) == <<c.content.head[2], c.content.head[3]>>

(* A retrieval never leaves out a chunk that is more similar than one it   *)
(* returns, returns one at least where there is one, and has every fact of *)
(* the graph about the query behind the chunks, however few are asked for  *)
(* (retrieve_with_ckg).                                                    *)
BestHitsAndAllNeighbours ==
  \A q \in Needles :
    LET score == [i \in DOMAIN chunks |-> Similar(q, chunks[i].content.head)]
    IN  \A k \in 0..2 :
          LET found == retrieve_with_ckg(q, chunks, k)
              n == Min({Max({k, 1}), Len(chunks)})
          IN  /\ \A i, j \in DOMAIN found : i < j => found[i].score >= found[j].score
              /\ \E hits \in kSubset(n, DOMAIN chunks) :
                   /\ {found[i].chunk : i \in 1..n} = {chunks[i] : i \in hits}
                   /\ \A i \in hits, j \in DOMAIN chunks \ hits : score[i] >= score[j]
              /\ {Tells(found[i].chunk) : i \in (n + 1)..Len(found)} = Facts(mirror, q)

=============================================================================
