--------------------------------- MODULE Nes ---------------------------------
(***************************************************************************)
(* The completion service of the editor (NesClient of ollama.rs).  Many    *)
(* calls run at once, each in a task of its own: a call looks its prefix   *)
(* and language up in the cache under one lock, asks the model with a      *)
(* timeout, retries with a growing backoff, and in the end puts the        *)
(* model's answer in the cache, under the lock again, or degrades to the   *)
(* rules.  Between the two locks the other calls go on.                    *)
(***************************************************************************)
EXTENDS Integers, Sequences, FiniteSets

CONSTANTS
  Calls,       \* identities of the calls
  Keys,        \* a prefix with its language: what the cache is keyed by
  Suffixes,    \* the texts behind the cursor
  Capacity,    \* OllamaConfig::cache_capacity
  MaxRetries,  \* OllamaConfig::max_retries
  BackoffBase, \* OllamaConfig::backoff_base_ms
  BackoffMax,  \* OllamaConfig::backoff_max_ms
  Timeout,     \* OllamaConfig::timeout
  Durations,   \* what a request may take, in ms
  Horizon      \* bound of the model: where the stopwatch of a call stops

MinOf(a, b) == IF a < b THEN a ELSE b
MaxOf(a, b) == IF a < b THEN b ELSE a

(***************************************************************************)
(* compute_backoff_ms, with 1 << n.  The product saturates at 2^64 - 1,    *)
(* which no BackoffMax exceeds, so that only the cap on the shift is to be *)
(* seen.                                                                   *)
(***************************************************************************)
OneShifted[n \in Nat] == IF n = 0 THEN 1 ELSE 2 * OneShifted[n - 1]
BackoffMs_Uncapped(n) == BackoffBase * OneShifted[MinOf(n, 30)]
BackoffMs(n) == MinOf(BackoffBase * OneShifted[MinOf(n, 30)], BackoffMax)

ASSUME NesAssumption ==
  /\ Capacity \in Nat
  /\ MaxRetries \in Nat
  /\ BackoffBase \in Nat
  /\ BackoffMax \in Nat
  /\ Timeout \in Nat
  /\ Durations \subseteq 0..Timeout
  /\ Horizon \in Nat

(* What a caller asks for.                                                 *)
Contexts == [key : Keys, suffix : Suffixes]

(* An answer is told by who produced it, and for which context.            *)
Answers == [by : {"nobody", "model", "rule"}, context : Contexts]
NoAnswer(ctx) == [by |-> "nobody", context |-> ctx]

VARIABLES
  pc,       \* where each call is
  ask,      \* what it asks for
  attempt,  \* the retries it has made
  elapsed,  \* history: what it has spent in requests and backoffs, in ms
  answer,   \* what it returned
  hit,      \* history: whether the cache answered it
  order,    \* CompletionCache.order
  map,      \* CompletionCache.map
  fills,    \* history: how many times a new key went into the cache
  filledAt  \* history: which of them was the last of each key, 0 for none

cache == <<order, map, fills, filledAt>>
vars == <<pc, ask, attempt, elapsed, answer, hit, order, map, fills, filledAt>>

Init ==
  /\ pc = [c \in Calls |-> "idle"]
  /\ ask \in [Calls -> Contexts]
  /\ attempt = [c \in Calls |-> 0]
  /\ elapsed = [c \in Calls |-> 0]
  /\ answer = [c \in Calls |-> NoAnswer(ask[c])]
  /\ hit = [c \in Calls |-> FALSE]
  /\ order = <<>>
  /\ map = << >>
  /\ fills = 0
  /\ filledAt = [k \in Keys |-> 0]

-----------------------------------------------------------------------------
(* CompletionCache                                                         *)

Cached(k) == k \in DOMAIN map

(* CompletionCache::new never takes a capacity of zero.                    *)
Limit == MaxOf(Capacity, 1)

Full == Len(order) >= Limit

(* The map without the evicted keys and with value under k.                *)
Stored(evicted, k, value) ==
  [x \in (DOMAIN map \ evicted) \cup {k} |-> IF x = k THEN value ELSE map[x]]

(* insert on a key the cache holds: the value is refreshed in place.       *)
Refresh_Requeues(k, value) ==
  /\ Cached(k)
  /\ map' = Stored({}, k, value)
  /\ order' = Append(order, k)
  /\ UNCHANGED <<fills, filledAt>>
Refresh(k, value) ==
  /\ Cached(k)
  /\ map' = Stored({}, k, value)
  /\ UNCHANGED <<order, fills, filledAt>>

(* insert on a new key, the oldest making room for it when there is none.  *)
Fill(k, value) ==
  /\ ~Cached(k)
  /\ order' = Append(IF Full THEN Tail(order) ELSE order, k)
  /\ map' = Stored(IF Full THEN {order[1]} ELSE {}, k, value)
  /\ fills' = fills + 1
  /\ filledAt' = [filledAt EXCEPT ![k] = fills + 1]

Insert(k, value) == Refresh(k, value) \/ Fill(k, value)

-----------------------------------------------------------------------------
(* NesClient::complete                                                     *)

(* The model's or the rules' answer to what the call asked for.            *)
AnswerBy(who, c) == [by |-> who, context |-> ask[c]]

Returns(c, result) ==
  /\ pc' = [pc EXCEPT ![c] = "done"]
  /\ answer' = [answer EXCEPT ![c] = result]

(* The stopwatch of a call.                                                *)
Spends(c, ms) == elapsed' = [elapsed EXCEPT ![c] = MinOf(@ + ms, Horizon)]

(* The lookup finds the prefix and language, whatever the suffix.          *)
Hit(c) ==
  /\ pc[c] = "idle"
  /\ Cached(ask[c].key)
  /\ Returns(c, map[ask[c].key])
  /\ hit' = [hit EXCEPT ![c] = TRUE]
  /\ UNCHANGED <<ask, attempt, elapsed, cache>>

Miss(c) ==
  /\ pc[c] = "idle"
  /\ ~Cached(ask[c].key)
  /\ pc' = [pc EXCEPT ![c] = "request"]
  /\ UNCHANGED <<ask, attempt, elapsed, answer, hit, cache>>

(* The model answers, and its answer is cached.                            *)
Answered(c) ==
  /\ pc[c] = "request"
  /\ \E ms \in Durations : Spends(c, ms)
  /\ Insert(ask[c].key, AnswerBy("model", c))
  /\ Returns(c, AnswerBy("model", c))
  /\ UNCHANGED <<ask, attempt, hit>>

ShouldRetry(n) == n < MaxRetries

(* The request fails or times out, and another try is allowed.             *)
Fails(c) ==
  /\ pc[c] = "request"
  /\ ShouldRetry(attempt[c])
  /\ \E ms \in Durations : Spends(c, ms)
  /\ pc' = [pc EXCEPT ![c] = "backoff"]
  /\ UNCHANGED <<ask, attempt, answer, hit, cache>>

(* The next attempt starts after the backoff of the failed one.            *)
Wake_AsksAgain(c) ==
  /\ pc[c] = "backoff"
  /\ ShouldRetry(attempt[c] + 1)
  /\ Spends(c, BackoffMs(attempt[c]))
  /\ attempt' = [attempt EXCEPT ![c] = @ + 1]
  /\ pc' = [pc EXCEPT ![c] = "request"]
  /\ UNCHANGED <<ask, answer, hit, cache>>
Wake(c) ==
  /\ pc[c] = "backoff"
  /\ Spends(c, BackoffMs(attempt[c]))
  /\ attempt' = [attempt EXCEPT ![c] = @ + 1]
  /\ pc' = [pc EXCEPT ![c] = "request"]
  /\ UNCHANGED <<ask, answer, hit, cache>>

Degrade_AndCache(c) ==
  /\ pc[c] = "request"
  /\ ~ShouldRetry(attempt[c])
  /\ \E ms \in Durations : Spends(c, ms)
  /\ Insert(ask[c].key, AnswerBy("rule", c))
  /\ Returns(c, AnswerBy("rule", c))
  /\ UNCHANGED <<ask, attempt, hit>>
Degrade(c) ==
  /\ pc[c] = "request"
  /\ ~ShouldRetry(attempt[c])
  /\ \E ms \in Durations : Spends(c, ms)
  /\ Returns(c, AnswerBy("rule", c))
  /\ UNCHANGED <<ask, attempt, hit, cache>>

(* The caller goes away: the future of the call is dropped at its await.   *)
Drop(c) ==
  /\ pc[c] \in {"request", "backoff"}
  /\ pc' = [pc EXCEPT ![c] = "dropped"]
  /\ UNCHANGED <<ask, attempt, elapsed, answer, hit, cache>>

Begin(c) == Hit(c) \/ Miss(c)
Resume(c) == Answered(c) \/ Fails(c) \/ Wake(c) \/ Degrade(c)

Next == \E c \in Calls : Begin(c) \/ Resume(c) \/ Drop(c)

(***************************************************************************)
(* A call that has begun is polled until it returns: each request ends at  *)
(* its timeout at the latest and each backoff is a timer.                  *)
(***************************************************************************)
Spec == Init /\ [][Next]_vars /\ \A c \in Calls : WF_vars(Resume(c))

-----------------------------------------------------------------------------
(* Properties                                                              *)

TypeOK ==
  /\ pc \in [Calls -> {"idle", "request", "backoff", "done", "dropped"}]
  /\ ask \in [Calls -> Contexts]
  /\ attempt \in [Calls -> 0..MaxRetries]
  /\ elapsed \in [Calls -> 0..Horizon]
  /\ answer \in [Calls -> Answers]
  /\ hit \in [Calls -> BOOLEAN]
  /\ order \in Seq(Keys)
  /\ DOMAIN map \subseteq Keys
  /\ \A k \in DOMAIN map : map[k] \in Answers
  /\ fills \in Nat
  /\ filledAt \in [Keys -> Nat]

(***************************************************************************)
(* The two halves of the cache agree, though two calls may miss on one key *)
(* and both insert it: the queue names each key of the map once and no     *)
(* other, and there are at most as many as the capacity allows.            *)
(***************************************************************************)
CacheConsistent ==
  /\ DOMAIN map = {order[i] : i \in 1..Len(order)}
  /\ \A i, j \in 1..Len(order) : order[i] = order[j] => i = j
  /\ Len(order) <= Limit

(***************************************************************************)
(* First in, first out: a key is in the cache exactly while fewer than     *)
(* Limit other fills have come after its own, whatever was refreshed or    *)
(* looked up in between.                                                   *)
(***************************************************************************)
KeptForLimitFills ==
  \A k \in Keys : Cached(k) <=> filledAt[k] > 0 /\ fills - filledAt[k] < Limit

(***************************************************************************)
(* Only the model's answers are cached, under the prefix and language they *)
(* were produced for: a fallback given while the model was down is never   *)
(* served once it is back.                                                 *)
(***************************************************************************)
CachedByModel ==
  \A k \in DOMAIN map : map[k].by = "model" /\ map[k].context.key = k

(***************************************************************************)
(* Every call that returns has an answer for its prefix and language; one  *)
(* that asked the model has it for its own suffix too, and takes the rules *)
(* only after the last retry failed.                                       *)
(***************************************************************************)
AnswersFit ==
  \A c \in Calls : pc[c] = "done" =>
    /\ answer[c].context.key = ask[c].key
    /\ ~hit[c] => answer[c].context = ask[c]
    /\ answer[c].by = "rule" => ~hit[c] /\ attempt[c] = MaxRetries
    /\ answer[c].by # "nobody"

(* What a call can spend at most: every try its timeout, and every backoff *)
(* between two tries, each twice the one before it up to the limit.        *)
Paused[n \in Nat] ==
  IF n = 0 THEN 0
  ELSE Paused[n - 1] + MinOf(BackoffBase * OneShifted[n - 1], BackoffMax)
Worst == (MaxRetries + 1) * Timeout + Paused[MaxRetries]

(* The retries bound what a call spends, whichever way it ends.            *)
SpendingBounded == \A c \in Calls : elapsed[c] <= Worst

(* Every call that asked the model returns, unless its caller went away.   *)
CallsReturn ==
  \A c \in Calls : pc[c] = "request" ~> pc[c] \in {"done", "dropped"}

=============================================================================
