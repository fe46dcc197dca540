------------------------------ MODULE NesProofs ------------------------------
(***************************************************************************)
(* What Nes keeps for any calls, keys, capacity and retry settings, and    *)
(* after it what NesBatch keeps.  The inductive invariant says where in    *)
(* the queue each cached key stands, as a function of the fill that put it *)
(* there.                                                                  *)
(***************************************************************************)
EXTENDS Nes, NesBatch, Induction, FiniteSetTheorems, TLAPS

(* The part of TypeOK about the cache.                                     *)
CacheTyped ==
  /\ order \in Seq(Keys)
  /\ DOMAIN map \subseteq Keys
  /\ \A k \in DOMAIN map : map[k] \in Answers
  /\ fills \in Nat
  /\ filledAt \in [Keys -> Nat]

(* The queue holds the last Len(order) fills, in their order; a key that   *)
(* is not in it was never filled or has seen Limit fills since.            *)
Queue ==
  /\ DOMAIN map = {order[i] : i \in 1..Len(order)}
  /\ Len(order) <= Limit
  /\ Len(order) <= fills
  /\ \A i \in 1..Len(order) : filledAt[order[i]] = fills - Len(order) + i
  /\ \A k \in Keys \ DOMAIN map : filledAt[k] = 0 \/ fills - filledAt[k] >= Limit

(* What is known of a call on its way: no answer from the cache, and a try *)
(* left while it waits out a backoff.                                      *)
Underway ==
  \A c \in Calls :
    /\ pc[c] # "done" => ~hit[c]
    /\ pc[c] = "backoff" => attempt[c] < MaxRetries

(* The tries whose request is over, and what the call spent on them.       *)
Tries(c) == IF pc[c] \in {"idle", "request"} THEN attempt[c] ELSE attempt[c] + 1
SpentSoFar ==
  \A c \in Calls : elapsed[c] <= Tries(c) * Timeout + Paused[attempt[c]]

IInv ==
  TypeOK /\ Queue /\ CachedByModel /\ Underway /\ AnswersFit /\ SpentSoFar

-----------------------------------------------------------------------------
(* The two recursive functions exist, and do what their definitions say.    *)
LEMMA OneShiftedDef ==
  /\ OneShifted \in [Nat -> Nat]
  /\ OneShifted[0] = 1
  /\ \A n \in Nat : OneShifted[n + 1] = 2 * OneShifted[n]
<1> DEFINE step == [p \in Nat \X Nat |-> 2 * p[2]]
           P(g) == g = [n \in Nat |-> IF n = 0 THEN 1 ELSE 2 * g[n - 1]]
<1>1. PICK f \in [Nat -> Nat] : Follows(f, 1, step)
  <2>1. 1 \in Nat /\ step \in [Nat \X Nat -> Nat]
    OBVIOUS
  <2> HIDE DEF step
  <2> QED BY <2>1, Recursion
<1>2. f[0] = 1 /\ \A n \in Nat : f[n + 1] = 2 * f[n]
  BY <1>1 DEF Follows
<1>3. P(f)
  <2>1. ASSUME NEW n \in Nat PROVE f[n] = IF n = 0 THEN 1 ELSE 2 * f[n - 1]
    <3>1. n # 0 => n - 1 \in Nat /\ (n - 1) + 1 = n
      OBVIOUS
    <3> QED BY <1>2, <3>1
  <2> QED BY <2>1
<1>4. OneShifted = CHOOSE g : P(g)
  BY DEF OneShifted
<1>5. P(OneShifted)
  <2> HIDE DEF P
  <2> QED BY <1>3, <1>4
<1>6. /\ OneShifted[0] = 1
      /\ \A n \in Nat : OneShifted[n + 1] = 2 * OneShifted[n]
  BY <1>5
<1> DEFINE S == {n \in Nat : OneShifted[n] \in Nat}
<1>7. \A n \in Nat : n \in S
  <2>1. 0 \in S
    BY <1>6
  <2>2. ASSUME NEW n \in Nat, n \in S PROVE n + 1 \in S
    BY <1>6, <2>2
  <2> HIDE DEF S
  <2> QED BY <2>1, <2>2, ByInduction
<1>8. OneShifted \in [Nat -> Nat]
  BY <1>5, <1>7
<1> QED BY <1>6, <1>8

(* The backoff after a failed try, were the shift not capped.              *)
Pause(n) == MinOf(BackoffBase * OneShifted[n], BackoffMax)

LEMMA PauseTyped == \A n \in Nat : Pause(n) \in Nat
BY OneShiftedDef, NesAssumption DEF Pause, MinOf

LEMMA PausedDef ==
  /\ Paused \in [Nat -> Nat]
  /\ Paused[0] = 0
  /\ \A n \in Nat : Paused[n + 1] = Paused[n] + Pause(n)
<1> DEFINE step == [p \in Nat \X Nat |-> p[2] + Pause(p[1])]
           P(g) == g = [n \in Nat |-> IF n = 0 THEN 0 ELSE g[n - 1] + Pause(n - 1)]
<1>1. PICK f \in [Nat -> Nat] : Follows(f, 0, step)
  <2>1. 0 \in Nat /\ step \in [Nat \X Nat -> Nat]
    BY PauseTyped
  <2> HIDE DEF step
  <2> QED BY <2>1, Recursion
<1>2. f[0] = 0 /\ \A n \in Nat : f[n + 1] = f[n] + Pause(n)
  BY <1>1 DEF Follows
<1>3. P(f)
  <2>1. ASSUME NEW n \in Nat PROVE f[n] = IF n = 0 THEN 0 ELSE f[n - 1] + Pause(n - 1)
    <3>1. n # 0 => n - 1 \in Nat /\ (n - 1) + 1 = n
      OBVIOUS
    <3> QED BY <1>2, <3>1
  <2> QED BY <2>1
<1>4. Paused = CHOOSE g : P(g)
  BY DEF Paused, Pause
<1>5. P(Paused)
  <2> HIDE DEF P
  <2> QED BY <1>3, <1>4
<1>6. /\ Paused[0] = 0
      /\ \A n \in Nat : Paused[n + 1] = Paused[n] + Pause(n)
  <2> HIDE DEF Pause
  <2>1. ASSUME NEW n \in Nat PROVE Paused[n + 1] = Paused[n] + Pause(n)
    <3>1. n + 1 \in Nat /\ n + 1 # 0 /\ (n + 1) - 1 = n
      OBVIOUS
    <3> QED BY <1>5, <3>1
  <2> QED BY <1>5, <2>1
<1> DEFINE S == {n \in Nat : Paused[n] \in Nat}
<1>7. \A n \in Nat : n \in S
  <2>1. 0 \in S
    BY <1>6
  <2>2. ASSUME NEW n \in Nat, n \in S PROVE n + 1 \in S
    BY <1>6, <2>2, PauseTyped
  <2> HIDE DEF S
  <2> QED BY <2>1, <2>2, ByInduction
<1>8. Paused \in [Nat -> Nat]
  BY <1>5, <1>7
<1> QED BY <1>6, <1>8

(* A longer shift shifts further.                                          *)
LEMMA ShiftGrows ==
  ASSUME NEW m \in Nat
  PROVE  \A d \in Nat : OneShifted[m] <= OneShifted[m + d]
<1> DEFINE S == {d \in Nat : OneShifted[m] <= OneShifted[m + d]}
<1>1. 0 \in S
  BY OneShiftedDef
<1>2. ASSUME NEW d \in Nat, d \in S PROVE d + 1 \in S
  <2>1. m + d \in Nat /\ m + (d + 1) = (m + d) + 1
    OBVIOUS
  <2>2. OneShifted[m + (d + 1)] = 2 * OneShifted[m + d]
    BY <2>1, OneShiftedDef
  <2>3. OneShifted[m] \in Nat /\ OneShifted[m + d] \in Nat
    BY <2>1, OneShiftedDef
  <2> QED BY <1>2, <2>2, <2>3
<1>3. \A d \in Nat : d \in S
  <2> HIDE DEF S
  <2> QED BY <1>1, <1>2, ByInduction
<1> QED BY <1>3

(* More failed tries never wait less.                                      *)
LEMMA PausesGrow ==
  ASSUME NEW m \in Nat
  PROVE  \A d \in Nat : Paused[m] <= Paused[m + d]
<1> DEFINE S == {d \in Nat : Paused[m] <= Paused[m + d]}
<1>1. 0 \in S
  BY PausedDef
<1>2. ASSUME NEW d \in Nat, d \in S PROVE d + 1 \in S
  <2>1. m + d \in Nat /\ m + (d + 1) = (m + d) + 1
    OBVIOUS
  <2>2. Paused[m + (d + 1)] = Paused[m + d] + Pause(m + d)
    BY <2>1, PausedDef
  <2>3. Paused[m] \in Nat /\ Paused[m + d] \in Nat /\ Pause(m + d) \in Nat
    BY <2>1, PausedDef, PauseTyped
  <2> QED BY <1>2, <2>2, <2>3
<1>3. \A d \in Nat : d \in S
  <2> HIDE DEF S
  <2> QED BY <1>1, <1>2, ByInduction
<1> QED BY <1>3

(* The cap on the shift makes a backoff no longer.                         *)
LEMMA BackoffBounded ==
  ASSUME NEW n \in Nat
  PROVE  BackoffMs(n) \in Nat /\ BackoffMs(n) <= Pause(n)
<1> DEFINE s == MinOf(n, 30)
<1>1. s \in Nat /\ n - s \in Nat /\ s + (n - s) = n
  BY DEF MinOf
<1> HIDE DEF s
<1>2. OneShifted[s] \in Nat /\ OneShifted[n] \in Nat /\ OneShifted[s] <= OneShifted[n]
  BY <1>1, OneShiftedDef, ShiftGrows
<1>3. ASSUME NEW a \in Nat, NEW b \in Nat, NEW k \in Nat, a <= b
      PROVE  k * a \in Nat /\ k * b \in Nat /\ k * a <= k * b
  BY <1>3
<1>4. /\ BackoffBase * OneShifted[s] \in Nat /\ BackoffBase * OneShifted[n] \in Nat
      /\ BackoffBase * OneShifted[s] <= BackoffBase * OneShifted[n]
  BY <1>2, <1>3, NesAssumption
<1>5. BackoffMs(n) = MinOf(BackoffBase * OneShifted[s], BackoffMax)
  BY DEF BackoffMs, s
<1> QED BY <1>4, <1>5, NesAssumption DEF Pause, MinOf

LEMMA LimitPositive == Limit \in Nat /\ Limit >= 1
BY NesAssumption DEF Limit, MaxOf

(* A value put in place of another leaves the queue as it is.              *)
LEMMA RefreshKeeps ==
  ASSUME CacheTyped, Queue, CachedByModel,
         NEW k \in Keys, NEW value \in Answers,
         value.by = "model", value.context.key = k, Refresh(k, value)
  PROVE  CacheTyped' /\ Queue' /\ CachedByModel'
<1>1. /\ k \in DOMAIN map
      /\ map' = [x \in (DOMAIN map \ {}) \cup {k} |-> IF x = k THEN value ELSE map[x]]
      /\ order' = order /\ fills' = fills /\ filledAt' = filledAt
  BY DEF Refresh, Stored, Cached
<1>2. DOMAIN map' = DOMAIN map
  BY <1>1
<1>3. \A x \in DOMAIN map' : map'[x] = IF x = k THEN value ELSE map[x]
  BY <1>1
<1>4. CacheTyped'
  BY <1>1, <1>2, <1>3 DEF CacheTyped
<1>5. Queue'
  BY <1>1, <1>2 DEF Queue, Limit
<1>6. CachedByModel'
  BY <1>2, <1>3 DEF CachedByModel
<1> QED BY <1>4, <1>5, <1>6

(* A new key goes to the end, and the oldest makes room when there is none. *)
LEMMA FillKeeps ==
  ASSUME CacheTyped, Queue, CachedByModel,
         NEW k \in Keys, NEW value \in Answers,
         value.by = "model", value.context.key = k, Fill(k, value)
  PROVE  CacheTyped' /\ Queue' /\ CachedByModel'
<1> DEFINE rest == IF Full THEN Tail(order) ELSE order
           gone == IF Full THEN {order[1]} ELSE {}
           shift == IF Full THEN 1 ELSE 0
<1>a. /\ order \in Seq(Keys) /\ Len(order) \in Nat /\ fills \in Nat
      /\ Len(order) <= Limit /\ Len(order) <= fills
      /\ Limit \in Nat /\ Limit >= 1
  BY LimitPositive DEF CacheTyped, Queue
<1>1. /\ k \notin DOMAIN map
      /\ order' = Append(rest, k)
      /\ map' = [x \in (DOMAIN map \ gone) \cup {k} |-> IF x = k THEN value ELSE map[x]]
      /\ fills' = fills + 1
      /\ filledAt' = [filledAt EXCEPT ![k] = fills + 1]
  BY DEF Fill, Stored, Cached
<1>b. Full => Len(order) = Limit /\ order # <<>>
  BY <1>a DEF Full
<1>2. /\ rest \in Seq(Keys)
      /\ shift \in {0, 1} /\ Len(rest) = Len(order) - shift
      /\ \A i \in 1..Len(rest) : rest[i] = order[i + shift]
  <2>1. CASE Full
    BY <2>1, <1>a, <1>b
  <2>2. CASE ~Full
    BY <2>2, <1>a
  <2> QED BY <2>1, <2>2
<1>3. gone = {order[i] : i \in 1..shift}
  <2>1. CASE Full
    BY <2>1
  <2>2. CASE ~Full
    BY <2>2
  <2> QED BY <2>1, <2>2
<1>c. Full => shift = 1
  OBVIOUS
<1>d. ~Full => shift = 0
  OBVIOUS
<1> HIDE DEF rest, gone, shift
<1>4. /\ order' \in Seq(Keys)
      /\ Len(order') = Len(rest) + 1
      /\ order'[Len(rest) + 1] = k
      /\ \A i \in 1..Len(rest) : order'[i] = rest[i]
  BY <1>1, <1>2
<1>5. \A i \in 1..Len(order) : /\ order[i] \in Keys
                               /\ filledAt[order[i]] = fills - Len(order) + i
                               /\ order[i] # k
  BY <1>1, <1>a DEF Queue
<1>6. \A i, j \in 1..Len(order) : order[i] = order[j] => i = j
  BY <1>5, <1>a
<1>7. DOMAIN map \ gone = {rest[i] : i \in 1..Len(rest)}
  <2>1. \A i \in 1..Len(rest) : /\ rest[i] = order[i + shift]
                                /\ i + shift \in 1..Len(order)
                                /\ i + shift > shift
    BY <1>2, <1>a
  <2>2. ASSUME NEW x \in DOMAIN map \ gone
        PROVE  \E i \in 1..Len(rest) : x = rest[i]
    <3>1. PICK j \in 1..Len(order) : x = order[j]
      BY DEF Queue
    <3>2. ~(j \in 1..shift)
      BY <2>2, <3>1, <1>3
    <3>3. j - shift \in 1..Len(rest) /\ (j - shift) + shift = j
      BY <3>2, <1>2, <1>a
    <3>4. rest[j - shift] = order[j]
      BY <3>3, <1>2
    <3> QED BY <3>1, <3>3, <3>4
  <2>3. ASSUME NEW i \in 1..Len(rest)
        PROVE  rest[i] \in DOMAIN map \ gone
    <3>1. rest[i] \in DOMAIN map
      BY <2>1 DEF Queue
    <3>2. \A j \in 1..shift : j \in 1..Len(order) /\ j # i + shift
      BY <1>2, <1>a, <2>1
    <3>3. rest[i] \notin gone
      BY <3>2, <2>1, <1>3, <1>6
    <3> QED BY <3>1, <3>3
  <2> QED BY <2>2, <2>3
<1>8. DOMAIN map' = {order'[i] : i \in 1..Len(order')}
  <2>1. DOMAIN map' = (DOMAIN map \ gone) \cup {k}
    BY <1>1
  <2>2. 1..Len(order') = 1..Len(rest) \cup {Len(rest) + 1} /\ Len(rest) \in Nat
    BY <1>4, <1>2
  <2> QED BY <2>1, <2>2, <1>4, <1>7
<1>9. \A x \in DOMAIN map' : /\ x = k => map'[x] = value
                             /\ x # k => x \in DOMAIN map /\ map'[x] = map[x]
  BY <1>1
<1>10. CacheTyped'
  BY <1>1, <1>4, <1>9, <1>a DEF CacheTyped
<1>11. CachedByModel'
  BY <1>9 DEF CachedByModel
<1>12. Len(order') <= Limit /\ Len(order') <= fills'
  BY <1>a, <1>b, <1>c, <1>d, <1>1, <1>2, <1>4 DEF Full
<1>13. \A i \in 1..Len(order') : filledAt'[order'[i]] = fills' - Len(order') + i
  <2> SUFFICES ASSUME NEW i \in 1..Len(order')
               PROVE  filledAt'[order'[i]] = fills' - Len(order') + i
    OBVIOUS
  <2>1. CASE i = Len(rest) + 1
    BY <2>1, <1>1, <1>4, <1>a, <1>2 DEF CacheTyped
  <2>2. CASE i # Len(rest) + 1
    <3>1. i \in 1..Len(rest) /\ i + shift \in 1..Len(order)
      BY <2>2, <1>4, <1>2, <1>a
    <3>2. order'[i] = order[i + shift]
      BY <3>1, <1>4, <1>2
    <3>3. filledAt'[order'[i]] = filledAt[order[i + shift]]
      BY <3>1, <3>2, <1>5, <1>1 DEF CacheTyped
    <3> QED BY <3>1, <3>3, <1>5, <1>1, <1>4, <1>2, <1>a
  <2> QED BY <2>1, <2>2
<1>14. \A x \in Keys \ DOMAIN map' : filledAt'[x] = 0 \/ fills' - filledAt'[x] >= Limit
  <2> SUFFICES ASSUME NEW x \in Keys, x \notin DOMAIN map'
               PROVE  filledAt'[x] = 0 \/ fills' - filledAt'[x] >= Limit
    OBVIOUS
  <2>1. x # k /\ x \notin DOMAIN map \ gone
    BY <1>1
  <2>2. filledAt'[x] = filledAt[x] /\ filledAt[x] \in Nat
    BY <2>1, <1>1 DEF CacheTyped
  <2>3. CASE x \notin DOMAIN map
    <3>1. x \in Keys \ DOMAIN map
      BY <2>3
    <3>2. filledAt[x] = 0 \/ fills - filledAt[x] >= Limit
      BY <3>1 DEF Queue
    <3>3. fills' = fills + 1
      BY <1>1
    <3> QED BY <3>2, <3>3, <2>2, <1>a
  <2>4. CASE x \in DOMAIN map
    <3>1. PICK j \in 1..shift : x = order[j]
      BY <2>4, <2>1, <1>3
    <3>2. shift = 1 /\ j = 1 /\ Full
      BY <3>1, <1>2, <1>d
    <3>3. Len(order) = Limit /\ 1 \in 1..Len(order)
      BY <3>2, <1>a, <1>b
    <3>4. filledAt[x] = fills - Len(order) + 1
      BY <3>1, <3>2, <3>3, <1>5
    <3> QED BY <3>3, <3>4, <2>2, <1>1, <1>a
  <2> QED BY <2>3, <2>4
<1>15. Queue'
  BY <1>8, <1>12, <1>13, <1>14 DEF Queue, Limit
<1> QED BY <1>10, <1>11, <1>15

LEMMA InsertKeeps ==
  ASSUME CacheTyped, Queue, CachedByModel,
         NEW k \in Keys, NEW value \in Answers,
         value.by = "model", value.context.key = k, Insert(k, value)
  PROVE  CacheTyped' /\ Queue' /\ CachedByModel'
BY RefreshKeeps, FillKeeps DEF Insert

-----------------------------------------------------------------------------
(* The steps                                                               *)

LEMMA TypeSplit ==
  TypeOK <=>
    /\ pc \in [Calls -> {"idle", "request", "backoff", "done", "dropped"}]
    /\ ask \in [Calls -> Contexts]
    /\ attempt \in [Calls -> 0..MaxRetries]
    /\ elapsed \in [Calls -> 0..Horizon]
    /\ answer \in [Calls -> Answers]
    /\ hit \in [Calls -> BOOLEAN]
    /\ CacheTyped
BY DEF TypeOK, CacheTyped

(* What a call asks for, and what it is answered, have their types.        *)
LEMMA AskTyped ==
  ASSUME TypeOK, NEW c \in Calls
  PROVE  /\ ask[c] \in Contexts /\ ask[c].key \in Keys
         /\ NoAnswer(ask[c]) \in Answers
         /\ \A who \in {"model", "rule"} :
              /\ AnswerBy(who, c) \in Answers
              /\ AnswerBy(who, c).by = who
              /\ AnswerBy(who, c).context = ask[c]
<1>1. ask[c] \in Contexts
  BY DEF TypeOK
<1> QED BY <1>1 DEF NoAnswer, AnswerBy, Answers, Contexts

(* The stopwatch stays in its range.                                       *)
LEMMA StopwatchBounded ==
  ASSUME elapsed \in [Calls -> 0..Horizon], NEW c \in Calls, NEW ms \in Nat,
         Spends(c, ms)
  PROVE  elapsed' \in [Calls -> 0..Horizon]
<1>1. elapsed[c] \in 0..Horizon /\ Horizon \in Nat
  BY NesAssumption
<1>2. MinOf(elapsed[c] + ms, Horizon) \in 0..Horizon
  BY <1>1 DEF MinOf
<1> QED BY <1>2 DEF Spends

LEMMA RequestTimed ==
  ASSUME elapsed \in [Calls -> 0..Horizon], NEW c \in Calls,
         \E ms \in Durations : Spends(c, ms)
  PROVE  elapsed' \in [Calls -> 0..Horizon]
<1>1. PICK ms \in Durations : Spends(c, ms)
  OBVIOUS
<1>2. ms \in Nat
  BY NesAssumption
<1> QED BY <1>1, <1>2, StopwatchBounded

(* What the calls hold, apart from the cache.                              *)
CallsTyped ==
  /\ pc \in [Calls -> {"idle", "request", "backoff", "done", "dropped"}]
  /\ attempt \in [Calls -> 0..MaxRetries]
  /\ answer \in [Calls -> Answers]
  /\ hit \in [Calls -> BOOLEAN]

(* A call returns what fits it, and no other call is touched.              *)
LEMMA ReturnFits ==
  ASSUME TypeOK, Underway, AnswersFit, NEW c \in Calls, NEW result \in Answers,
         Returns(c, result), ask' = ask, attempt' = attempt,
         result.context.key = ask[c].key, result.by # "nobody",
         \/ /\ hit' = hit /\ ~hit[c]
            /\ result.context = ask[c]
            /\ result.by = "rule" => attempt[c] = MaxRetries
         \/ hit' = [hit EXCEPT ![c] = TRUE] /\ result.by = "model"
  PROVE  CallsTyped' /\ Underway' /\ AnswersFit'
<1>1. /\ pc' = [pc EXCEPT ![c] = "done"]
      /\ answer' = [answer EXCEPT ![c] = result]
      /\ pc \in [Calls -> {"idle", "request", "backoff", "done", "dropped"}]
      /\ answer \in [Calls -> Answers]
      /\ hit \in [Calls -> BOOLEAN]
      /\ attempt \in [Calls -> 0..MaxRetries]
  BY DEF TypeOK, Returns
<1>2. hit' \in [Calls -> BOOLEAN] /\ \A d \in Calls : d # c => hit'[d] = hit[d]
  BY <1>1
<1>3. \A d \in Calls : d # c => pc'[d] = pc[d] /\ answer'[d] = answer[d]
  BY <1>1
<1>4. pc'[c] = "done" /\ answer'[c] = result
  BY <1>1
<1>5. CallsTyped'
  BY <1>1, <1>2 DEF CallsTyped
<1>6. Underway'
  BY <1>2, <1>3, <1>4 DEF Underway
<1>7. ~hit'[c] => result.context = ask[c]
  BY <1>1
<1>8. result.by = "rule" => ~hit'[c] /\ attempt[c] = MaxRetries
  BY <1>1
<1>9. AnswersFit'
  BY <1>2, <1>3, <1>4, <1>7, <1>8 DEF AnswersFit
<1> QED BY <1>5, <1>6, <1>9

(* A call moves on without returning.                                      *)
LEMMA MoveFits ==
  ASSUME TypeOK, Underway, AnswersFit, NEW c \in Calls,
         NEW to \in {"request", "backoff", "dropped"},
         pc[c] # "done", pc' = [pc EXCEPT ![c] = to],
         ask' = ask, answer' = answer, hit' = hit,
         \/ attempt' = attempt /\ (to = "backoff" => attempt[c] < MaxRetries)
         \/ /\ to = "request" /\ pc[c] = "backoff"
            /\ attempt' = [attempt EXCEPT ![c] = @ + 1]
  PROVE  CallsTyped' /\ Underway' /\ AnswersFit'
<1>1. /\ pc \in [Calls -> {"idle", "request", "backoff", "done", "dropped"}]
      /\ answer \in [Calls -> Answers]
      /\ hit \in [Calls -> BOOLEAN]
      /\ attempt \in [Calls -> 0..MaxRetries]
  BY DEF TypeOK
<1>2. /\ attempt' \in [Calls -> 0..MaxRetries]
      /\ \A d \in Calls : d # c => attempt'[d] = attempt[d]
  <2>1. CASE attempt' = attempt
    BY <2>1, <1>1
  <2>2. CASE /\ to = "request" /\ pc[c] = "backoff"
             /\ attempt' = [attempt EXCEPT ![c] = @ + 1]
    <3>1. attempt[c] < MaxRetries /\ attempt[c] \in 0..MaxRetries
      BY <2>2, <1>1 DEF Underway
    <3>2. attempt[c] + 1 \in 0..MaxRetries
      BY <3>1, NesAssumption
    <3> QED BY <2>2, <3>2, <1>1
  <2> QED BY <2>1, <2>2
<1>3. pc'[c] = to /\ \A d \in Calls : d # c => pc'[d] = pc[d]
  BY <1>1
<1>4. CallsTyped'
  BY <1>1, <1>2 DEF CallsTyped
<1>5. Underway'
  BY <1>2, <1>3 DEF Underway
<1>6. AnswersFit'
  BY <1>2, <1>3 DEF AnswersFit
<1> QED BY <1>4, <1>5, <1>6

(* A call whose tries and pauses cover what it just spent.                 *)
LEMMA SpendingCovered ==
  ASSUME TypeOK, SpentSoFar, NEW c \in Calls, NEW ms \in Nat,
         elapsed' \in [Calls -> 0..Horizon], elapsed'[c] <= elapsed[c] + ms,
         \A d \in Calls : d # c => /\ elapsed'[d] = elapsed[d]
                                 /\ pc'[d] = pc[d] /\ attempt'[d] = attempt[d],
         attempt'[c] \in Nat,
         \/ Tries(c)' = Tries(c) + 1 /\ attempt'[c] = attempt[c] /\ ms <= Timeout
         \/ Tries(c)' = Tries(c) /\ attempt'[c] = attempt[c] /\ ms = 0
         \/ /\ Tries(c)' = Tries(c) /\ attempt'[c] = attempt[c] + 1
            /\ ms <= Pause(attempt[c])
  PROVE  SpentSoFar'
<1>1. \A d \in Calls : /\ attempt[d] \in Nat /\ Tries(d) \in Nat
                       /\ elapsed[d] \in Nat /\ elapsed'[d] \in Nat
  BY NesAssumption DEF TypeOK, Tries
<1>2. Timeout \in Nat /\ \A n \in Nat : n * Timeout \in Nat /\ (n + 1) * Timeout = n * Timeout + Timeout
  BY NesAssumption
<1>3. elapsed[c] <= Tries(c) * Timeout + Paused[attempt[c]]
  BY DEF SpentSoFar
<1>4. /\ Paused[attempt[c]] \in Nat /\ Pause(attempt[c]) \in Nat
      /\ Paused[attempt[c] + 1] = Paused[attempt[c]] + Pause(attempt[c])
  BY <1>1, PausedDef, PauseTyped
<1> DEFINE tries == Tries(c)
           triesNow == Tries(c)'
<1>5. elapsed'[c] <= triesNow * Timeout + Paused[attempt'[c]]
  <2>1. tries \in Nat /\ tries * Timeout \in Nat /\ (tries + 1) * Timeout = tries * Timeout + Timeout
    BY <1>1, <1>2
  <2>2. elapsed[c] <= tries * Timeout + Paused[attempt[c]]
    BY <1>3
  <2>3. \/ triesNow = tries + 1 /\ attempt'[c] = attempt[c] /\ ms <= Timeout
        \/ triesNow = tries /\ attempt'[c] = attempt[c] /\ ms = 0
        \/ triesNow = tries /\ attempt'[c] = attempt[c] + 1 /\ ms <= Pause(attempt[c])
    OBVIOUS
  <2> DEFINE cost == tries * Timeout
             costNow == triesNow * Timeout
  <2>4. \/ costNow = cost + Timeout /\ attempt'[c] = attempt[c] /\ ms <= Timeout
        \/ costNow = cost /\ attempt'[c] = attempt[c] /\ ms = 0
        \/ costNow = cost /\ attempt'[c] = attempt[c] + 1 /\ ms <= Pause(attempt[c])
    BY <2>1, <2>3
  <2>5. cost \in Nat /\ elapsed[c] <= cost + Paused[attempt[c]]
    BY <2>1, <2>2
  <2> HIDE DEF tries, triesNow, cost, costNow
  <2>6. elapsed'[c] <= costNow + Paused[attempt'[c]]
    BY <2>4, <2>5, <1>1, <1>2, <1>4
  <2> QED BY <2>6 DEF costNow
<1>6. ASSUME NEW d \in Calls
      PROVE  elapsed'[d] <= Tries(d)' * Timeout + Paused[attempt'[d]]
  <2>1. CASE d = c
    BY <1>5, <2>1
  <2>2. CASE d # c
    <3>1. Tries(d)' = Tries(d) /\ elapsed'[d] = elapsed[d] /\ attempt'[d] = attempt[d]
      BY <2>2 DEF Tries
    <3>2. elapsed[d] <= Tries(d) * Timeout + Paused[attempt[d]]
      BY DEF SpentSoFar
    <3> QED BY <3>1, <3>2
  <2> QED BY <2>1, <2>2
<1> QED BY <1>6 DEF SpentSoFar

LEMMA SpendingKept ==
  ASSUME TypeOK, SpentSoFar, Underway, NEW c \in Calls,
         Begin(c) \/ Resume(c) \/ Drop(c),
         attempt' \in [Calls -> 0..MaxRetries], elapsed' \in [Calls -> 0..Horizon]
  PROVE  SpentSoFar'
<1>t. /\ pc \in [Calls -> {"idle", "request", "backoff", "done", "dropped"}]
      /\ attempt \in [Calls -> 0..MaxRetries] /\ elapsed \in [Calls -> 0..Horizon]
      /\ MaxRetries \in Nat /\ Horizon \in Nat /\ Timeout \in Nat
      /\ attempt[c] \in Nat /\ elapsed[c] \in Nat /\ attempt'[c] \in Nat
      /\ Durations \subseteq 0..Timeout
  BY NesAssumption DEF TypeOK
<1>1. ASSUME NEW ms \in Nat, Spends(c, ms)
      PROVE  /\ elapsed'[c] <= elapsed[c] + ms
             /\ \A d \in Calls : d # c => elapsed'[d] = elapsed[d]
  BY <1>1, <1>t DEF Spends, MinOf
<1>2. CASE Hit(c) \/ Miss(c) \/ Drop(c)
  <2>1. PICK to \in {"request", "done", "dropped"} :
          /\ pc' = [pc EXCEPT ![c] = to] /\ UNCHANGED <<attempt, elapsed>>
          /\ to = "request" => pc[c] = "idle"
    BY <1>2 DEF Hit, Miss, Drop, Returns
  <2>2. \/ Tries(c)' = Tries(c) + 1
        \/ Tries(c)' = Tries(c)
    BY <2>1, <1>t DEF Tries
  <2>3. /\ elapsed'[c] <= elapsed[c] + 0 /\ attempt'[c] = attempt[c]
        /\ \A d \in Calls : d # c => /\ elapsed'[d] = elapsed[d]
                                 /\ pc'[d] = pc[d] /\ attempt'[d] = attempt[d]
    BY <2>1, <1>t
  <2>4. 0 \in Nat /\ 0 <= Timeout
    BY <1>t
  <2> QED BY <2>2, <2>3, <2>4, <1>t, SpendingCovered
<1>3. CASE Answered(c) \/ Fails(c) \/ Degrade(c)
  <2>1. PICK ms \in Durations : Spends(c, ms)
    BY <1>3 DEF Answered, Fails, Degrade
  <2>2. PICK to \in {"backoff", "done"} :
          pc' = [pc EXCEPT ![c] = to] /\ attempt' = attempt /\ pc[c] = "request"
    BY <1>3 DEF Answered, Fails, Degrade, Returns
  <2>3. Tries(c)' = Tries(c) + 1
    BY <2>2, <1>t DEF Tries
  <2>4. ms \in Nat /\ ms <= Timeout
    BY <1>t
  <2>5. /\ elapsed'[c] <= elapsed[c] + ms /\ attempt'[c] = attempt[c]
        /\ \A d \in Calls : d # c => /\ elapsed'[d] = elapsed[d]
                                 /\ pc'[d] = pc[d] /\ attempt'[d] = attempt[d]
    BY <2>1, <2>2, <2>4, <1>1, <1>t
  <2> QED BY <2>3, <2>4, <2>5, <1>t, SpendingCovered
<1>4. CASE Wake(c)
  <2> DEFINE ms == BackoffMs(attempt[c])
  <2>1. /\ pc[c] = "backoff" /\ pc' = [pc EXCEPT ![c] = "request"]
        /\ attempt' = [attempt EXCEPT ![c] = @ + 1] /\ Spends(c, ms)
    BY <1>4 DEF Wake
  <2>2. ms \in Nat /\ ms <= Pause(attempt[c])
    BY <1>t, BackoffBounded
  <2>3. Tries(c)' = Tries(c) /\ attempt'[c] = attempt[c] + 1
    BY <2>1, <1>t DEF Tries
  <2> HIDE DEF ms
  <2>4. /\ elapsed'[c] <= elapsed[c] + ms
        /\ \A d \in Calls : d # c => /\ elapsed'[d] = elapsed[d]
                                 /\ pc'[d] = pc[d] /\ attempt'[d] = attempt[d]
    BY <2>1, <2>2, <1>1, <1>t
  <2> QED BY <2>2, <2>3, <2>4, <1>t, SpendingCovered
<1> QED BY <1>2, <1>3, <1>4 DEF Begin, Resume

LEMMA CacheStays ==
  ASSUME CacheTyped, Queue, CachedByModel, UNCHANGED cache
  PROVE  CacheTyped' /\ Queue' /\ CachedByModel'
BY DEF cache, CacheTyped, Queue, CachedByModel, Limit

THEOREM InitInv == Init => IInv
<1> SUFFICES ASSUME Init PROVE IInv
  OBVIOUS
<1>1. 0 \in 0..MaxRetries /\ 0 \in 0..Horizon
  BY NesAssumption
<1>2. \A c \in Calls : NoAnswer(ask[c]) \in Answers
  BY DEF Init, NoAnswer, Answers
<1>3. DOMAIN map = {} /\ order = <<>> /\ Len(order) = 0
  BY DEF Init
<1>4. TypeOK
  BY <1>1, <1>2, <1>3 DEF Init, TypeOK
<1>5. Queue
  BY <1>3, LimitPositive DEF Init, Queue
<1>6. CachedByModel /\ Underway /\ AnswersFit
  BY <1>3 DEF Init, CachedByModel, Underway, AnswersFit
<1>7. SpentSoFar
  BY NesAssumption, PausedDef DEF Init, SpentSoFar, Tries
<1> QED BY <1>4, <1>5, <1>6, <1>7 DEF IInv

THEOREM StepInv == IInv /\ [Next]_vars => IInv'
<1> SUFFICES ASSUME IInv, [Next]_vars PROVE IInv'
  OBVIOUS
<1> USE DEF IInv
<1>t. /\ TypeOK /\ Queue /\ CachedByModel /\ Underway /\ AnswersFit /\ CacheTyped
      /\ SpentSoFar
      /\ elapsed \in [Calls -> 0..Horizon] /\ ask \in [Calls -> Contexts]
  BY TypeSplit
<1>q. ASSUME CallsTyped', Underway', AnswersFit', ask' = ask,
             CacheTyped', Queue', CachedByModel',
             elapsed' \in [Calls -> 0..Horizon]
      PROVE  IInv'
  <2>1. TypeOK'
    BY <1>q, <1>t DEF CallsTyped, CacheTyped, TypeOK
  <2>2. SpentSoFar'
    <3>1. CASE UNCHANGED vars
      BY <3>1, <1>t DEF vars, SpentSoFar, Tries
    <3>2. CASE Next
      <4>1. PICK c \in Calls : Begin(c) \/ Resume(c) \/ Drop(c)
        BY <3>2 DEF Next
      <4> QED BY <4>1, <1>q, <1>t, SpendingKept DEF CallsTyped
    <3> QED BY <3>1, <3>2
  <2> QED BY <1>q, <2>1, <2>2
<1>1. CASE UNCHANGED vars
  <2>1. Underway' /\ AnswersFit' /\ CallsTyped' /\ ask' = ask /\ UNCHANGED cache
        /\ elapsed' \in [Calls -> 0..Horizon]
    BY <1>1, <1>t DEF vars, cache, Underway, AnswersFit, CallsTyped, TypeOK
  <2> QED BY <2>1, <1>q, <1>t, CacheStays
<1>2. ASSUME NEW c \in Calls, Hit(c) PROVE IInv'
  <2>1. ask[c].key \in DOMAIN map /\ map[ask[c].key] \in Answers
    BY <1>2, <1>t DEF Hit, Cached, CacheTyped
  <2>2. map[ask[c].key].by = "model" /\ map[ask[c].key].context.key = ask[c].key
    BY <2>1, <1>t DEF CachedByModel
  <2>3. /\ Returns(c, map[ask[c].key]) /\ hit' = [hit EXCEPT ![c] = TRUE]
        /\ UNCHANGED <<ask, attempt, elapsed, cache>>
    BY <1>2 DEF Hit
  <2>4. CallsTyped' /\ Underway' /\ AnswersFit'
    BY <2>1, <2>2, <2>3, <1>t, ReturnFits
  <2> QED BY <2>3, <2>4, <1>q, <1>t, CacheStays
<1>3. ASSUME NEW c \in Calls, Miss(c) PROVE IInv'
  <2>1. /\ pc[c] # "done" /\ pc' = [pc EXCEPT ![c] = "request"]
        /\ UNCHANGED <<ask, attempt, elapsed, answer, hit, cache>>
    BY <1>3 DEF Miss
  <2>2. CallsTyped' /\ Underway' /\ AnswersFit'
    BY <2>1, <1>t, MoveFits
  <2> QED BY <2>1, <2>2, <1>q, <1>t, CacheStays
<1>4. ASSUME NEW c \in Calls, Answered(c) PROVE IInv'
  <2>1. /\ Insert(ask[c].key, AnswerBy("model", c)) /\ Returns(c, AnswerBy("model", c))
        /\ \E ms \in Durations : Spends(c, ms)
        /\ UNCHANGED <<ask, attempt, hit>> /\ pc[c] # "done"
    BY <1>4 DEF Answered
  <2>2. /\ AnswerBy("model", c) \in Answers /\ AnswerBy("model", c).by = "model"
        /\ AnswerBy("model", c).context = ask[c]
        /\ ask[c].key \in Keys
    BY AskTyped
  <2>3. CacheTyped' /\ Queue' /\ CachedByModel'
    BY <2>1, <2>2, <1>t, InsertKeeps
  <2>4. ~hit[c]
    BY <2>1 DEF Underway
  <2>5. CallsTyped' /\ Underway' /\ AnswersFit'
    BY <2>1, <2>2, <2>4, <1>t, ReturnFits
  <2>6. elapsed' \in [Calls -> 0..Horizon]
    BY <2>1, <1>t, RequestTimed
  <2> QED BY <2>1, <2>3, <2>5, <2>6, <1>q
<1>5. ASSUME NEW c \in Calls, Fails(c) PROVE IInv'
  <2>1. /\ pc[c] # "done" /\ pc' = [pc EXCEPT ![c] = "backoff"]
        /\ attempt[c] < MaxRetries
        /\ \E ms \in Durations : Spends(c, ms)
        /\ UNCHANGED <<ask, attempt, answer, hit, cache>>
    BY <1>5 DEF Fails, ShouldRetry
  <2>2. CallsTyped' /\ Underway' /\ AnswersFit'
    BY <2>1, <1>t, MoveFits
  <2>3. elapsed' \in [Calls -> 0..Horizon]
    BY <2>1, <1>t, RequestTimed
  <2> QED BY <2>1, <2>2, <2>3, <1>q, <1>t, CacheStays
<1>6. ASSUME NEW c \in Calls, Wake(c) PROVE IInv'
  <2>1. /\ pc[c] = "backoff" /\ pc' = [pc EXCEPT ![c] = "request"]
        /\ attempt' = [attempt EXCEPT ![c] = @ + 1]
        /\ Spends(c, BackoffMs(attempt[c]))
        /\ UNCHANGED <<ask, answer, hit, cache>>
    BY <1>6 DEF Wake
  <2>2. CallsTyped' /\ Underway' /\ AnswersFit'
    BY <2>1, <1>t, MoveFits
  <2>3. BackoffMs(attempt[c]) \in Nat
    BY BackoffBounded, NesAssumption DEF TypeOK
  <2>4. elapsed' \in [Calls -> 0..Horizon]
    BY <2>1, <2>3, <1>t, StopwatchBounded
  <2> QED BY <2>1, <2>2, <2>4, <1>q, <1>t, CacheStays
<1>7. ASSUME NEW c \in Calls, Degrade(c) PROVE IInv'
  <2>1. /\ Returns(c, AnswerBy("rule", c))
        /\ \E ms \in Durations : Spends(c, ms)
        /\ UNCHANGED <<ask, attempt, hit, cache>> /\ pc[c] # "done"
        /\ ~(attempt[c] < MaxRetries)
    BY <1>7 DEF Degrade, ShouldRetry
  <2>2. /\ AnswerBy("rule", c) \in Answers /\ AnswerBy("rule", c).by = "rule"
        /\ AnswerBy("rule", c).context = ask[c]
    BY AskTyped
  <2>3. attempt[c] = MaxRetries
    BY <2>1, NesAssumption DEF TypeOK
  <2>4. ~hit[c]
    BY <2>1 DEF Underway
  <2>5. CallsTyped' /\ Underway' /\ AnswersFit'
    BY <2>1, <2>2, <2>3, <2>4, <1>t, ReturnFits
  <2>6. elapsed' \in [Calls -> 0..Horizon]
    BY <2>1, <1>t, RequestTimed
  <2> QED BY <2>1, <2>5, <2>6, <1>q, <1>t, CacheStays
<1>8. ASSUME NEW c \in Calls, Drop(c) PROVE IInv'
  <2>1. /\ pc[c] # "done" /\ pc' = [pc EXCEPT ![c] = "dropped"]
        /\ UNCHANGED <<ask, attempt, elapsed, answer, hit, cache>>
    BY <1>8 DEF Drop
  <2>2. CallsTyped' /\ Underway' /\ AnswersFit'
    BY <2>1, <1>t, MoveFits
  <2> QED BY <2>1, <2>2, <1>q, <1>t, CacheStays
<1> QED BY <1>1, <1>2, <1>3, <1>4, <1>5, <1>6, <1>7, <1>8 DEF Next, Begin, Resume

THEOREM Inductive == Spec => []IInv
<1>1. Init => IInv
  BY InitInv
<1>2. IInv /\ [Next]_vars => IInv'
  BY StepInv
<1> QED BY <1>1, <1>2, PTL DEF Spec

-----------------------------------------------------------------------------
(* The theorems                                                            *)

(***************************************************************************)
(* Every variable of the service keeps its type; in particular no call     *)
(* makes more than MaxRetries retries (OllamaClient::complete).            *)
(***************************************************************************)
THEOREM NesTypeCorrect == Spec => []TypeOK
<1>1. IInv => TypeOK
  BY DEF IInv
<1> QED BY <1>1, Inductive, PTL

(***************************************************************************)
(* CompletionCache: queue and map agree and respect the capacity, however  *)
(* calls that missed on the same key insert over each other.               *)
(***************************************************************************)
THEOREM CacheStaysConsistent == Spec => []CacheConsistent
<1>1. IInv => CacheConsistent
  <2> SUFFICES ASSUME IInv PROVE CacheConsistent
    OBVIOUS
  <2>1. /\ Queue /\ Len(order) \in Nat /\ fills \in Nat
    BY DEF IInv, TypeOK
  <2>2. \A i, j \in 1..Len(order) : order[i] = order[j] => i = j
    <3> SUFFICES ASSUME NEW i \in 1..Len(order), NEW j \in 1..Len(order), order[i] = order[j]
                 PROVE  i = j
      OBVIOUS
    <3>1. fills - Len(order) + i = fills - Len(order) + j
      BY <2>1 DEF Queue
    <3> QED BY <3>1, <2>1
  <2> QED BY <2>1, <2>2 DEF Queue, CacheConsistent
<1> QED BY <1>1, Inductive, PTL

(***************************************************************************)
(* CompletionCache::insert evicts first in, first out: a key stays for     *)
(* exactly as many fills as the cache has places.                          *)
(***************************************************************************)
THEOREM FirstInFirstOut == Spec => []KeptForLimitFills
<1>1. IInv => KeptForLimitFills
  <2> SUFFICES ASSUME IInv, NEW k \in Keys
               PROVE  Cached(k) <=> filledAt[k] > 0 /\ fills - filledAt[k] < Limit
    BY DEF KeptForLimitFills
  <2>1. /\ Queue /\ Len(order) \in Nat /\ fills \in Nat /\ filledAt[k] \in Nat
        /\ Limit \in Nat /\ Len(order) <= fills /\ Len(order) <= Limit
    BY LimitPositive DEF IInv, TypeOK, Queue
  <2>2. CASE k \in DOMAIN map
    <3>1. PICK i \in 1..Len(order) : k = order[i]
      BY <2>1, <2>2 DEF Queue
    <3>2. filledAt[k] = fills - Len(order) + i
      BY <2>1, <3>1 DEF Queue
    <3> QED BY <2>1, <2>2, <3>2 DEF Cached
  <2>3. CASE k \notin DOMAIN map
    <3>1. filledAt[k] = 0 \/ fills - filledAt[k] >= Limit
      BY <2>1, <2>3 DEF Queue
    <3> QED BY <2>1, <2>3, <3>1 DEF Cached
  <2> QED BY <2>2, <2>3
<1> QED BY <1>1, Inductive, PTL

(* NesClient::complete never caches what the rules answered.               *)
THEOREM OnlyModelCached == Spec => []CachedByModel
<1>1. IInv => CachedByModel
  BY DEF IInv
<1> QED BY <1>1, Inductive, PTL

(***************************************************************************)
(* Whatever a call of NesClient returns is for its prefix and language, is *)
(* for its suffix unless it is a hit, and comes from the rules only after  *)
(* every retry.                                                            *)
(***************************************************************************)
THEOREM AnswersAlwaysFit == Spec => []AnswersFit
<1>1. IInv => AnswersFit
  BY DEF IInv
<1> QED BY <1>1, Inductive, PTL

(***************************************************************************)
(* What any call of OllamaClient::complete can spend: as many requests as  *)
(* it has tries, each at most its timeout, and the backoffs between them,  *)
(* for any timeout and retry settings.                                     *)
(***************************************************************************)
THEOREM SpendingAlwaysBounded == Spec => []SpendingBounded
<1>1. IInv => SpendingBounded
  <2> SUFFICES ASSUME IInv, NEW c \in Calls PROVE elapsed[c] <= Worst
    BY DEF SpendingBounded
  <2>t. /\ attempt[c] \in 0..MaxRetries /\ MaxRetries \in Nat /\ Timeout \in Nat
        /\ elapsed[c] \in Nat
    BY NesAssumption DEF IInv, TypeOK
  <2>1. elapsed[c] <= Tries(c) * Timeout + Paused[attempt[c]]
    BY DEF IInv, SpentSoFar
  <2>2. Tries(c) \in Nat /\ Tries(c) <= MaxRetries + 1
    BY <2>t DEF Tries
  <2>3. \A m, n, k \in Nat : m <= n => m * k \in Nat /\ n * k \in Nat /\ m * k <= n * k
    OBVIOUS
  <2>4. /\ Tries(c) * Timeout \in Nat /\ (MaxRetries + 1) * Timeout \in Nat
        /\ Tries(c) * Timeout <= (MaxRetries + 1) * Timeout
    BY <2>2, <2>3, <2>t
  <2>5. /\ Paused[attempt[c]] \in Nat /\ Paused[MaxRetries] \in Nat
        /\ Paused[attempt[c]] <= Paused[MaxRetries]
    <3> DEFINE m == attempt[c]
               d == MaxRetries - m
    <3>1. m \in Nat /\ d \in Nat /\ m + d = MaxRetries
      BY <2>t
    <3> HIDE DEF m, d
    <3>2. Paused[m] <= Paused[m + d]
      BY <3>1, PausesGrow
    <3> QED BY <3>1, <3>2, <2>t, PausedDef DEF m
  <2> QED BY <2>1, <2>4, <2>5, <2>t DEF Worst
<1> QED BY <1>1, Inductive, PTL

-----------------------------------------------------------------------------
(***************************************************************************)
(* run_batch (NesBatch), for any number of items and any concurrency.  The *)
(* items with a task are those spawned, so that a task that runs has taken *)
(* a permit.                                                               *)
(***************************************************************************)

SpawnedInOrder == \A i \in Item : task[i] = "none" <=> i > spawned

(* The caller joins only what it has spawned, and no more than that.       *)
Joining ==
  /\ Len(out) <= Items
  /\ caller = "returned" => Len(out) = Items

BatchIInv == BatchTypeOK /\ SpawnedInOrder /\ Joining /\ PermitsConserved /\ ResultsInOrder

LEMMA RunningFinite ==
  ASSUME BatchTypeOK
  PROVE  IsFiniteSet(Running) /\ Cardinality(Running) \in Nat
<1>1. IsFiniteSet(Item)
  BY BatchAssumption, FS_Interval DEF Item
<1>2. Running \subseteq Item
  BY DEF Running
<1>3. IsFiniteSet(Running)
  BY <1>1, <1>2, FS_Subset
<1> QED BY <1>3, FS_CardinalityType

THEOREM BatchInitInv == BatchInit => BatchIInv
<1> SUFFICES ASSUME BatchInit PROVE BatchIInv
  OBVIOUS
<1>1. Items \in Nat /\ Concurrency \in Nat /\ Width \in Nat /\ Width >= 1
  BY BatchAssumption DEF Width
<1>2. BatchTypeOK
  BY <1>1 DEF BatchInit, BatchTypeOK, Tasks, Item
<1>3. Running = {}
  BY DEF BatchInit, Running
<1>4. PermitsConserved
  BY <1>1, <1>3, FS_EmptySet DEF BatchInit, PermitsConserved
<1>5. SpawnedInOrder /\ Joining /\ ResultsInOrder
  BY <1>1 DEF BatchInit, SpawnedInOrder, Joining, ResultsInOrder, Item
<1> QED BY <1>2, <1>4, <1>5 DEF BatchIInv

THEOREM BatchStepInv == BatchIInv /\ [BatchNext]_batchVars => BatchIInv'
<1> SUFFICES ASSUME BatchIInv, [BatchNext]_batchVars PROVE BatchIInv'
  OBVIOUS
<1>t. /\ BatchTypeOK /\ SpawnedInOrder /\ Joining /\ PermitsConserved /\ ResultsInOrder
      /\ Items \in Nat /\ Width \in Nat /\ spawned \in 0..Items
      /\ task \in [Item -> Tasks] /\ permits \in 0..Width
      /\ out \in Seq(Item \X Results) /\ Len(out) \in Nat
      /\ caller \in {"spawning", "joining", "returned", "gone"}
  BY BatchAssumption DEF BatchIInv, BatchTypeOK, Width
<1>f. /\ IsFiniteSet(Running) /\ Cardinality(Running) \in Nat
      /\ permits + Cardinality(Running) = Width
  BY <1>t, RunningFinite DEF PermitsConserved
(* Steps that neither start nor end a task nor collect a result.           *)
<1>q. ASSUME UNCHANGED <<spawned, task, permits, out>>,
             caller' \in {"spawning", "joining", "returned", "gone"},
             caller' = "returned" => Len(out) = Items
      PROVE  BatchIInv'
  <2>1. Running' = Running
    BY <1>q DEF Running
  <2> QED
    BY <1>q, <1>t, <2>1
    DEF BatchIInv, BatchTypeOK, SpawnedInOrder, Joining, PermitsConserved, ResultsInOrder,
        Width, Returned
<1>1. CASE UNCHANGED batchVars
  BY <1>1, <1>q, <1>t DEF batchVars, Joining
<1>2. CASE Spawn
  <2> DEFINE i == spawned + 1
  <2>1. /\ caller = "spawning" /\ spawned < Items /\ permits > 0
        /\ permits' = permits - 1 /\ spawned' = i
        /\ task' = [task EXCEPT ![i] = "running"]
        /\ caller' = caller /\ out' = out
    BY <1>2 DEF Spawn
  <2>2. i \in Item /\ task[i] = "none"
    BY <2>1, <1>t DEF Item, SpawnedInOrder
  <2>3. /\ task' \in [Item -> Tasks] /\ permits' \in 0..Width /\ spawned' \in 0..Items
    BY <2>1, <2>2, <1>t DEF Tasks
  <2>4. Running' = Running \cup {i} /\ i \notin Running
    BY <2>1, <2>2, <1>t DEF Running
  <2>5. Cardinality(Running') = Cardinality(Running) + 1
    BY <2>4, <1>f, FS_AddElement
  <2>6. permits' + Cardinality(Running') = Width
    BY <2>1, <2>5, <1>f, <1>t
  <2>7. SpawnedInOrder'
    BY <2>1, <2>2, <1>t DEF SpawnedInOrder, Item
  <2>8. ResultsInOrder'
    BY <2>1, <2>2, <1>t DEF ResultsInOrder, Returned, Results
  <2> QED
    BY <2>1, <2>3, <2>6, <2>7, <2>8, <1>t
    DEF BatchIInv, BatchTypeOK, Joining, PermitsConserved, Width
<1>3. ASSUME NEW i \in Item, Finish(i) PROVE BatchIInv'
  <2>1. PICK r \in Results : task' = [task EXCEPT ![i] = r]
    BY <1>3 DEF Finish
  <2>2. /\ task[i] = "running" /\ permits' = permits + 1
        /\ caller' = caller /\ spawned' = spawned /\ out' = out
    BY <1>3 DEF Finish
  <2>3. task' \in [Item -> Tasks]
    BY <2>1, <1>t DEF Tasks
  <2>4. Running' = Running \ {i} /\ i \in Running
    BY <2>1, <2>2, <1>t DEF Running, Results
  <2>5. Cardinality(Running') = Cardinality(Running) - 1
    BY <2>4, <1>f, FS_RemoveElement
  <2>6. permits' + Cardinality(Running') = Width /\ Cardinality(Running') \in Nat
    <3>1. IsFiniteSet(Running')
      BY <2>4, <1>f, FS_RemoveElement
    <3>2. Cardinality(Running') \in Nat
      BY <3>1, FS_CardinalityType
    <3> QED BY <3>2, <2>2, <2>5, <1>f, <1>t
  <2>7. permits' \in 0..Width
    BY <2>6, <2>2, <1>t
  <2>8. SpawnedInOrder'
    BY <2>1, <2>2, <1>t DEF SpawnedInOrder, Results
  <2>9. ResultsInOrder'
    BY <2>1, <2>2, <1>t DEF ResultsInOrder, Returned, Results
  <2> QED
    BY <2>2, <2>3, <2>6, <2>7, <2>8, <2>9, <1>t
    DEF BatchIInv, BatchTypeOK, Joining, PermitsConserved, Width
<1>4. CASE AllSpawned
  BY <1>4, <1>q DEF AllSpawned
<1>5. CASE Join
  <2>1. PICK i \in Item : Awaited(i) /\ out' = Append(out, <<i, task[i]>>)
    BY <1>5 DEF Join
  <2>2. /\ i = Len(out) + 1 /\ Returned(i) /\ task[i] \in Results
        /\ caller = "joining" /\ Len(out) < Items
        /\ UNCHANGED <<caller, spawned, task, permits>>
    BY <1>5, <2>1 DEF Join, Awaited, Returned
  <2>3. /\ out' \in Seq(Item \X Results) /\ Len(out') = Len(out) + 1
        /\ out'[Len(out) + 1] = <<i, task[i]>>
        /\ \A j \in 1..Len(out) : out'[j] = out[j]
    BY <2>1, <2>2, <1>t
  <2>4. ASSUME NEW j \in 1..Len(out') PROVE out'[j] = <<j, task'[j]>> /\ Returned(j)'
    <3>1. CASE j = Len(out) + 1
      BY <3>1, <2>2, <2>3 DEF Returned
    <3>2. CASE j # Len(out) + 1
      <4>1. j \in 1..Len(out)
        BY <3>2, <2>3, <1>t
      <4> QED BY <4>1, <2>2, <2>3, <1>t DEF ResultsInOrder, Returned
    <3> QED BY <3>1, <3>2
  <2>5. Running' = Running
    BY <2>2 DEF Running
  <2> QED
    BY <2>2, <2>3, <2>4, <2>5, <1>t
    DEF BatchIInv, BatchTypeOK, SpawnedInOrder, Joining, PermitsConserved, ResultsInOrder, Width
<1>6. CASE Return
  BY <1>6, <1>q DEF Return
<1>7. CASE Abandon
  BY <1>7, <1>q DEF Abandon
<1> QED BY <1>1, <1>2, <1>3, <1>4, <1>5, <1>6, <1>7 DEF BatchNext, Run

THEOREM BatchInductive == BatchSpec => []BatchIInv
<1>1. BatchInit => BatchIInv
  BY BatchInitInv
<1>2. BatchIInv /\ [BatchNext]_batchVars => BatchIInv'
  BY BatchStepInv
<1> QED BY <1>1, <1>2, PTL DEF BatchSpec

(* Every variable of run_batch keeps its type.                             *)
THEOREM BatchTypeCorrect == BatchSpec => []BatchTypeOK
<1>1. BatchIInv => BatchTypeOK
  BY DEF BatchIInv
<1> QED BY <1>1, BatchInductive, PTL

(***************************************************************************)
(* run_batch's semaphore: no permit is lost or made up, so no more than    *)
(* Width requests are ever at the model, for any batch and concurrency.    *)
(***************************************************************************)
THEOREM NoPermitLost == BatchSpec => []PermitsConserved
<1>1. BatchIInv => PermitsConserved
  BY DEF BatchIInv
<1> QED BY <1>1, BatchInductive, PTL

(* run_batch returns each item's own result, in the order of the items.    *)
THEOREM ResultsOrdered == BatchSpec => []ResultsInOrder
<1>1. BatchIInv => ResultsInOrder
  BY DEF BatchIInv
<1> QED BY <1>1, BatchInductive, PTL

=============================================================================
