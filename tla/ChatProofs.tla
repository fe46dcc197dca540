------------------------------ MODULE ChatProofs ------------------------------
(***************************************************************************)
(* ChatService for any requests, callers and max_turns: the mutex and its  *)
(* queue are accounted for, so that one chat at a time is between what its *)
(* model sees and what it appends, and the two memories of a session, each *)
(* with an eviction of its own, never disagree and hold whole exchanges.   *)
(***************************************************************************)
EXTENDS ChatService, SequenceTheorems, TLAPS

(***************************************************************************)
(* The mutex, its queue and the requests agree: it is held by exactly one  *)
(* chat or free, and in its queue is each chat that waits, once; a client  *)
(* that goes away or a model that fails leaves no lock behind.             *)
(***************************************************************************)
MutexAccounted ==
  /\ \A r \in Requests : pc[r] \in Holding => locked
  /\ locked => \E r \in Requests : pc[r] \in Holding
  /\ \A q, r \in Requests : pc[q] \in Holding /\ pc[r] \in Holding => q = r
  /\ \A r \in Requests : pc[r] = "queued" <=> \E i \in 1..Len(waiting) : waiting[i] = r
  /\ IsInjective(waiting)

(* What each await tells of the grants, the rights and the handler.        *)
Admission ==
  \A r \in Requests :
    /\ pc[r] \in {"idle", "queued", "completing", "rejected"} => granted[r] = 0
    /\ pc[r] \in Holding => granted[r] = 1
    /\ pc[r] = "replied" => granted[r] = (IF Rpc[r] = "chat" THEN 2 ELSE 1)
    /\ refused[r] = 1 <=> pc[r] = "rejected" /\ principal[r] # Nobody
    /\ pc[r] = "idle" => principal[r] = Nobody
    /\ pc[r] \notin {"idle", "rejected"} => "Generate" \in PermsOf[principal[r]]
    /\ pc[r] = "completing" => Rpc[r] = "nes_complete"
    /\ pc[r] \in {"queued"} \cup Holding => Rpc[r] = "chat"

Core == TypeOK /\ Admission /\ MutexAccounted

(* Evicting and appending keep a sequence of turns one.                    *)
LEMMA PushTyped ==
  ASSUME NEW items \in Seq(Turns), NEW turn \in Turns
  PROVE  Remembered(items, turn) \in Seq(Turns) /\ Recorded(items, turn) \in Seq(Turns)
<1>1. MaxItems \in Nat /\ Kept \in Nat /\ MaxItems > 0 /\ Kept > 0
  BY ChatAssumption DEF MaxItems, Kept
<1>2. Append(items, turn) \in Seq(Turns) /\ Append(items, turn) # <<>>
  BY AppendProperties
<1>3. Len(items) > 0 => Tail(items) \in Seq(Turns)
  OBVIOUS
<1>4. Tail(Append(items, turn)) \in Seq(Turns)
  BY <1>2
<1>5. Len(items) \in Nat
  OBVIOUS
<1>6. Append(Tail(items), turn) \in Seq(Turns) \/ Len(items) = 0
  BY <1>3, <1>5
<1>7. Remembered(items, turn) \in {Append(items, turn), Append(Tail(items), turn)}
      /\ (Len(items) = 0 => Remembered(items, turn) = Append(items, turn))
  BY <1>1, <1>5 DEF Remembered
<1>8. Recorded(items, turn) \in {Append(items, turn), Tail(Append(items, turn))}
  BY DEF Recorded
<1> QED BY <1>2, <1>4, <1>6, <1>7, <1>8

LEMMA ExchangeTyped ==
  ASSUME NEW r \in Requests
  PROVE  PushUser(r) \in Turns /\ PushAssistant(r) \in Turns
BY DEF PushUser, PushAssistant, Exchange, Turns, Roles

LEMMA PushesTyped ==
  ASSUME TypeOK, NEW r \in Requests, Pushes(r)
  PROVE  history' \in [Sessions -> Seq(Turns)] /\ window' \in [Sessions -> Seq(Turns)]
<1>1. SessionOf[r] \in Sessions
  BY ChatAssumption
<1>2. /\ history[SessionOf[r]] \in Seq(Turns) /\ window[SessionOf[r]] \in Seq(Turns)
      /\ history \in [Sessions -> Seq(Turns)] /\ window \in [Sessions -> Seq(Turns)]
  BY <1>1 DEF TypeOK
<1> DEFINE h == Recorded(history[SessionOf[r]], PushUser(r))
           w == Remembered(window[SessionOf[r]], PushUser(r))
<1>3. h \in Seq(Turns) /\ w \in Seq(Turns)
  BY <1>2, PushTyped, ExchangeTyped
<1>4. Recorded(h, PushAssistant(r)) \in Seq(Turns) /\ Remembered(w, PushAssistant(r)) \in Seq(Turns)
  BY <1>3, PushTyped, ExchangeTyped
<1> QED BY <1>1, <1>2, <1>4 DEF Pushes

(* A chat that leaves the queue leaves the others in it, in order.         *)
LEMMA UnqueuedSpec ==
  ASSUME NEW queue \in Seq(Requests), NEW r \in Requests, IsInjective(queue)
  PROVE  /\ Unqueued(queue, r) \in Seq(Requests)
         /\ IsInjective(Unqueued(queue, r))
         /\ \A q \in Requests : (\E i \in 1..Len(Unqueued(queue, r)) : Unqueued(queue, r)[i] = q)
                                  <=> q # r /\ \E i \in 1..Len(queue) : queue[i] = q
<1>1. CASE ~\E i \in 1..Len(queue) : queue[i] = r
  BY <1>1 DEF Unqueued
<1>2. CASE \E i \in 1..Len(queue) : queue[i] = r
  <2>1. PICK k \in 1..Len(queue) : queue[k] = r
    BY <1>2
  <2>2. \A i, j \in 1..Len(queue) : queue[i] = queue[j] => i = j
    BY DEF IsInjective
  <2> DEFINE u == [i \in 1..(Len(queue) - 1) |-> IF k <= i THEN queue[i + 1] ELSE queue[i]]
  <2>3. \A i \in 1..(Len(queue) - 1) : (\E j \in 1..i : queue[j] = r) <=> k <= i
    BY <2>1, <2>2
  <2>4. Unqueued(queue, r) = u
    BY <1>2, <2>3 DEF Unqueued
  <2>5. Len(queue) \in Nat /\ Len(queue) > 0
    BY <2>1
  <2>6. u \in Seq(Requests) /\ Len(u) = Len(queue) - 1
    BY <2>5
  <2>7. \A i, j \in 1..Len(u) : u[i] = u[j] => i = j
    BY <2>2, <2>6
  <2>8. \A i \in 1..Len(u) : u[i] # r /\ \E j \in 1..Len(queue) : queue[j] = u[i]
    <3> TAKE i \in 1..Len(u)
    <3>1. CASE k <= i
      BY <3>1, <2>1, <2>2, <2>6
    <3>2. CASE ~(k <= i)
      BY <3>2, <2>1, <2>2, <2>6
    <3> QED BY <3>1, <3>2
  <2>9. \A i \in 1..Len(queue) : queue[i] # r => \E j \in 1..Len(u) : u[j] = queue[i]
    <3> SUFFICES ASSUME NEW i \in 1..Len(queue), queue[i] # r
                 PROVE  \E j \in 1..Len(u) : u[j] = queue[i]
      OBVIOUS
    <3>1. CASE i < k
      <4>1. i \in 1..Len(u) /\ u[i] = queue[i]
        BY <3>1, <2>1, <2>6
      <4> QED BY <4>1
    <3>2. CASE i > k
      <4>1. i - 1 \in 1..Len(u) /\ u[i - 1] = queue[i]
        BY <3>2, <2>1, <2>6
      <4> QED BY <4>1
    <3>3. i # k /\ i \in Nat /\ k \in Nat
      BY <2>1, <2>5
    <3>4. i < k \/ i > k
      BY <3>3
    <3> HIDE DEF u
    <3> QED BY <3>1, <3>2, <3>4
  <2>10. IsInjective(u)
    <3>1. DOMAIN u = 1..Len(u)
      BY <2>6
    <3> HIDE DEF u
    <3> QED BY <2>7, <3>1 DEF IsInjective
  <2> HIDE DEF u
  <2>11. \A q \in Requests : (\E i \in 1..Len(u) : u[i] = q)
                               <=> q # r /\ \E i \in 1..Len(queue) : queue[i] = q
    BY <2>8, <2>9
  <2> QED BY <2>4, <2>6, <2>10, <2>11
<1> QED BY <1>1, <1>2

-----------------------------------------------------------------------------
(* Types                                                                   *)

LEMMA CountsTyped ==
  ASSUME metrics \in [Counters -> Nat], NEW names, Counts(names)
  PROVE  metrics' \in [Counters -> Nat]
BY DEF Counts

(* The steps one by one: what each proof about a step splits on.           *)
LEMMA NextCases ==
  ASSUME Next
  PROVE  \E r \in Requests :
           \/ Unauthenticated(r)
           \/ \E p \in CallersOf[r] \cap Principals : Denied(r, p) \/ Admitted(r, p)
           \/ Completed(r) \/ CompletionFails(r)
           \/ Acquire(r) \/ Compose(r) \/ Thought(r) \/ Reply(r) \/ LlmFails(r)
           \/ Dropped(r)
BY DEF Next, Arrive, Proceed

LEMMA TypeStep == Core /\ [Next]_vars => TypeOK'
<1> SUFFICES ASSUME Core, [Next]_vars PROVE TypeOK'
  OBVIOUS
<1> USE DEF Stages, Holding
<1>t. /\ pc \in [Requests -> Stages] /\ principal \in [Requests -> Principals \cup {Nobody}]
      /\ waiting \in Seq(Requests) /\ locked \in BOOLEAN
      /\ history \in [Sessions -> Seq(Turns)] /\ window \in [Sessions -> Seq(Turns)]
      /\ prompt \in [Requests -> Seq(Turns)]
      /\ granted \in [Requests -> 0..2] /\ refused \in [Requests -> 0..1]
      /\ metrics \in [Counters -> Nat] /\ IsInjective(waiting)
  BY DEF Core, TypeOK, MutexAccounted
<1>1. CASE UNCHANGED vars
  BY <1>1, <1>t DEF vars, requestVars, mutex, sessions, audit, TypeOK
<1>2. CASE Next
  <2>1. PICK r \in Requests :
          \/ Unauthenticated(r)
          \/ \E p \in CallersOf[r] \cap Principals : Denied(r, p) \/ Admitted(r, p)
          \/ Completed(r) \/ CompletionFails(r)
          \/ Acquire(r) \/ Compose(r) \/ Thought(r) \/ Reply(r) \/ LlmFails(r)
          \/ Dropped(r)
    BY <1>2, NextCases
  <2>g. /\ pc[r] \in {"idle", "queued", "completing"} => granted[r] = 0
        /\ pc[r] \in Holding => granted[r] = 1
        /\ pc[r] = "idle" => refused[r] = 0
    BY <1>t DEF Core, Admission
  <2>s. <<>> \in Seq(Turns)
    OBVIOUS
  <2> USE <1>t DEF Goes, Forgets, requestVars, mutex, sessions, audit, TypeOK
  <2>2. CASE Unauthenticated(r)
    BY <2>2, CountsTyped DEF Unauthenticated
  <2>3. ASSUME NEW p \in CallersOf[r] \cap Principals, Denied(r, p) PROVE TypeOK'
    BY <2>3, <2>g, CountsTyped DEF Denied
  <2>4. ASSUME NEW p \in CallersOf[r] \cap Principals, Admitted(r, p) PROVE TypeOK'
    <3>1. waiting' \in Seq(Requests)
      <4>1. Append(waiting, r) \in Seq(Requests)
        BY AppendProperties
      <4>2. waiting' = waiting \/ waiting' = Append(waiting, r)
        BY <2>4 DEF Admitted
      <4> QED BY <4>1, <4>2
    <3>2. metrics' \in [Counters -> Nat]
      BY <2>4, CountsTyped DEF Admitted
    <3>3. pc' \in [Requests -> Stages]
      BY <2>4 DEF Admitted
    <3>4. principal' \in [Requests -> Principals \cup {Nobody}]
      BY <2>4 DEF Admitted
    <3>5. UNCHANGED <<locked, sessions, prompt, audit>>
      BY <2>4 DEF Admitted
    <3> QED BY <3>1, <3>2, <3>3, <3>4, <3>5
  <2>5. CASE Completed(r)
    BY <2>5, <2>g, CountsTyped DEF Completed
  <2>6. CASE CompletionFails(r)
    BY <2>6 DEF CompletionFails
  <2>7. CASE Acquire(r)
    <3>1. waiting # <<>>
      <4>1. \E i \in 1..Len(waiting) : waiting[i] = r
        BY <2>7 DEF Acquire, Core, MutexAccounted
      <4> QED BY <4>1
    <3>2. waiting' \in Seq(Requests)
      BY <2>7, <3>1 DEF Acquire
    <3> QED BY <2>7, <2>g, <3>2, CountsTyped DEF Acquire
  <2>8. CASE Compose(r)
    <3>1. window[SessionOf[r]] \in Seq(Turns)
      BY ChatAssumption
    <3> QED BY <2>8, <3>1 DEF Compose
  <2>9. CASE Thought(r)
    BY <2>9 DEF Thought
  <2>10. CASE Reply(r)
    <3>1. history' \in [Sessions -> Seq(Turns)] /\ window' \in [Sessions -> Seq(Turns)]
      BY <2>10, PushesTyped DEF Reply
    <3>2. pc' \in [Requests -> Stages] /\ prompt' \in [Requests -> Seq(Turns)]
      BY <2>10, <2>s DEF Reply
    <3>3. granted' \in [Requests -> 0..2]
      BY <2>10, <2>g DEF Reply
    <3>4. metrics' \in [Counters -> Nat]
      BY <2>10, CountsTyped DEF Reply
    <3>5. locked' \in BOOLEAN /\ UNCHANGED <<principal, waiting, refused>>
      BY <2>10 DEF Reply
    <3> QED BY <3>1, <3>2, <3>3, <3>4, <3>5
  <2>11. CASE LlmFails(r)
    BY <2>11, <2>s DEF LlmFails
  <2>12. CASE Dropped(r)
    <3>1. waiting' \in Seq(Requests)
      BY <2>12, UnqueuedSpec DEF Dropped
    <3>2. pc' \in [Requests -> Stages] /\ prompt' \in [Requests -> Seq(Turns)]
      BY <2>12, <2>s DEF Dropped
    <3>3. locked' \in BOOLEAN
      BY <2>12 DEF Dropped
    <3>4. UNCHANGED <<principal, sessions, audit, metrics>>
      BY <2>12 DEF Dropped
    <3> QED BY <3>1, <3>2, <3>3, <3>4
  <2> QED BY <2>1, <2>2, <2>3, <2>4, <2>5, <2>6, <2>7, <2>8, <2>9, <2>10, <2>11, <2>12
<1> QED BY <1>1, <1>2

-----------------------------------------------------------------------------
(* Admission                                                               *)

LEMMA AdmissionStep == Core /\ [Next]_vars => Admission'
<1> SUFFICES ASSUME Core, [Next]_vars PROVE Admission'
  OBVIOUS
<1> USE DEF Holding
<1>t. /\ DOMAIN pc = Requests /\ DOMAIN principal = Requests
      /\ granted \in [Requests -> 0..2] /\ refused \in [Requests -> 0..1]
      /\ pc \in [Requests -> Stages] /\ principal \in [Requests -> Principals \cup {Nobody}]
      /\ Admission
  BY DEF Core, TypeOK
<1>r. \A r \in Requests : Rpc[r] \in {"chat", "nes_complete"}
  BY ChatAssumption
<1>1. CASE UNCHANGED vars
  BY <1>1, <1>t DEF vars, requestVars, audit, Admission
<1>2. CASE Next
  <2>1. PICK r \in Requests :
          \/ Unauthenticated(r)
          \/ \E p \in CallersOf[r] \cap Principals : Denied(r, p) \/ Admitted(r, p)
          \/ Completed(r) \/ CompletionFails(r)
          \/ Acquire(r) \/ Compose(r) \/ Thought(r) \/ Reply(r) \/ LlmFails(r)
          \/ Dropped(r)
    BY <1>2, NextCases
  <2> USE <1>t, <1>r DEF Goes, requestVars, audit, Admission
  <2>2. CASE Unauthenticated(r)
    BY <2>2 DEF Unauthenticated
  <2>3. ASSUME NEW p \in CallersOf[r] \cap Principals, Denied(r, p) PROVE Admission'
    BY <2>3, ChatAssumption DEF Denied
  <2>4. ASSUME NEW p \in CallersOf[r] \cap Principals, Admitted(r, p) PROVE Admission'
    BY <2>4 DEF Admitted, Allowed
  <2>5. CASE Completed(r)
    BY <2>5 DEF Completed
  <2>6. CASE CompletionFails(r)
    BY <2>6 DEF CompletionFails
  <2>7. CASE Acquire(r)
    BY <2>7 DEF Acquire
  <2>8. CASE Compose(r)
    BY <2>8 DEF Compose
  <2>9. CASE Thought(r)
    BY <2>9 DEF Thought
  <2>10. CASE Reply(r)
    BY <2>10 DEF Reply
  <2>11. CASE LlmFails(r)
    BY <2>11 DEF LlmFails
  <2>12. CASE Dropped(r)
    BY <2>12 DEF Dropped
  <2> QED BY <2>1, <2>2, <2>3, <2>4, <2>5, <2>6, <2>7, <2>8, <2>9, <2>10, <2>11, <2>12
<1> QED BY <1>1, <1>2

-----------------------------------------------------------------------------
(* The mutex                                                               *)

InQueue(q) == \E i \in 1..Len(waiting) : waiting[i] = q

(* A request that moves outside the mutex and its queue.                   *)
LEMMA MutexAside ==
  ASSUME Core, NEW r \in Requests, NEW stage, Goes(r, stage), UNCHANGED mutex,
         pc[r] \notin {"queued"} \cup Holding, stage \notin {"queued"} \cup Holding
  PROVE  MutexAccounted'
<1>1. pc \in [Requests -> Stages]
  BY DEF Core, TypeOK
<1>2. \A q \in Requests : /\ pc'[q] \in Holding <=> pc[q] \in Holding
                          /\ pc'[q] = "queued" <=> pc[q] = "queued"
  BY <1>1 DEF Goes
<1> QED BY <1>2 DEF Core, MutexAccounted, mutex, Holding

(* One that moves within the critical section.                             *)
LEMMA MutexWithin ==
  ASSUME Core, NEW r \in Requests, NEW stage, Goes(r, stage), UNCHANGED mutex,
         pc[r] \in Holding, stage \in Holding
  PROVE  MutexAccounted'
<1>1. pc \in [Requests -> Stages]
  BY DEF Core, TypeOK
<1>2. \A q \in Requests : /\ pc'[q] \in Holding <=> pc[q] \in Holding
                          /\ pc'[q] = "queued" <=> pc[q] = "queued"
  BY <1>1 DEF Goes, Holding
<1> QED BY <1>2 DEF Core, MutexAccounted, mutex, Holding

(* One that leaves it.                                                     *)
LEMMA MutexReleased ==
  ASSUME Core, NEW r \in Requests, NEW stage, Goes(r, stage),
         locked' = FALSE, waiting' = waiting,
         pc[r] \in Holding, stage \notin {"queued"} \cup Holding
  PROVE  MutexAccounted'
<1>1. pc \in [Requests -> Stages]
  BY DEF Core, TypeOK
<1>2. \A q \in Requests : pc[q] \in Holding => q = r
  BY DEF Core, MutexAccounted
<1>3. \A q \in Requests : /\ pc'[q] \notin Holding
                          /\ pc'[q] = "queued" <=> pc[q] = "queued"
  BY <1>1, <1>2 DEF Goes, Holding
<1> QED BY <1>3 DEF Core, MutexAccounted, Holding

LEMMA MutexStep == Core /\ [Next]_vars => MutexAccounted'
<1> SUFFICES ASSUME Core, [Next]_vars PROVE MutexAccounted'
  OBVIOUS
<1>t. /\ pc \in [Requests -> Stages] /\ waiting \in Seq(Requests)
      /\ locked \in BOOLEAN /\ IsInjective(waiting) /\ MutexAccounted
      /\ \A q \in Requests : pc[q] = "queued" <=> InQueue(q)
  BY DEF Core, TypeOK, MutexAccounted, InQueue
<1>1. CASE UNCHANGED vars
  BY <1>1, <1>t DEF vars, requestVars, mutex, MutexAccounted
<1>2. CASE Next
  <2>1. PICK r \in Requests :
          \/ Unauthenticated(r)
          \/ \E p \in CallersOf[r] \cap Principals : Denied(r, p) \/ Admitted(r, p)
          \/ Completed(r) \/ CompletionFails(r)
          \/ Acquire(r) \/ Compose(r) \/ Thought(r) \/ Reply(r) \/ LlmFails(r)
          \/ Dropped(r)
    BY <1>2, NextCases
  <2>2. CASE Unauthenticated(r)
    BY <2>2, MutexAside DEF Unauthenticated, Holding
  <2>3. ASSUME NEW p \in CallersOf[r] \cap Principals, Denied(r, p) PROVE MutexAccounted'
    BY <2>3, MutexAside DEF Denied, Holding
  <2>4. ASSUME NEW p \in CallersOf[r] \cap Principals, Admitted(r, p) PROVE MutexAccounted'
    <3>1. CASE Rpc[r] = "nes_complete"
      <4>1. Goes(r, "completing") /\ UNCHANGED mutex /\ pc[r] = "idle"
        BY <2>4, <3>1 DEF Admitted, mutex
      <4> QED BY <4>1, MutexAside DEF Holding
    <3>2. CASE Rpc[r] = "chat"
      <4>1. pc[r] = "idle" /\ pc' = [pc EXCEPT ![r] = "queued"]
            /\ waiting' = Append(waiting, r) /\ locked' = locked
        BY <2>4, <3>2 DEF Admitted, Goes
      <4>2. ~InQueue(r)
        BY <4>1, <1>t
      <4>3. /\ Len(waiting') = Len(waiting) + 1 /\ Len(waiting) \in Nat
            /\ \A i \in 1..Len(waiting) : waiting'[i] = waiting[i]
            /\ waiting'[Len(waiting) + 1] = r /\ DOMAIN waiting' = 1..Len(waiting')
        BY <4>1, <1>t, AppendProperties
      <4>4. \A q \in Requests : (\E i \in 1..Len(waiting') : waiting'[i] = q) <=> InQueue(q) \/ q = r
        BY <4>3 DEF InQueue
      <4>5. \A i, j \in 1..Len(waiting') : waiting'[i] = waiting'[j] => i = j
        <5>1. \A i, j \in 1..Len(waiting) : waiting[i] = waiting[j] => i = j
          BY <1>t DEF IsInjective
        <5>2. \A i \in 1..Len(waiting') : i \in 1..Len(waiting) \/ i = Len(waiting) + 1
          BY <4>3
        <5> QED BY <5>1, <5>2, <4>2, <4>3 DEF InQueue
      <4>6. IsInjective(waiting')
        BY <4>3, <4>5 DEF IsInjective
      <4>7. \A q \in Requests : /\ pc'[q] \in Holding <=> pc[q] \in Holding
                                /\ pc'[q] = "queued" <=> (pc[q] = "queued" \/ q = r)
        BY <4>1, <1>t DEF Holding
      <4> QED BY <4>1, <4>4, <4>6, <4>7, <1>t DEF MutexAccounted, Holding
    <3> QED BY <3>1, <3>2, ChatAssumption
  <2>5. CASE Completed(r)
    BY <2>5, MutexAside DEF Completed, Holding
  <2>6. CASE CompletionFails(r)
    BY <2>6, MutexAside DEF CompletionFails, Holding
  <2>7. CASE Acquire(r)
    <3>1. pc[r] = "queued" /\ pc' = [pc EXCEPT ![r] = "recording"] /\ ~locked
          /\ locked' = TRUE /\ r = Head(waiting) /\ waiting' = Tail(waiting)
      BY <2>7 DEF Acquire, Goes
    <3>2. waiting # <<>> /\ Len(waiting) > 0
      <4>1. InQueue(r)
        BY <3>1, <1>t
      <4> QED BY <4>1, <1>t DEF InQueue
    <3>3. /\ Len(waiting) \in Nat /\ Len(waiting') = Len(waiting) - 1 /\ waiting[1] = r
          /\ \A i \in 1..Len(waiting') : waiting'[i] = waiting[i + 1]
          /\ DOMAIN waiting' = 1..Len(waiting')
      BY <3>1, <3>2, <1>t
    <3>4. \A i, j \in 1..Len(waiting) : waiting[i] = waiting[j] => i = j
      BY <1>t DEF IsInjective
    <3>5. \A i, j \in 1..Len(waiting') : waiting'[i] = waiting'[j] => i = j
      BY <3>3, <3>4
    <3>6. IsInjective(waiting')
      BY <3>3, <3>5 DEF IsInjective
    <3>7. \A q \in Requests : (\E i \in 1..Len(waiting') : waiting'[i] = q) <=> InQueue(q) /\ q # r
      <4> TAKE q \in Requests
      <4>1. ASSUME NEW i \in 1..Len(waiting'), waiting'[i] = q PROVE InQueue(q) /\ q # r
        <5>1. i + 1 \in 1..Len(waiting) /\ i + 1 # 1 /\ 1 \in 1..Len(waiting)
          BY <3>3
        <5>2. waiting[i + 1] = q /\ waiting[1] = r
          BY <4>1, <3>3
        <5> QED BY <5>1, <5>2, <3>4 DEF InQueue
      <4>2. ASSUME NEW i \in 1..Len(waiting), waiting[i] = q, q # r
            PROVE  \E j \in 1..Len(waiting') : waiting'[j] = q
        <5>1. i # 1
          BY <4>2, <3>3
        <5>2. i - 1 \in 1..Len(waiting') /\ waiting'[i - 1] = waiting[i]
          BY <5>1, <3>3
        <5> QED BY <5>2, <4>2
      <4> QED BY <4>1, <4>2 DEF InQueue
    <3>8. \A q \in Requests : pc[q] \notin Holding
      BY <3>1, <1>t DEF MutexAccounted
    <3>9. \A q \in Requests : /\ pc'[q] \in Holding <=> q = r
                              /\ pc'[q] = "queued" <=> (pc[q] = "queued" /\ q # r)
      BY <3>1, <3>8, <1>t DEF Holding
    <3> QED BY <3>1, <3>6, <3>7, <3>9, <1>t DEF MutexAccounted, Holding
  <2>8. CASE Compose(r)
    BY <2>8, MutexWithin DEF Compose, Holding
  <2>9. CASE Thought(r)
    BY <2>9, MutexWithin DEF Thought, Holding
  <2>10. CASE Reply(r)
    BY <2>10, MutexReleased DEF Reply, Holding
  <2>11. CASE LlmFails(r)
    BY <2>11, MutexReleased DEF LlmFails, Holding
  <2>12. CASE Dropped(r)
    <3>1. /\ pc[r] \in {"queued", "completing"} \cup Holding
          /\ Goes(r, "gone") /\ waiting' = Unqueued(waiting, r)
          /\ locked' = (locked /\ pc[r] \notin Holding)
      BY <2>12 DEF Dropped
    <3>2. CASE pc[r] # "queued"
      <4>1. waiting' = waiting
        <5>1. ~InQueue(r)
          BY <3>2, <1>t
        <5> QED BY <3>1, <5>1 DEF Unqueued, InQueue
      <4>2. CASE pc[r] \in Holding
        <5>1. locked' = FALSE
          BY <3>1, <4>2
        <5> QED BY <3>1, <4>1, <4>2, <5>1, MutexReleased DEF Holding
      <4>3. CASE pc[r] \notin Holding
        <5>1. locked' = locked
          BY <3>1, <4>3, <1>t
        <5> QED BY <3>1, <3>2, <4>1, <4>3, <5>1, MutexAside DEF mutex, Holding
      <4> QED BY <4>2, <4>3
    <3>3. CASE pc[r] = "queued"
      <4>1. locked' = locked
        BY <3>1, <3>3, <1>t DEF Holding
      <4>2. /\ IsInjective(waiting')
            /\ \A q \in Requests : (\E i \in 1..Len(waiting') : waiting'[i] = q) <=> q # r /\ InQueue(q)
        <5> DEFINE u == Unqueued(waiting, r)
        <5>1. /\ IsInjective(u)
              /\ \A q \in Requests : (\E i \in 1..Len(u) : u[i] = q) <=> q # r /\ InQueue(q)
          BY <1>t, UnqueuedSpec DEF InQueue
        <5>2. waiting' = u
          BY <3>1
        <5> HIDE DEF u
        <5> QED BY <5>1, <5>2
      <4>3. \A q \in Requests : /\ pc'[q] \in Holding <=> pc[q] \in Holding
                                /\ pc'[q] = "queued" <=> (pc[q] = "queued" /\ q # r)
        BY <3>1, <3>3, <1>t DEF Holding, Goes
      <4> QED BY <4>1, <4>2, <4>3, <1>t DEF MutexAccounted, Holding
    <3> QED BY <3>2, <3>3
  <2> QED BY <2>1, <2>2, <2>3, <2>4, <2>5, <2>6, <2>7, <2>8, <2>9, <2>10, <2>11, <2>12
<1> QED BY <1>1, <1>2

-----------------------------------------------------------------------------
(* What the model sees, and what a session remembers                       *)

LEMMA PromptStep == Core /\ PromptUpToDate /\ [Next]_vars => PromptUpToDate'
<1> SUFFICES ASSUME Core, PromptUpToDate, [Next]_vars PROVE PromptUpToDate'
  OBVIOUS
<1>t. /\ pc \in [Requests -> Stages] /\ prompt \in [Requests -> Seq(Turns)]
      /\ \A q, r \in Requests : pc[q] \in Holding /\ pc[r] \in Holding => q = r
  BY DEF Core, TypeOK, MutexAccounted
<1> USE <1>t DEF PromptUpToDate, Holding, Goes, Forgets, sessions, audit, mutex
<1>1. CASE UNCHANGED vars
  BY <1>1 DEF vars, requestVars
<1>2. CASE Next
  <2>1. PICK r \in Requests :
          \/ Unauthenticated(r)
          \/ \E p \in CallersOf[r] \cap Principals : Denied(r, p) \/ Admitted(r, p)
          \/ Completed(r) \/ CompletionFails(r)
          \/ Acquire(r) \/ Compose(r) \/ Thought(r) \/ Reply(r) \/ LlmFails(r)
          \/ Dropped(r)
    BY <1>2, NextCases
  <2>2. CASE Unauthenticated(r)
    BY <2>2 DEF Unauthenticated
  <2>3. ASSUME NEW p \in CallersOf[r] \cap Principals, Denied(r, p) PROVE PromptUpToDate'
    BY <2>3 DEF Denied
  <2>4. ASSUME NEW p \in CallersOf[r] \cap Principals, Admitted(r, p) PROVE PromptUpToDate'
    BY <2>4 DEF Admitted
  <2>5. CASE Completed(r)
    BY <2>5 DEF Completed
  <2>6. CASE CompletionFails(r)
    BY <2>6 DEF CompletionFails
  <2>7. CASE Acquire(r)
    BY <2>7 DEF Acquire
  <2>8. CASE Compose(r)
    BY <2>8 DEF Compose
  <2>9. CASE Thought(r)
    BY <2>9 DEF Thought
  <2>10. CASE Reply(r)
    <3>1. \A q \in Requests : pc'[q] \notin Holding
      BY <2>10 DEF Reply
    <3> QED BY <3>1
  <2>11. CASE LlmFails(r)
    BY <2>11 DEF LlmFails
  <2>12. CASE Dropped(r)
    BY <2>12 DEF Dropped
  <2> QED BY <2>1, <2>2, <2>3, <2>4, <2>5, <2>6, <2>7, <2>8, <2>9, <2>10, <2>11, <2>12
<1> QED BY <1>1, <1>2

(* The turns of a session are of chats of its own that were replied to.    *)
OwnReplies ==
  \A s \in Sessions : \A i \in 1..Len(window[s]) :
    LET r == window[s][i].by
    IN pc[r] = "replied" /\ Rpc[r] = "chat" /\ SessionOf[r] = s

(* Remembered adds the turn and nothing else.                              *)
LEMMA RememberedContents ==
  ASSUME NEW items \in Seq(Turns), NEW turn \in Turns,
         NEW i \in 1..Len(Remembered(items, turn))
  PROVE  \/ Remembered(items, turn)[i] = turn
         \/ \E j \in 1..Len(items) : Remembered(items, turn)[i] = items[j]
<1>1. MaxItems \in Nat /\ MaxItems > 0 /\ Len(items) \in Nat
  BY ChatAssumption DEF MaxItems
<1>2. CASE Len(items) = MaxItems
  <2>1. Remembered(items, turn) = Append(Tail(items), turn)
    BY <1>2 DEF Remembered
  <2>2. Tail(items) \in Seq(Turns) /\ Len(Tail(items)) = Len(items) - 1
        /\ \A j \in 1..(Len(items) - 1) : Tail(items)[j] = items[j + 1]
    BY <1>1, <1>2
  <2> DEFINE kept == Tail(items)
  <2>3. /\ Len(Append(kept, turn)) = Len(items) /\ Append(kept, turn)[Len(items)] = turn
        /\ \A j \in 1..(Len(items) - 1) : Append(kept, turn)[j] = kept[j]
    <3>1. kept \in Seq(Turns) /\ Len(kept) = Len(items) - 1
      BY <2>2
    <3>2. /\ Len(Append(kept, turn)) = Len(kept) + 1 /\ Append(kept, turn)[Len(kept) + 1] = turn
          /\ \A j \in 1..Len(kept) : Append(kept, turn)[j] = kept[j]
      BY <3>1, AppendProperties
    <3> HIDE DEF kept
    <3> QED BY <1>1, <3>1, <3>2
  <2>4. i \in 1..(Len(items) - 1) \/ i = Len(items)
    BY <1>1, <2>1, <2>3
  <2>5. CASE i \in 1..(Len(items) - 1)
    <3>1. Append(kept, turn)[i] = items[i + 1] /\ i + 1 \in 1..Len(items)
      BY <1>1, <2>2, <2>3, <2>5
    <3> QED BY <2>1, <3>1
  <2> QED BY <2>1, <2>3, <2>4, <2>5
<1>3. CASE Len(items) # MaxItems
  <2>1. Remembered(items, turn) = Append(items, turn)
    BY <1>3 DEF Remembered
  <2> QED BY <1>1, <2>1
<1> QED BY <1>2, <1>3

LEMMA OwnRepliesStep == Core /\ OwnReplies /\ [Next]_vars => OwnReplies'
<1> SUFFICES ASSUME Core, OwnReplies, [Next]_vars PROVE OwnReplies'
  OBVIOUS
<1>t. /\ pc \in [Requests -> Stages] /\ window \in [Sessions -> Seq(Turns)] /\ TypeOK
      /\ \A s \in Sessions : \A i \in 1..Len(window[s]) : window[s][i] \in Turns
  BY DEF Core, TypeOK
<1>1. ASSUME NEW r \in Requests, NEW stage, Goes(r, stage), pc[r] # "replied", UNCHANGED window
      PROVE  OwnReplies'
  BY <1>1, <1>t DEF Goes, OwnReplies, Turns
<1>2. CASE UNCHANGED vars
  BY <1>2 DEF vars, requestVars, sessions, OwnReplies
<1>3. CASE Next
  <2>1. PICK r \in Requests :
          \/ Unauthenticated(r)
          \/ \E p \in CallersOf[r] \cap Principals : Denied(r, p) \/ Admitted(r, p)
          \/ Completed(r) \/ CompletionFails(r)
          \/ Acquire(r) \/ Compose(r) \/ Thought(r) \/ Reply(r) \/ LlmFails(r)
          \/ Dropped(r)
    BY <1>3, NextCases
  <2>2. CASE ~Reply(r)
    <3>1. /\ pc[r] # "replied" /\ UNCHANGED window
          /\ \E stage \in Stages : Goes(r, stage)
      BY <2>1, <2>2 DEF Stages, Holding, sessions, Unauthenticated, Denied, Admitted,
                        Completed, CompletionFails, Acquire, Compose, Thought, LlmFails, Dropped
    <3> QED BY <1>1, <3>1
  <2>3. CASE Reply(r)
    <3> DEFINE own == SessionOf[r]
               w == Remembered(window[own], PushUser(r))
    <3>1. /\ own \in Sessions /\ window[own] \in Seq(Turns)
          /\ PushUser(r) \in Turns /\ PushAssistant(r) \in Turns /\ w \in Seq(Turns)
      BY <1>t, ChatAssumption, ExchangeTyped, PushTyped
    <3>2. /\ window' = [window EXCEPT ![own] = Remembered(w, PushAssistant(r))]
          /\ Goes(r, "replied") /\ pc[r] = "planning" /\ Rpc[r] = "chat"
      BY <2>3 DEF Reply, Pushes, Core, Admission, Holding
    <3>3. PushUser(r).by = r /\ PushAssistant(r).by = r
      BY DEF PushUser, PushAssistant, Exchange
    <3>4. ASSUME NEW i \in 1..Len(window'[own])
          PROVE  window'[own][i].by = r \/ \E j \in 1..Len(window[own]) : window'[own][i] = window[own][j]
      <4>1. window'[own] = Remembered(w, PushAssistant(r))
        BY <1>t, <3>1, <3>2
      <4>2. window'[own][i] = PushAssistant(r) \/ \E j \in 1..Len(w) : window'[own][i] = w[j]
        BY <4>1, <3>1, RememberedContents
      <4>3. \A j \in 1..Len(w) : w[j] = PushUser(r) \/ \E k \in 1..Len(window[own]) : w[j] = window[own][k]
        BY <3>1, RememberedContents
      <4> QED BY <4>2, <4>3, <3>3
    <3>5. \A s \in Sessions : s # own => window'[s] = window[s]
      BY <1>t, <3>2
    <3>6. \A q \in Requests : pc'[q] = (IF q = r THEN "replied" ELSE pc[q])
      BY <1>t, <3>2 DEF Goes
    <3>7. ASSUME NEW s \in Sessions, NEW i \in 1..Len(window'[s])
          PROVE  LET q == window'[s][i].by
                 IN pc'[q] = "replied" /\ Rpc[q] = "chat" /\ SessionOf[q] = s
      <4>1. ASSUME NEW j \in 1..Len(window[s]), window'[s][i] = window[s][j]
            PROVE  LET q == window'[s][i].by
                   IN pc'[q] = "replied" /\ Rpc[q] = "chat" /\ SessionOf[q] = s
        <5>1. window[s][j].by \in Requests
          BY <1>t DEF Turns
        <5> QED BY <4>1, <5>1, <3>6 DEF OwnReplies
      <4>2. CASE s = own
        <5>1. CASE window'[own][i].by = r
          BY <5>1, <4>2, <3>2, <3>6
        <5> QED BY <5>1, <4>1, <4>2, <3>4
      <4>3. CASE s # own
        BY <4>1, <4>3, <3>5
      <4> QED BY <4>2, <4>3
    <3> QED BY <3>7 DEF OwnReplies
  <2> QED BY <2>2, <2>3
<1> QED BY <1>2, <1>3

-----------------------------------------------------------------------------
(* The two memories                                                        *)

(* pushed is items with turn behind it and, if limit is reached, without   *)
(* its oldest.                                                             *)
Pushed(pushed, items, turn, limit) ==
  /\ Len(pushed) = (IF Len(items) = limit THEN limit ELSE Len(items) + 1)
  /\ pushed[Len(pushed)] = turn
  /\ \A i \in 1..(Len(pushed) - 1) : pushed[i] = items[Len(items) - Len(pushed) + 1 + i]

LEMMA RememberedPushed ==
  ASSUME NEW items \in Seq(Turns), NEW turn \in Turns
  PROVE  Pushed(Remembered(items, turn), items, turn, MaxItems)
<1>1. MaxItems \in Nat /\ MaxItems > 0 /\ Len(items) \in Nat
  BY ChatAssumption DEF MaxItems
<1>2. CASE Len(items) = MaxItems
  <2> DEFINE kept == Tail(items)
             new == Append(kept, turn)
  <2>1. /\ kept \in Seq(Turns) /\ Len(kept) = Len(items) - 1
        /\ \A j \in 1..(Len(items) - 1) : kept[j] = items[j + 1]
    BY <1>1, <1>2
  <2> HIDE DEF kept
  <2>2. /\ Len(new) = Len(kept) + 1 /\ new[Len(kept) + 1] = turn
        /\ \A j \in 1..Len(kept) : new[j] = kept[j]
    BY <2>1, AppendProperties
  <2>3. Remembered(items, turn) = new
    BY <1>2 DEF Remembered, kept
  <2> HIDE DEF new
  <2>4. Len(new) = Len(items) /\ new[Len(new)] = turn
    BY <1>1, <2>1, <2>2
  <2>5. \A i \in 1..(Len(new) - 1) : new[i] = items[Len(items) - Len(new) + 1 + i]
    <3> TAKE i \in 1..(Len(new) - 1)
    <3>1. i \in 1..Len(kept) /\ Len(items) - Len(new) + 1 + i = i + 1
      BY <1>1, <2>1, <2>4
    <3> QED BY <3>1, <2>1, <2>2, <2>4
  <2> QED BY <1>2, <2>3, <2>4, <2>5 DEF Pushed
<1>3. CASE Len(items) # MaxItems
  <2> DEFINE new == Append(items, turn)
  <2>1. /\ Len(new) = Len(items) + 1 /\ new[Len(items) + 1] = turn
        /\ \A j \in 1..Len(items) : new[j] = items[j]
    BY AppendProperties
  <2>2. Remembered(items, turn) = new
    BY <1>3 DEF Remembered
  <2> HIDE DEF new
  <2>3. \A i \in 1..(Len(new) - 1) : new[i] = items[Len(items) - Len(new) + 1 + i]
    <3> TAKE i \in 1..(Len(new) - 1)
    <3>1. i \in 1..Len(items) /\ Len(items) - Len(new) + 1 + i = i
      BY <1>1, <2>1
    <3> QED BY <3>1, <2>1
  <2> QED BY <1>1, <1>3, <2>1, <2>2, <2>3 DEF Pushed
<1> QED BY <1>2, <1>3

LEMMA RecordedPushed ==
  ASSUME NEW items \in Seq(Turns), NEW turn \in Turns
  PROVE  Pushed(Recorded(items, turn), items, turn, Kept)
<1>1. Kept \in Nat /\ Kept > 0 /\ Len(items) \in Nat
  BY ChatAssumption DEF Kept
<1> DEFINE all == Append(items, turn)
<1>2. /\ all \in Seq(Turns) /\ Len(all) = Len(items) + 1 /\ all[Len(items) + 1] = turn
      /\ \A j \in 1..Len(items) : all[j] = items[j]
  BY AppendProperties
<1>3. Recorded(items, turn) = (IF Len(items) = Kept THEN Tail(all) ELSE all)
  BY DEF Recorded
<1> HIDE DEF all
<1>4. CASE Len(items) = Kept
  <2> DEFINE new == Tail(all)
  <2>1. /\ Len(new) = Len(items)
        /\ \A j \in 1..Len(items) : new[j] = all[j + 1]
    BY <1>1, <1>2
  <2>2. Recorded(items, turn) = new
    BY <1>3, <1>4
  <2> HIDE DEF new
  <2>3. new[Len(new)] = turn
    BY <1>1, <1>2, <1>4, <2>1
  <2>4. \A i \in 1..(Len(new) - 1) : new[i] = items[Len(items) - Len(new) + 1 + i]
    <3> TAKE i \in 1..(Len(new) - 1)
    <3>1. i \in 1..Len(items) /\ i + 1 \in 1..Len(items) /\ Len(items) - Len(new) + 1 + i = i + 1
      BY <1>1, <2>1
    <3> QED BY <3>1, <2>1, <1>2
  <2> QED BY <1>4, <2>1, <2>2, <2>3, <2>4 DEF Pushed
<1>5. CASE Len(items) # Kept
  <2>1. \A i \in 1..(Len(all) - 1) : all[i] = items[Len(items) - Len(all) + 1 + i]
    <3> TAKE i \in 1..(Len(all) - 1)
    <3>1. i \in 1..Len(items) /\ Len(items) - Len(all) + 1 + i = i
      BY <1>1, <1>2
    <3> QED BY <3>1, <1>2
  <2> QED BY <1>1, <1>2, <1>3, <1>5, <2>1 DEF Pushed
<1> QED BY <1>4, <1>5

(* The newest turns of w, as many as the history keeps, are h.             *)
Agree(h, w) ==
  /\ Len(w) <= MaxItems
  /\ Len(h) = (IF Len(w) < Kept THEN Len(w) ELSE Kept)
  /\ \A i \in 1..Len(h) : h[i] = w[Len(w) - Len(h) + i]

(* The two evictions, one before its push and one after, keep them so:     *)
(* the window has room for all that the history keeps.                     *)
LEMMA PushAgrees ==
  ASSUME NEW h \in Seq(Turns), NEW w \in Seq(Turns), NEW turn \in Turns, Agree(h, w)
  PROVE  Agree(Recorded(h, turn), Remembered(w, turn))
<1> DEFINE R == Recorded(h, turn)
           M == Remembered(w, turn)
<1>1. /\ Pushed(R, h, turn, Kept) /\ Pushed(M, w, turn, MaxItems)
      /\ Len(R) \in Nat /\ Len(M) \in Nat
  <2>1. R \in Seq(Turns) /\ M \in Seq(Turns)
    BY PushTyped
  <2>2. Pushed(R, h, turn, Kept) /\ Pushed(M, w, turn, MaxItems)
    BY RecordedPushed, RememberedPushed
  <2> HIDE DEF R, M
  <2> QED BY <2>1, <2>2
<1>2. /\ Kept \in Nat /\ MaxItems \in Nat /\ Kept > 0 /\ Kept <= MaxItems
      /\ Len(h) \in Nat /\ Len(w) \in Nat
  BY ChatAssumption DEF Kept, MaxItems
<1> HIDE DEF R, M
<1>3. /\ Len(R) = (IF Len(h) = Kept THEN Kept ELSE Len(h) + 1)
      /\ Len(M) = (IF Len(w) = MaxItems THEN MaxItems ELSE Len(w) + 1)
      /\ Len(w) <= MaxItems /\ Len(h) = (IF Len(w) < Kept THEN Len(w) ELSE Kept)
  BY <1>1 DEF Pushed, Agree
<1>4. Len(M) <= MaxItems /\ Len(R) = (IF Len(M) < Kept THEN Len(M) ELSE Kept)
  BY <1>2, <1>3
<1>5. \A i \in 1..Len(R) : R[i] = M[Len(M) - Len(R) + i]
  <2> TAKE i \in 1..Len(R)
  <2>1. CASE i = Len(R)
    <3>1. Len(M) - Len(R) + i = Len(M)
      BY <1>1, <2>1
    <3> QED BY <2>1, <3>1, <1>1 DEF Pushed
  <2>2. CASE i # Len(R)
    <3> DEFINE a == Len(h) - Len(R) + 1 + i
               b == Len(M) - Len(R) + i
    <3>1. i \in 1..(Len(R) - 1) /\ a \in 1..Len(h) /\ b \in 1..(Len(M) - 1)
      <4>1. i \in Nat /\ 1 <= i /\ i < Len(R)
        BY <1>1, <2>2
      <4>2. Len(h) - Len(R) \in {0, -1} /\ Len(R) <= Len(M) /\ Len(h) >= Len(R) - 1
        BY <1>1, <1>2, <1>3, <1>4
      <4>3. a \in Nat /\ 1 <= a /\ a <= Len(h)
        BY <4>1, <4>2, <1>1, <1>2
      <4>4. b \in Nat /\ 1 <= b /\ b <= Len(M) - 1
        BY <4>1, <4>2, <1>1, <1>2
      <4> HIDE DEF a, b
      <4> QED BY <4>1, <4>3, <4>4, <1>1, <1>2
    <3>2. Len(w) - Len(h) + a = Len(w) - Len(M) + 1 + b
      BY <1>1, <1>2, <3>1
    <3>3. R[i] = h[a]
      BY <1>1, <3>1 DEF Pushed
    <3>4. M[b] = w[Len(w) - Len(M) + 1 + b]
      BY <1>1, <3>1 DEF Pushed
    <3>5. h[a] = w[Len(w) - Len(h) + a]
      BY <3>1 DEF Agree
    <3> QED BY <3>2, <3>3, <3>4, <3>5
  <2> QED BY <2>1, <2>2
<1> QED BY <1>4, <1>5 DEF Agree, R, M

Memories == \A s \in Sessions : Agree(history[s], window[s])

(* What the history holds, the window holds.                               *)
LEMMA AgreeInside ==
  ASSUME NEW h \in Seq(Turns), NEW w \in Seq(Turns), Agree(h, w)
  PROVE  /\ Len(h) <= Kept /\ Len(w) <= MaxItems
         /\ \A i \in 1..Len(h) : \E j \in 1..Len(w) : h[i] = w[j]
<1>1. Kept \in Nat /\ Len(h) \in Nat /\ Len(w) \in Nat
  BY ChatAssumption DEF Kept
<1>2. Len(h) <= Len(w) /\ Len(h) <= Kept /\ Len(w) <= MaxItems
  BY <1>1 DEF Agree
<1>3. ASSUME NEW i \in 1..Len(h)
      PROVE  \E j \in 1..Len(w) : h[i] = w[j]
  <2>1. Len(w) - Len(h) + i \in 1..Len(w)
    BY <1>1, <1>2
  <2> QED BY <2>1 DEF Agree
<1> QED BY <1>2, <1>3

LEMMA MemoriesStep == Core /\ Memories /\ [Next]_vars => Memories'
<1> SUFFICES ASSUME Core, Memories, [Next]_vars PROVE Memories'
  OBVIOUS
<1>t. history \in [Sessions -> Seq(Turns)] /\ window \in [Sessions -> Seq(Turns)]
  BY DEF Core, TypeOK
<1>1. ASSUME UNCHANGED sessions PROVE Memories'
  <2>1. history' = history /\ window' = window
    BY <1>1 DEF sessions
  <2> QED BY <2>1 DEF Memories, Agree, Kept, MaxItems
<1>2. CASE UNCHANGED vars
  BY <1>1, <1>2 DEF vars, sessions
<1>3. CASE Next
  <2>1. PICK r \in Requests :
          \/ Unauthenticated(r)
          \/ \E p \in CallersOf[r] \cap Principals : Denied(r, p) \/ Admitted(r, p)
          \/ Completed(r) \/ CompletionFails(r)
          \/ Acquire(r) \/ Compose(r) \/ Thought(r) \/ Reply(r) \/ LlmFails(r)
          \/ Dropped(r)
    BY <1>3, NextCases
  <2>2. CASE ~Reply(r)
    <3>1. UNCHANGED sessions
      BY <2>1, <2>2 DEF Unauthenticated, Denied, Admitted, Completed, CompletionFails,
                        Acquire, Compose, Thought, LlmFails, Dropped
    <3> QED BY <1>1, <3>1
  <2>3. CASE Reply(r)
    <3> DEFINE own == SessionOf[r]
               h1 == Recorded(history[own], PushUser(r))
               w1 == Remembered(window[own], PushUser(r))
               h2 == Recorded(h1, PushAssistant(r))
               w2 == Remembered(w1, PushAssistant(r))
    <3>1. /\ own \in Sessions /\ window[own] \in Seq(Turns) /\ history[own] \in Seq(Turns)
          /\ PushUser(r) \in Turns /\ PushAssistant(r) \in Turns
          /\ Agree(history[own], window[own])
      BY <1>t, ChatAssumption, ExchangeTyped DEF Memories
    <3>2. h1 \in Seq(Turns) /\ w1 \in Seq(Turns) /\ Agree(h1, w1)
      BY <3>1, PushTyped, PushAgrees
    <3>3. Agree(h2, w2)
      BY <3>1, <3>2, PushAgrees
    <3>4. /\ history' = [history EXCEPT ![own] = h2] /\ window' = [window EXCEPT ![own] = w2]
      BY <2>3 DEF Reply, Pushes
    <3> HIDE DEF h2, w2, own
    <3>5. \A s \in Sessions : Agree(history'[s], window'[s])
      BY <1>t, <3>1, <3>3, <3>4 DEF Memories
    <3> QED BY <3>5 DEF Memories, Agree, Kept, MaxItems
  <2> QED BY <2>2, <2>3
<1> QED BY <1>2, <1>3

(* Stated pointwise or as a subsequence, it is the same.                   *)
LEMMA AgreeIsSuffix ==
  ASSUME NEW h \in Seq(Turns), NEW w \in Seq(Turns), Agree(h, w)
  PROVE  /\ Len(h) = (IF Len(w) < Kept THEN Len(w) ELSE Kept)
         /\ h = SubSeq(w, Len(w) - Len(h) + 1, Len(w))
<1>1. Kept \in Nat /\ Len(h) \in Nat /\ Len(w) \in Nat
  BY ChatAssumption DEF Kept
<1>2. Len(h) <= Len(w) /\ Len(h) = (IF Len(w) < Kept THEN Len(w) ELSE Kept)
  BY <1>1 DEF Agree
<1> DEFINE m == Len(w) - Len(h) + 1
           tail == SubSeq(w, m, Len(w))
<1>3. m \in Nat /\ 1 <= m /\ m <= Len(w) + 1 /\ Len(w) - m + 1 = Len(h)
  <2>1. Len(h) <= Len(w)
    BY <1>2
  <2> QED BY <1>1, <2>1
<1>4. /\ tail \in Seq(Turns) /\ Len(tail) = Len(h)
      /\ \A i \in 1..Len(h) : tail[i] = w[m + i - 1]
  BY <1>1, <1>3
<1>5. \A i \in 1..Len(h) : tail[i] = h[i]
  <2> TAKE i \in 1..Len(h)
  <2>1. m + i - 1 = Len(w) - Len(h) + i
    BY <1>1
  <2> QED BY <2>1, <1>4 DEF Agree
<1> HIDE DEF tail
<1>6. h = tail
  BY <1>4, <1>5, SeqEqual
<1> QED BY <1>2, <1>6 DEF tail

-----------------------------------------------------------------------------
(* Whole exchanges                                                         *)

(* items are questions each followed by its answer, none of them twice.    *)
Pairs(items) ==
  /\ Even(Len(items))
  /\ \A i \in 1..Len(items) :
       ~Even(i) => /\ i + 1 <= Len(items)
                   /\ items[i] = PushUser(items[i].by)
                   /\ items[i + 1] = PushAssistant(items[i].by)
  /\ \A i, j \in 1..Len(items) : items[i] = items[j] => i = j

LEMMA EvenFacts ==
  ASSUME NEW n \in Nat
  PROVE  /\ Even(n + 2) <=> Even(n)
         /\ Even(n + 1) <=> ~Even(n)
         /\ Even(n * 4)
         /\ Even(0)
BY DEF Even

(* A question and its answer pushed one after the other take the place of  *)
(* one exchange or of none.                                                *)
LEMMA PushTwo ==
  ASSUME NEW items \in Seq(Turns), NEW mid \in Seq(Turns), NEW new \in Seq(Turns),
         NEW limit \in Nat, limit > 0, Even(limit),
         NEW u, NEW a,
         Even(Len(items)), Len(items) <= limit,
         Pushed(mid, items, u, limit), Pushed(new, mid, a, limit)
  PROVE  \E d \in {0, 2} :
           /\ d <= Len(items)
           /\ Len(new) = Len(items) - d + 2
           /\ Len(new) <= limit
           /\ \A i \in 1..(Len(items) - d) : new[i] = items[i + d]
           /\ new[Len(items) - d + 1] = u
           /\ new[Len(items) - d + 2] = a
<1> DEFINE n == Len(items)
<1>1. n \in Nat /\ Len(mid) \in Nat /\ Len(new) \in Nat /\ n <= limit /\ Even(n)
  OBVIOUS
<1>2. /\ Len(mid) = (IF n = limit THEN limit ELSE n + 1)
      /\ mid[Len(mid)] = u
      /\ \A i \in 1..(Len(mid) - 1) : mid[i] = items[n - Len(mid) + 1 + i]
      /\ Len(new) = (IF Len(mid) = limit THEN limit ELSE Len(mid) + 1)
      /\ new[Len(new)] = a
      /\ \A i \in 1..(Len(new) - 1) : new[i] = mid[Len(mid) - Len(new) + 1 + i]
  BY DEF Pushed
<1> HIDE DEF n
<1>3. CASE n = limit
  <2>1. Len(mid) = n /\ Len(new) = n /\ n >= 2
    BY <1>1, <1>2, <1>3 DEF Even
  <2>2. \A i \in 1..(n - 1) : mid[i] = items[i + 1]
    <3> TAKE i \in 1..(n - 1)
    <3>1. n - Len(mid) + 1 + i = i + 1
      BY <1>1, <2>1
    <3> QED BY <1>2, <2>1, <3>1
  <2>3. \A i \in 1..(n - 1) : new[i] = mid[i + 1]
    <3> TAKE i \in 1..(n - 1)
    <3>1. Len(mid) - Len(new) + 1 + i = i + 1
      BY <1>1, <2>1
    <3> QED BY <1>2, <2>1, <3>1
  <2>4. \A i \in 1..(n - 2) : new[i] = items[i + 2]
    <3> TAKE i \in 1..(n - 2)
    <3>1. i \in 1..(n - 1) /\ i + 1 \in 1..(n - 1) /\ i + 1 + 1 = i + 2
      BY <1>1, <2>1
    <3> QED BY <2>2, <2>3, <3>1
  <2>5. new[n - 1] = u
    <3>1. n - 1 \in 1..(n - 1) /\ n - 1 + 1 = n
      BY <1>1, <2>1
    <3> QED BY <1>2, <2>1, <2>3, <3>1
  <2>6. new[n] = a
    BY <1>2, <2>1
  <2>7. n - 2 + 2 = n /\ n - 2 + 1 = n - 1 /\ 2 <= n
    BY <1>1, <2>1
  <2> QED BY <1>3, <2>1, <2>4, <2>5, <2>6, <2>7 DEF n
<1>4. CASE n # limit
  <2>1. Len(mid) = n + 1 /\ Len(mid) # limit /\ Len(new) = n + 2 /\ n + 2 <= limit
    <3>1. n + 2 <= limit
      BY <1>1, <1>4 DEF Even
    <3> QED BY <1>1, <1>2, <1>4, <3>1
  <2>2. \A i \in 1..n : mid[i] = items[i]
    <3> TAKE i \in 1..n
    <3>1. n - Len(mid) + 1 + i = i /\ i \in 1..(Len(mid) - 1)
      BY <1>1, <2>1
    <3> QED BY <1>2, <3>1
  <2>3. \A i \in 1..(n + 1) : new[i] = mid[i]
    <3> TAKE i \in 1..(n + 1)
    <3>1. Len(mid) - Len(new) + 1 + i = i /\ i \in 1..(Len(new) - 1)
      BY <1>1, <2>1
    <3> QED BY <1>2, <3>1
  <2>4. \A i \in 1..n : new[i] = items[i]
    BY <1>1, <2>2, <2>3
  <2>5. new[n + 1] = u /\ new[n + 2] = a
    <3>1. n + 1 \in 1..(n + 1)
      BY <1>1
    <3> QED BY <1>2, <2>1, <2>3, <3>1
  <2>6. n - 0 = n /\ \A i \in 1..n : i + 0 = i
    BY <1>1
  <2> QED BY <1>1, <2>1, <2>4, <2>5, <2>6 DEF n
<1> QED BY <1>3, <1>4

(* So whole exchanges stay whole, when the chat is new to them.            *)
LEMMA PairPushed ==
  ASSUME NEW items \in Seq(Turns), NEW mid \in Seq(Turns), NEW new \in Seq(Turns),
         NEW limit \in Nat, limit > 0, Even(limit),
         NEW r \in Requests,
         Pairs(items), Len(items) <= limit,
         \A i \in 1..Len(items) : items[i].by # r,
         Pushed(mid, items, PushUser(r), limit), Pushed(new, mid, PushAssistant(r), limit)
  PROVE  Pairs(new) /\ Len(new) <= limit
<1>0. Even(Len(items))
  BY DEF Pairs
<1>1. PICK d \in {0, 2} :
         /\ d <= Len(items)
         /\ Len(new) = Len(items) - d + 2
         /\ Len(new) <= limit
         /\ \A i \in 1..(Len(items) - d) : new[i] = items[i + d]
         /\ new[Len(items) - d + 1] = PushUser(r)
         /\ new[Len(items) - d + 2] = PushAssistant(r)
  BY <1>0, PushTwo
<1> DEFINE m == Len(items) - d
<1>2. m \in Nat /\ Len(new) = m + 2 /\ Even(m)
  <2>1. Len(items) \in Nat /\ d \in Nat /\ m \in Nat /\ (d = 0 => m = Len(items))
        /\ (d = 2 => m + 2 = Len(items))
    BY <1>1
  <2>2. Even(m + 2) <=> Even(m)
    BY <2>1, EvenFacts
  <2>3. Even(m)
    BY <1>0, <2>1, <2>2
  <2> QED BY <1>1, <2>1, <2>3
<1>3. /\ \A i \in 1..m : i + d \in 1..Len(items) /\ new[i] = items[i + d]
      /\ \A i \in 1..m : Even(i + d) <=> Even(i)
  <2>1. \A i \in 1..m : i + d \in 1..Len(items)
    BY <1>1
  <2>2. \A i \in 1..m : Even(i + d) <=> Even(i)
    <3> TAKE i \in 1..m
    <3>1. i \in Nat /\ i + 0 = i
      OBVIOUS
    <3>2. Even(i + 2) <=> Even(i)
      BY <3>1, EvenFacts
    <3> QED BY <3>1, <3>2
  <2> QED BY <1>1, <2>1, <2>2
<1>4. new[m + 1] = PushUser(r) /\ new[m + 2] = PushAssistant(r)
  BY <1>1
<1>5. /\ PushUser(r).by = r /\ PushAssistant(r).by = r /\ PushUser(r) # PushAssistant(r)
  BY DEF PushUser, PushAssistant, Exchange
<1>6. Len(items) \in Nat /\ d \in Nat /\ m + d = Len(items)
  BY <1>1
<1> HIDE DEF m
<1>7. Even(Len(new))
  BY <1>2, EvenFacts
<1>8. ASSUME NEW i \in 1..Len(new), ~Even(i)
      PROVE  /\ i + 1 <= Len(new)
             /\ new[i] = PushUser(new[i].by)
             /\ new[i + 1] = PushAssistant(new[i].by)
  <2>1. CASE i \in 1..m
    <3>1. i + 1 \in 1..m /\ i + 1 <= Len(new)
      <4>1. i # m
        BY <1>2, <1>8
      <4> QED BY <1>2, <2>1, <4>1
    <3>2. i + d \in 1..Len(items) /\ ~Even(i + d) /\ new[i] = items[i + d]
      BY <1>3, <1>8, <2>1
    <3>3. /\ items[i + d] = PushUser(items[i + d].by)
          /\ items[i + d + 1] = PushAssistant(items[i + d].by)
      BY <3>2 DEF Pairs
    <3>4. new[i + 1] = items[i + 1 + d] /\ i + 1 + d = i + d + 1
      BY <1>3, <1>6, <3>1
    <3> QED BY <3>1, <3>2, <3>3, <3>4
  <2>2. CASE i \notin 1..m
    <3>1. i = m + 1
      <4>1. i = m + 1 \/ i = m + 2
        BY <1>2, <2>2
      <4>2. Even(m + 2)
        BY <1>2, EvenFacts
      <4> QED BY <1>8, <4>1, <4>2
    <3> QED BY <1>2, <1>4, <1>5, <3>1
  <2> QED BY <2>1, <2>2
<1>9. ASSUME NEW i \in 1..Len(new), NEW j \in 1..Len(new), new[i] = new[j]
      PROVE  i = j
  <2>1. \A k \in 1..Len(new) : k \in 1..m \/ k = m + 1 \/ k = m + 2
    BY <1>2
  <2>2. \A k \in 1..m : new[k].by # r
    BY <1>3
  <2>3. CASE i \in 1..m /\ j \in 1..m
    <3>1. i + d \in 1..Len(items) /\ j + d \in 1..Len(items) /\ items[i + d] = items[j + d]
      BY <1>3, <1>9, <2>3
    <3>2. i + d = j + d
      BY <3>1 DEF Pairs
    <3> QED BY <1>2, <1>6, <2>3, <3>2
  <2> QED BY <1>4, <1>5, <1>9, <2>1, <2>2, <2>3
<1> QED BY <1>1, <1>7, <1>8, <1>9 DEF Pairs

(* Both memories hold whole exchanges, the history when it has room for an *)
(* even number of turns.                                                   *)
Whole ==
  MaxTurns > 0 =>
    \A s \in Sessions : /\ Pairs(window[s])
                        /\ Even(Kept) => Pairs(history[s])

LEMMA WholeStep == Core /\ OwnReplies /\ Memories /\ Whole /\ [Next]_vars => Whole'
<1> SUFFICES ASSUME Core, OwnReplies, Memories, Whole, [Next]_vars, MaxTurns > 0
             PROVE  \A s \in Sessions : /\ Pairs(window'[s])
                                        /\ Even(Kept) => Pairs(history'[s])
  BY DEF Whole, Kept
<1>t. history \in [Sessions -> Seq(Turns)] /\ window \in [Sessions -> Seq(Turns)]
  BY DEF Core, TypeOK
<1>1. ASSUME UNCHANGED sessions
      PROVE  \A s \in Sessions : Pairs(window'[s]) /\ (Even(Kept) => Pairs(history'[s]))
  BY <1>1 DEF sessions, Whole
<1>2. CASE UNCHANGED vars
  BY <1>1, <1>2 DEF vars, sessions
<1>3. CASE Next
  <2>1. PICK r \in Requests :
          \/ Unauthenticated(r)
          \/ \E p \in CallersOf[r] \cap Principals : Denied(r, p) \/ Admitted(r, p)
          \/ Completed(r) \/ CompletionFails(r)
          \/ Acquire(r) \/ Compose(r) \/ Thought(r) \/ Reply(r) \/ LlmFails(r)
          \/ Dropped(r)
    BY <1>3, NextCases
  <2>2. CASE ~Reply(r)
    <3>1. UNCHANGED sessions
      BY <2>1, <2>2 DEF Unauthenticated, Denied, Admitted, Completed, CompletionFails,
                        Acquire, Compose, Thought, LlmFails, Dropped
    <3> QED BY <1>1, <3>1
  <2>3. CASE Reply(r)
    <3> DEFINE own == SessionOf[r]
               h == history[own]
               w == window[own]
               h1 == Recorded(h, PushUser(r))
               w1 == Remembered(w, PushUser(r))
               h2 == Recorded(h1, PushAssistant(r))
               w2 == Remembered(w1, PushAssistant(r))
    <3>1. /\ own \in Sessions /\ w \in Seq(Turns) /\ h \in Seq(Turns)
          /\ PushUser(r) \in Turns /\ PushAssistant(r) \in Turns
          /\ Agree(h, w) /\ pc[r] = "planning"
      BY <1>t, <2>3, ChatAssumption, ExchangeTyped DEF Memories, Reply
    <3>2. h1 \in Seq(Turns) /\ w1 \in Seq(Turns) /\ h2 \in Seq(Turns) /\ w2 \in Seq(Turns)
      <4>1. h1 \in Seq(Turns) /\ w1 \in Seq(Turns)
        BY <3>1, PushTyped
      <4> HIDE DEF h1, w1
      <4> QED BY <3>1, <4>1, PushTyped
    <3>3. /\ Pushed(w1, w, PushUser(r), MaxItems) /\ Pushed(w2, w1, PushAssistant(r), MaxItems)
          /\ Pushed(h1, h, PushUser(r), Kept) /\ Pushed(h2, h1, PushAssistant(r), Kept)
      BY <3>1, <3>2, RememberedPushed, RecordedPushed
    <3>4. /\ history' = [history EXCEPT ![own] = h2] /\ window' = [window EXCEPT ![own] = w2]
      BY <2>3 DEF Reply, Pushes
    <3>5. \A i \in 1..Len(w) : w[i].by # r
      BY <3>1 DEF OwnReplies
    <3>6. \A i \in 1..Len(h) : h[i].by # r
      <4>1. \A i \in 1..Len(h) : \E j \in 1..Len(w) : h[i] = w[j]
        BY <3>1, AgreeInside
      <4> QED BY <3>5, <4>1
    <3>7. /\ MaxItems \in Nat /\ MaxItems > 0 /\ Even(MaxItems)
          /\ Kept \in Nat /\ Kept > 0 /\ Len(w) <= MaxItems /\ Len(h) <= Kept
      <4>1. MaxTurns \in Nat /\ MaxItems = MaxTurns * 4 /\ Kept = MaxTurns
        BY ChatAssumption DEF MaxItems, Kept
      <4>2. Len(h) <= Kept /\ Len(w) <= MaxItems
        BY <3>1, AgreeInside
      <4>3. Even(MaxTurns * 4)
        BY <4>1, EvenFacts
      <4> HIDE DEF h, w
      <4> QED BY <4>1, <4>2, <4>3
    <3>8. Pairs(w) /\ (Even(Kept) => Pairs(h))
      BY <3>1 DEF Whole
    <3> HIDE DEF h, w, h1, w1, h2, w2, own
    <3>9. Pairs(w2)
      BY <3>1, <3>2, <3>3, <3>5, <3>7, <3>8, PairPushed
    <3>10. Even(Kept) => Pairs(h2)
      BY <3>1, <3>2, <3>3, <3>6, <3>7, <3>8, PairPushed
    <3> QED BY <1>t, <3>1, <3>4, <3>9, <3>10 DEF Whole
  <2> QED BY <2>2, <2>3
<1> QED BY <1>2, <1>3

(* Stated entry by entry or as subsequences, it is the same.               *)
LEMMA PairsAreExchanges ==
  ASSUME NEW items \in Seq(Turns), NEW s, Pairs(items),
         \A i \in 1..Len(items) :
           SessionOf[items[i].by] = s /\ pc[items[i].by] = "replied"
  PROVE  AreExchanges(items, s)
<1>1. Even(Len(items)) /\ Len(items) \in Nat
  BY DEF Pairs
<1>2. IsInjective(items)
  BY DEF IsInjective, Pairs
<1>3. ASSUME NEW i \in 1..Len(items), ~Even(i)
      PROVE  SubSeq(items, i, i + 1) = Exchange(items[i].by)
  <2> DEFINE pair == SubSeq(items, i, i + 1)
             whole == Exchange(items[i].by)
  <2>1. /\ i + 1 <= Len(items)
        /\ items[i] = PushUser(items[i].by)
        /\ items[i + 1] = PushAssistant(items[i].by)
    BY <1>3 DEF Pairs
  <2>2. i \in Nat /\ i + 1 \in 1..Len(items) /\ (i + 1) - i + 1 = 2 /\ i + 1 <= Len(items)
    BY <1>1, <2>1
  <2>3. /\ pair \in Seq(Turns) /\ Len(pair) = 2
        /\ pair[1] = items[i] /\ pair[2] = items[i + 1]
    BY <1>1, <2>2
  <2>4. whole = <<items[i], items[i + 1]>>
    BY <2>1 DEF Exchange, PushUser, PushAssistant
  <2>5. items[i] \in Turns /\ items[i + 1] \in Turns
    BY <2>2
  <2>6. /\ whole \in Seq(Turns) /\ Len(whole) = 2
        /\ whole[1] = items[i] /\ whole[2] = items[i + 1]
    BY <2>4, <2>5
  <2> HIDE DEF pair, whole
  <2>7. \A j \in 1..Len(pair) : pair[j] = whole[j]
    BY <2>3, <2>6
  <2>8. pair = whole
    BY <2>3, <2>6, <2>7, SeqEqual
  <2> QED BY <2>8 DEF pair, whole
<1> QED BY <1>1, <1>2, <1>3 DEF AreExchanges

-----------------------------------------------------------------------------
IInv == Core /\ PromptUpToDate /\ OwnReplies /\ Memories /\ Whole

LEMMA InitInv == Init => IInv
<1> SUFFICES ASSUME Init PROVE IInv
  OBVIOUS
<1>1. TypeOK
  <2>1. /\ waiting \in Seq(Requests) /\ locked \in BOOLEAN
        /\ history \in [Sessions -> Seq(Turns)] /\ window \in [Sessions -> Seq(Turns)]
        /\ prompt \in [Requests -> Seq(Turns)]
    <3>1. <<>> \in Seq(Requests) /\ <<>> \in Seq(Turns)
      OBVIOUS
    <3> DEFINE T == Seq(Turns)
    <3>2. <<>> \in T
      BY <3>1
    <3> HIDE DEF T
    <3>3. history \in [Sessions -> T] /\ window \in [Sessions -> T] /\ prompt \in [Requests -> T]
      BY <3>2 DEF Init
    <3>4. waiting = <<>> /\ locked = FALSE
      BY DEF Init
    <3> QED BY <3>1, <3>3, <3>4 DEF T
  <2>2. pc \in [Requests -> Stages] /\ principal \in [Requests -> Principals \cup {Nobody}]
    BY DEF Init, Stages
  <2>3. /\ granted \in [Requests -> 0..2] /\ refused \in [Requests -> 0..1]
        /\ metrics \in [Counters -> Nat]
    BY DEF Init
  <2> QED BY <2>1, <2>2, <2>3 DEF TypeOK
<1>2. Admission
  BY DEF Init, Admission, Holding
<1>3. MutexAccounted
  <2>1. /\ waiting = <<>> /\ ~locked /\ \A r \in Requests : pc[r] = "idle"
        /\ Len(waiting) = 0 /\ DOMAIN waiting = {}
    BY DEF Init
  <2>2. IsInjective(waiting)
    BY <2>1 DEF IsInjective
  <2> QED BY <2>1, <2>2 DEF MutexAccounted, Holding
<1>4. PromptUpToDate /\ OwnReplies
  BY DEF Init, PromptUpToDate, OwnReplies
<1>5. Kept \in Nat /\ MaxItems \in Nat /\ Kept > 0
  BY ChatAssumption DEF Kept, MaxItems
<1>6. Memories
  BY <1>5 DEF Init, Memories, Agree
<1>7. Whole
  BY EvenFacts DEF Init, Whole, Pairs
<1> QED BY <1>1, <1>2, <1>3, <1>4, <1>6, <1>7 DEF IInv, Core

LEMMA InvAlways == Spec => []IInv
<1>1. IInv /\ [Next]_vars => IInv'
  BY TypeStep, AdmissionStep, MutexStep, PromptStep, OwnRepliesStep, MemoriesStep, WholeStep DEF IInv, Core
<1> QED BY <1>1, InitInv, PTL DEF Spec

(* Every variable keeps its type, for any requests, callers and sessions.  *)
THEOREM ChatTypeCorrect == Spec => []TypeOK
<1>1. IInv => TypeOK
  BY DEF IInv, Core
<1> QED BY <1>1, InvAlways, PTL

(***************************************************************************)
(* The mutex of the session map and its queue agree with the chats, those  *)
(* that fail, are refused or whose client goes away included.              *)
(***************************************************************************)
THEOREM ChatMutexAccounted == Spec => []MutexAccounted
<1>1. IInv => MutexAccounted
  BY DEF IInv, Core
<1> QED BY <1>1, InvAlways, PTL

(***************************************************************************)
(* What the model saw of a session is what the session still remembers     *)
(* when its answer is appended.                                            *)
(***************************************************************************)
THEOREM ChatPromptUpToDate == Spec => []PromptUpToDate
<1>1. IInv => PromptUpToDate
  BY DEF IInv
<1> QED BY <1>1, InvAlways, PTL

(***************************************************************************)
(* However long a session and whatever max_turns, its history is the       *)
(* newest part of its context window.                                      *)
(***************************************************************************)
THEOREM ChatMemoriesAgree == Spec => []HistoryIsRecentWindow
<1>1. ASSUME IInv PROVE HistoryIsRecentWindow
  <2> SUFFICES ASSUME NEW s \in Sessions
               PROVE  /\ Len(history[s]) = (IF Len(window[s]) < Kept THEN Len(window[s]) ELSE Kept)
                      /\ history[s] = SubSeq(window[s], Len(window[s]) - Len(history[s]) + 1, Len(window[s]))
    BY DEF HistoryIsRecentWindow
  <2>1. history[s] \in Seq(Turns) /\ window[s] \in Seq(Turns) /\ Agree(history[s], window[s])
    BY <1>1 DEF IInv, Core, TypeOK, Memories
  <2> QED BY <2>1, AgreeIsSuffix
<1> QED BY <1>1, InvAlways, PTL

(***************************************************************************)
(* Whatever a session remembers was said by callers with the Generate bit  *)
(* and audited; a reply has all of its audit events, a refusal its own.    *)
(***************************************************************************)
THEOREM ChatTurnsAuthorized == Spec => []TurnsAuthorized
<1>1. ASSUME IInv PROVE TurnsAuthorized
  <2>1. ASSUME NEW s \in Sessions, NEW i \in 1..Len(window[s])
        PROVE  LET r == window[s][i].by
               IN "Generate" \in PermsOf[principal[r]] /\ granted[r] >= 1
    <3> DEFINE r == window[s][i].by
    <3>1. window[s][i] \in Turns
      BY <1>1 DEF IInv, Core, TypeOK
    <3>2. r \in Requests /\ pc[r] = "replied" /\ Rpc[r] = "chat"
      BY <1>1, <3>1 DEF IInv, OwnReplies, Turns
    <3> HIDE DEF r
    <3>3. "Generate" \in PermsOf[principal[r]] /\ granted[r] = 2
      BY <1>1, <3>2 DEF IInv, Core, Admission
    <3> QED BY <3>3 DEF r
  <2>2. ASSUME NEW r \in Requests
        PROVE  /\ pc[r] = "replied" => granted[r] = (IF Rpc[r] = "chat" THEN 2 ELSE 1)
               /\ refused[r] = 1 <=> pc[r] = "rejected" /\ principal[r] # Nobody
    BY <1>1 DEF IInv, Core, Admission
  <2> QED BY <2>1, <2>2 DEF TurnsAuthorized
<1> QED BY <1>1, InvAlways, PTL

(***************************************************************************)
(* Whatever fails, is abandoned or is evicted, a session remembers whole   *)
(* exchanges of its own chats, each once.                                  *)
(***************************************************************************)
THEOREM ChatWholeExchanges == Spec => []WholeExchanges
<1>1. ASSUME IInv PROVE WholeExchanges
  <2> SUFFICES ASSUME MaxTurns > 0, NEW s \in Sessions
               PROVE  /\ AreExchanges(window[s], s)
                      /\ Even(Kept) => AreExchanges(history[s], s)
    BY DEF WholeExchanges
  <2> DEFINE h == history[s]
             w == window[s]
  <2>1. /\ h \in Seq(Turns) /\ w \in Seq(Turns) /\ Agree(h, w)
        /\ Pairs(w) /\ (Even(Kept) => Pairs(h))
    BY <1>1 DEF IInv, Core, TypeOK, Memories, Whole
  <2>2. \A i \in 1..Len(w) : SessionOf[w[i].by] = s /\ pc[w[i].by] = "replied"
    BY <1>1 DEF IInv, OwnReplies
  <2> HIDE DEF h, w
  <2>3. \A i \in 1..Len(h) : SessionOf[h[i].by] = s /\ pc[h[i].by] = "replied"
    <3>1. \A i \in 1..Len(h) : \E j \in 1..Len(w) : h[i] = w[j]
      BY <2>1, AgreeInside
    <3> QED BY <2>2, <3>1
  <2>4. AreExchanges(w, s) /\ (Even(Kept) => AreExchanges(h, s))
    BY <2>1, <2>2, <2>3, PairsAreExchanges
  <2> QED BY <2>4 DEF h, w
<1> QED BY <1>1, InvAlways, PTL

=============================================================================
