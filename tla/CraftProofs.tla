----------------------------- MODULE CraftProofs -----------------------------
(***************************************************************************)
(* Proofs about Craft, for any proposals, documents and principal.  The    *)
(* batch is the hard part: that its results are true needs that a session  *)
(* names no proposal twice and that, while it runs, only the proposal the  *)
(* loop has come to can be under way.  After it CraftDesk, for any files:  *)
(* what the page believes of its commands, and what a write leaves alone.  *)
(***************************************************************************)
EXTENDS Craft, CraftDesk, TLAPS

-----------------------------------------------------------------------------
(* Texts                                                                   *)

(* Splicing keeps the type of a text.                                      *)
LEMMA SpliceType ==
  ASSUME NEW F, NEW text \in Seq(F), NEW new \in Seq(F),
         NEW i \in 0..Len(text), NEW n \in Nat, i + n <= Len(text)
  PROVE  Splice(text, i, n, new) \in Seq(F)
  BY DEF Splice

(* Where the elements of two sequences stand in their concatenation.       *)
LEMMA Joined ==
  ASSUME NEW F, NEW a \in Seq(F), NEW b \in Seq(F)
  PROVE  /\ a \o b \in Seq(F)
         /\ Len(a \o b) = Len(a) + Len(b)
         /\ \A j \in 1..Len(a) : (a \o b)[j] = a[j]
         /\ \A j \in 1..Len(b) : (a \o b)[Len(a) + j] = b[j]
<1>1. \A i \in 1..Len(a) + Len(b) :
        (a \o b)[i] = IF i <= Len(a) THEN a[i] ELSE b[i - Len(a)]
  OBVIOUS
<1>2. Len(a) \in Nat /\ Len(b) \in Nat
  OBVIOUS
<1>3. ASSUME NEW j \in 1..Len(b)
      PROVE  (a \o b)[Len(a) + j] = b[j]
  <2> DEFINE i == Len(a) + j
  <2>1. i \in 1..Len(a) + Len(b) /\ ~(i <= Len(a)) /\ i - Len(a) = j
    BY <1>2
  <2> QED
    BY <1>1, <2>1
<1> QED
  BY <1>1, <1>2, <1>3

(* A fragment that stands outside the part replaced is still there.        *)
LEMMA SpliceKeeps ==
  ASSUME NEW F, NEW text \in Seq(F), NEW new \in Seq(F),
         NEW i \in 0..Len(text), NEW n \in Nat, i + n <= Len(text),
         NEW f, Holds(text, f),
         \A k \in i+1..i+n : text[k] # f
  PROVE  Holds(Splice(text, i, n, new), f)
<1>1. PICK k \in 1..Len(text) : text[k] = f
  BY DEF Holds
<1> DEFINE front == SubSeq(text, 1, i)
           back == SubSeq(text, i + n + 1, Len(text))
           head == front \o new
<1>2. /\ front \in Seq(F) /\ Len(front) = i
      /\ \A j \in 1..i : front[j] = text[j]
  OBVIOUS
<1>3. /\ back \in Seq(F) /\ Len(back) = Len(text) - i - n
      /\ \A j \in 1..Len(text) - i - n : back[j] = text[i + n + j]
  OBVIOUS
<1> HIDE DEF front, back
<1>4. /\ head \in Seq(F) /\ Len(head) = i + Len(new)
      /\ \A j \in 1..i : head[j] = front[j]
  <2>1. /\ head \in Seq(F)
        /\ Len(head) = Len(front) + Len(new)
        /\ \A j \in 1..Len(front) : head[j] = front[j]
    BY <1>2, Joined
  <2> QED
    BY <1>2, <2>1
<1> HIDE DEF head
<1>5. /\ Len(head \o back) = i + Len(new) + Len(back)
      /\ \A j \in 1..i : (head \o back)[j] = front[j]
      /\ \A j \in 1..Len(back) : (head \o back)[i + Len(new) + j] = back[j]
  <2>1. \A j \in 1..i : j \in 1..Len(head)
    BY <1>4
  <2>2. /\ Len(head \o back) = Len(head) + Len(back)
        /\ \A j \in 1..Len(head) : (head \o back)[j] = head[j]
        /\ \A j \in 1..Len(back) : (head \o back)[Len(head) + j] = back[j]
    <3>1. head \in Seq(F) /\ back \in Seq(F)
      BY <1>3, <1>4
    <3> QED
      BY <3>1, Joined
  <2> QED
    BY <1>4, <2>1, <2>2
<1>6. CASE k <= i
  <2>1. k \in 1..i /\ k \in 1..Len(head \o back)
    BY <1>1, <1>3, <1>5, <1>6
  <2>2. (head \o back)[k] = f
    BY <1>1, <1>2, <1>5, <2>1
  <2> QED
    BY <2>1, <2>2 DEF Holds, Splice, head, front, back
<1>7. CASE k > i + n
  <2> DEFINE j == k - i - n
  <2>1. /\ j \in 1..Len(text) - i - n
        /\ i + n + j = k
    BY <1>1, <1>7
  <2>2. back[j] = text[k]
    BY <1>3, <2>1
  <2>3. j \in 1..Len(back) /\ i + Len(new) + j \in 1..Len(head \o back)
    BY <1>3, <1>5, <2>1
  <2>4. (head \o back)[i + Len(new) + j] = f
    BY <1>1, <1>5, <2>2, <2>3
  <2> QED
    BY <2>3, <2>4 DEF Holds, Splice, head, front, back
<1>8. k <= i \/ k > i + n
  BY <1>1
<1> QED
  BY <1>6, <1>7, <1>8

(* A fragment of either part is in the whole.                              *)
LEMMA JoinedHolds ==
  ASSUME NEW F, NEW a \in Seq(F), NEW b \in Seq(F), NEW f, Holds(a, f) \/ Holds(b, f)
  PROVE  Holds(a \o b, f)
<1> DEFINE u == a \o b
<1>1. /\ Len(u) = Len(a) + Len(b) /\ Len(a) \in Nat /\ Len(b) \in Nat
      /\ \A j \in 1..Len(a) : u[j] = a[j]
      /\ \A j \in 1..Len(b) : u[Len(a) + j] = b[j]
  BY Joined
<1> HIDE DEF u
<1>2. CASE Holds(a, f)
  <2>1. PICK k \in 1..Len(a) : a[k] = f
    BY <1>2 DEF Holds
  <2>2. k \in 1..Len(u) /\ u[k] = f
    BY <1>1, <2>1
  <2> QED
    BY <2>2 DEF Holds, u
<1>3. CASE Holds(b, f)
  <2>1. PICK k \in 1..Len(b) : b[k] = f
    BY <1>3 DEF Holds
  <2>2. Len(a) + k \in 1..Len(u) /\ u[Len(a) + k] = f
    BY <1>1, <2>1
  <2> QED
    BY <2>2 DEF Holds, u
<1> QED
  BY <1>2, <1>3

(* What is spliced in is there.                                            *)
LEMMA SpliceBrings ==
  ASSUME NEW F, NEW text \in Seq(F), NEW new \in Seq(F),
         NEW i \in 0..Len(text), NEW n \in Nat, i + n <= Len(text),
         NEW f, Holds(new, f)
  PROVE  Holds(Splice(text, i, n, new), f)
<1> DEFINE front == SubSeq(text, 1, i)
           back == SubSeq(text, i + n + 1, Len(text))
           head == front \o new
<1>1. front \in Seq(F) /\ back \in Seq(F)
  OBVIOUS
<1> HIDE DEF front, back
<1>2. head \in Seq(F) /\ Holds(head, f)
  BY <1>1, Joined, JoinedHolds
<1> HIDE DEF head
<1>3. Holds(head \o back, f)
  BY <1>1, <1>2, JoinedHolds
<1> QED
  BY <1>3 DEF Splice, head, front, back

(* Replacing the first occurrence of old keeps every fragment not in old,  *)
(* and brings those of new.                                                *)
LEMMA ReplacingKeeps ==
  ASSUME NEW F, NEW text \in Seq(F), NEW old \in Seq(F), NEW new \in Seq(F),
         NEW result, ReplacesFirst(text, old, new, result)
  PROVE  /\ result \in Seq(F)
         /\ \A f : Holds(new, f) => Holds(result, f)
         /\ \A f : Holds(text, f) /\ ~Holds(old, f) => Holds(result, f)
<1>1. PICK i \in 0..Len(text) :
        /\ OccursAt(text, old, i)
        /\ result = Splice(text, i, Len(old), new)
  BY DEF ReplacesFirst, FirstAt
<1>2. i + Len(old) <= Len(text) /\ Len(old) \in Nat
  BY <1>1 DEF OccursAt
<1>3. ASSUME NEW f, Holds(text, f), ~Holds(old, f)
      PROVE  Holds(result, f)
  <2>1. ASSUME NEW k \in i+1..i+Len(old)
        PROVE  text[k] # f
    <3>1. k - i \in 1..Len(old) /\ i + (k - i) = k
      BY <1>2
    <3>2. text[k] = old[k - i]
      BY <1>1, <3>1 DEF OccursAt
    <3> QED
      BY <1>3, <3>1, <3>2 DEF Holds
  <2> QED
    BY <1>1, <1>2, <1>3, <2>1, SpliceKeeps
<1>4. ASSUME NEW f, Holds(new, f)
      PROVE  Holds(result, f)
  BY <1>1, <1>2, <1>4, SpliceBrings
<1> QED
  BY <1>1, <1>2, <1>3, <1>4, SpliceType

-----------------------------------------------------------------------------
(* Types                                                                   *)

(* What the shape of a session and of its batch relies on.                 *)
Structure ==
  /\ \A i, j \in 1..Len(session) : session[i] = session[j] => i = j
  /\ batching =>
       \A i \in 1..Len(session) : stage[session[i]] # "idle" => i = Len(results) + 1

Shaped == TypeOK /\ Structure

(* confirm up to its await: only a proposal that is free, or the one the   *)
(* loop has come to, gets under way.                                       *)
LEMMA CheckTyped ==
  ASSUME Shaped, NEW p \in Proposals, Check(p),
         \/ Free(p)
         \/ Len(results) < Len(session) /\ p = session[Len(results) + 1]
  PROVE  Shaped'
<1> USE CraftAssumption DEF Shaped, TypeOK
<1>1. TypeOK'
  <2>1. /\ stage' \in [Proposals -> Stages]
        /\ granted' \in [Proposals -> Nat]
        /\ refused' \in [Proposals -> Nat]
        /\ denials' \in Nat
    <3>1. /\ stage \in [Proposals -> Stages] /\ granted \in [Proposals -> Nat]
          /\ refused \in [Proposals -> Nat] /\ denials \in Nat
      OBVIOUS
    <3> USE DEF Stages
    <3>2. CASE /\ stage' = [stage EXCEPT ![p] = "granted"]
               /\ granted' = [granted EXCEPT ![p] = @ + 1]
               /\ UNCHANGED <<refused, denials>>
      <4>1. granted' \in [Proposals -> Nat]
        BY <3>1, <3>2
      <4>2. stage' \in [Proposals -> Stages]
        BY <3>1, <3>2
      <4> QED
        BY <3>1, <3>2, <4>1, <4>2
    <3>3. CASE /\ stage' = [stage EXCEPT ![p] = "refused"]
               /\ refused' = [refused EXCEPT ![p] = @ + 1]
               /\ denials' = denials + 1
               /\ UNCHANGED granted
      <4>1. refused' \in [Proposals -> Nat]
        BY <3>1, <3>3
      <4>2. stage' \in [Proposals -> Stages]
        BY <3>1, <3>3
      <4> QED
        BY <3>1, <3>3, <4>1, <4>2
    <3> QED
      BY <3>2, <3>3 DEF Check
  <2>2. UNCHANGED <<docs, state, tool_calls, batch, applied, typed>>
    BY DEF Check
  <2> QED
    BY <2>1, <2>2 DEF batch
<1>2. session' = session /\ batching' = batching /\ results' = results
  BY DEF Check, batch
<1>3. \A q \in Proposals : q # p => stage'[q] = stage[q]
  BY DEF Check
<1>4. ASSUME batching, NEW i \in 1..Len(session), stage'[session[i]] # "idle"
      PROVE  i = Len(results) + 1
  <2>1. CASE session[i] = p
    <3>1. ~Free(p)
      BY <1>4, <2>1 DEF Free, InSession
    <3>2. /\ Len(results) + 1 \in 1..Len(session)
          /\ session[i] = session[Len(results) + 1]
      <4>1. Len(results) < Len(session) /\ p = session[Len(results) + 1]
        BY <3>1
      <4>2. Len(results) \in Nat /\ Len(session) \in Nat
        OBVIOUS
      <4> HIDE DEF Shaped, TypeOK
      <4> QED
        BY <2>1, <4>1, <4>2
    <3>3. Structure
      BY DEF Shaped
    <3> HIDE DEF Shaped, TypeOK
    <3> QED
      BY <3>2, <3>3 DEF Structure
  <2>2. CASE session[i] # p
    <3>1. session[i] \in Proposals /\ Structure
      BY DEF Shaped
    <3> HIDE DEF Shaped, TypeOK
    <3> QED
      BY <1>3, <1>4, <2>2, <3>1 DEF Structure
  <2> QED
    BY <2>1, <2>2
<1> QED
  BY <1>1, <1>2, <1>4 DEF Structure

(* The batch never holds more results than the session holds proposals.    *)
LEMMA BatchLengths ==
  ASSUME Shaped
  PROVE  Len(results) \in Nat /\ Len(session) \in Nat /\ Len(results) <= Len(session)
BY DEF Shaped, TypeOK

(* A confirm that returns within the batch is the one the loop waits for.  *)
LEMMA AwaitedByLoop ==
  ASSUME Shaped, NEW p \in Proposals, stage[p] # "idle", batching, InSession(p)
  PROVE  Len(results) < Len(session) /\ p = session[Len(results) + 1]
<1>1. PICK i \in 1..Len(session) : session[i] = p
  BY DEF InSession
<1>2. i = Len(results) + 1
  BY <1>1 DEF Shaped, Structure
<1> QED
  BY <1>1, <1>2, BatchLengths

(* While it is under way, every other proposal of the session is idle.     *)
LEMMA OthersIdle ==
  ASSUME Shaped, NEW p \in Proposals, stage[p] # "idle", batching, InSession(p),
         NEW i \in 1..Len(session), session[i] # p
  PROVE  stage[session[i]] = "idle"
<1>1. p = session[Len(results) + 1]
  BY AwaitedByLoop
<1> QED
  BY <1>1 DEF Shaped, Structure

(* Whatever else it does, a confirm that returns keeps the batch in shape. *)
LEMMA ReturnTyped ==
  ASSUME Shaped, NEW p \in Proposals, stage[p] # "idle",
         NEW r \in {"ok", "err"}, Returns(p, r)
  PROVE  /\ stage' \in [Proposals -> Stages]
         /\ session' \in Seq(Proposals)
         /\ batching' \in BOOLEAN
         /\ results' \in Seq({"ok", "err"})
         /\ Len(results') <= Len(session')
         /\ before' \in [Proposals -> Nat]
         /\ Structure'
<1> USE DEF Shaped, TypeOK
<1>1. /\ stage' \in [Proposals -> Stages]
      /\ session' = session /\ batching' = batching /\ before' = before
      /\ stage'[p] = "idle"
      /\ \A q \in Proposals : q # p => stage'[q] = stage[q]
  BY DEF Returns, Stages
<1>2. CASE batching /\ InSession(p)
  <2>1. Len(results) < Len(session) /\ p = session[Len(results) + 1]
    BY <1>2, AwaitedByLoop
  <2>2. results' = Append(results, r)
    BY <1>2 DEF Returns
  <2>3. results' \in Seq({"ok", "err"}) /\ Len(results') <= Len(session)
    BY <2>1, <2>2
  <2>4. \A i \in 1..Len(session) : stage'[session[i]] = "idle"
    <3> SUFFICES ASSUME NEW i \in 1..Len(session), session[i] # p
                 PROVE  stage'[session[i]] = "idle"
      BY <1>1
    <3>1. session[i] \in Proposals
      OBVIOUS
    <3>2. stage[session[i]] = "idle"
      <4> HIDE DEF Shaped, TypeOK
      <4> QED
        BY <1>2, OthersIdle
    <3> QED
      BY <1>1, <3>1, <3>2
  <2> QED
    BY <1>1, <2>3, <2>4 DEF Structure
<1>3. CASE ~(batching /\ InSession(p))
  <2>1. results' = results
    BY <1>3 DEF Returns
  <2>2. ASSUME batching, NEW i \in 1..Len(session)
        PROVE  stage'[session[i]] = stage[session[i]]
    <3>1. session[i] \in Proposals
      OBVIOUS
    <3> HIDE DEF Shaped, TypeOK
    <3> QED
      BY <1>1, <1>3, <2>2, <3>1 DEF InSession
  <2>3. Structure
    BY DEF Shaped
  <2>4. Structure'
    <3> HIDE DEF Shaped, TypeOK
    <3> QED
      BY <1>1, <2>1, <2>2, <2>3 DEF Structure
  <2> QED
    BY <1>1, <2>1, <2>4
<1> QED
  BY <1>2, <1>3

(* The type of every variable, with the shape it depends on.               *)
LEMMA ShapedAlways == Spec => []Shaped
<1> USE CraftAssumption DEF Shaped, TypeOK
<1>1. Init => Shaped
  <2> SUFFICES ASSUME Init
               PROVE  Shaped
    OBVIOUS
  <2>1. docs \in [Seeded -> Text]
    BY DEF Init
  <2>2. /\ session = <<>> /\ session \in Seq(Proposals)
        /\ results = <<>> /\ results \in Seq({"ok", "err"})
        /\ Len(results) <= Len(session)
    BY DEF Init
  <2>3. Structure
    BY <2>2 DEF Init, Structure
  <2>4. /\ state \in [Proposals -> States] /\ stage \in [Proposals -> Stages]
        /\ granted \in [Proposals -> Nat] /\ refused \in [Proposals -> Nat]
        /\ applied \in [Proposals -> Nat] /\ before \in [Proposals -> Nat]
        /\ batching \in BOOLEAN /\ typed \subseteq Seeded \X Typed
        /\ tool_calls \in Nat /\ denials \in Nat
    BY DEF Init, States, Stages
  <2> QED
    BY <2>1, <2>2, <2>3, <2>4
<1>2. Shaped /\ [Next]_vars => Shaped'
  <2> SUFFICES ASSUME Shaped, [Next]_vars
               PROVE  Shaped'
    OBVIOUS
  <2>1. ASSUME NEW p \in Proposals, Propose(p)
        PROVE  Shaped'
    BY <2>1 DEF Propose, engine, batch, Structure, States
  <2>2. ASSUME NEW p \in Proposals, Add(p)
        PROVE  Shaped'
    <3>1. /\ session' = Append(session, p) /\ Len(session') = Len(session) + 1
          /\ session'[Len(session) + 1] = p
          /\ \A i \in 1..Len(session) : session'[i] = session[i]
          /\ session' \in Seq(Proposals)
      BY <2>2 DEF Add
    <3>2. ~batching' /\ \A i \in 1..Len(session) : session[i] # p
      BY <2>2 DEF Add, SessionFree, InSession
    <3> DEFINE n == Len(session)
    <3>0. n \in Nat /\ Len(session') = n + 1
      BY <3>1
    <3>3. ASSUME NEW i \in 1..Len(session'), NEW j \in 1..Len(session'),
                 session'[i] = session'[j]
          PROVE  i = j
      <4>1. (i \in 1..n \/ i = n + 1) /\ (j \in 1..n \/ j = n + 1)
        <5>1. i \in 1..n+1 /\ j \in 1..n+1
          BY <3>0
        <5> HIDE DEF n
        <5> QED
          BY <3>0, <5>1
      <4>2. CASE i \in 1..n /\ j \in 1..n
        BY <3>1, <3>3, <4>2 DEF Structure
      <4>3. CASE i \in 1..n /\ j = n + 1
        BY <3>1, <3>2, <3>3, <4>3
      <4>4. CASE i = n + 1 /\ j \in 1..n
        BY <3>1, <3>2, <3>3, <4>4
      <4>5. CASE i = n + 1 /\ j = n + 1
        BY <4>5
      <4> QED
        BY <4>1, <4>2, <4>3, <4>4, <4>5
    <3>4. Structure'
      BY <3>2, <3>3 DEF Structure
    <3> QED
      BY <2>2, <3>1, <3>4 DEF Add, engine
  <2>3. ASSUME NEW p \in Proposals, MarkPending(p)
        PROVE  Shaped'
    BY <2>3 DEF MarkPending, engine, batch, Structure, States
  <2>4. ASSUME NEW p \in Proposals, Reject(p)
        PROVE  Shaped'
    BY <2>4 DEF Reject, engine, batch, Structure, States
  <2>5. ASSUME NEW p \in Proposals, Confirm(p)
        PROVE  Shaped'
    BY <2>5, CheckTyped DEF Confirm
  <2>6. ASSUME NEW p \in Proposals, ReturnRefusal(p)
        PROVE  Shaped'
    <3>1. stage[p] # "idle" /\ Returns(p, "err")
      BY <2>6 DEF ReturnRefusal
    <3>2. UNCHANGED <<docs, state, granted, refused, tool_calls, denials, applied, typed>>
      BY <2>6 DEF ReturnRefusal, engine
    <3>3. /\ stage' \in [Proposals -> Stages]
          /\ session' \in Seq(Proposals)
          /\ batching' \in BOOLEAN
          /\ results' \in Seq({"ok", "err"})
          /\ Len(results') <= Len(session')
          /\ before' \in [Proposals -> Nat]
          /\ Structure'
      BY <3>1, ReturnTyped
    <3> QED
      BY <3>2, <3>3
  <2>7. ASSUME NEW p \in Proposals, ApplyFileEdit(p)
        PROVE  Shaped'
    <3>1. stage[p] # "idle" /\ Returns(p, "ok")
      BY <2>7 DEF ApplyFileEdit
    <3>2. docs' \in [Seeded -> Text]
      <4>1. PICK result :
              /\ ReplacesFirst(docs[Edit[p].uri], Edit[p].old, Edit[p].new, result)
              /\ docs' = [docs EXCEPT ![Edit[p].uri] = result]
        BY <2>7 DEF ApplyFileEdit, Edited
      <4>2. docs[Edit[p].uri] \in Seq(Fragments)
        BY <2>7 DEF ApplyFileEdit, Text
      <4>3. Edit[p].old \in Seq(Fragments) /\ Edit[p].new \in Seq(Fragments)
        BY DEF Text
      <4>4. result \in Text
        BY <4>1, <4>2, <4>3, ReplacingKeeps DEF Text
      <4> QED
        BY <4>1, <4>4
    <3>3. state' \in [Proposals -> States] /\ applied' \in [Proposals -> Nat]
      BY <2>7 DEF ApplyFileEdit, Takes, States
    <3>4. tool_calls' \in Nat /\ UNCHANGED <<granted, refused, denials, typed>>
      BY <2>7 DEF ApplyFileEdit
    <3>5. /\ stage' \in [Proposals -> Stages]
          /\ session' \in Seq(Proposals)
          /\ batching' \in BOOLEAN
          /\ results' \in Seq({"ok", "err"})
          /\ Len(results') <= Len(session')
          /\ before' \in [Proposals -> Nat]
          /\ Structure'
      BY <3>1, ReturnTyped
    <3> QED
      BY <3>2, <3>3, <3>4, <3>5
  <2>8. ASSUME NEW p \in Proposals, HostRejects(p)
        PROVE  Shaped'
    <3>1. stage[p] # "idle" /\ Returns(p, "err")
      BY <2>8 DEF HostRejects
    <3>2. /\ tool_calls' \in Nat
          /\ UNCHANGED <<docs, state, granted, refused, denials, applied, typed>>
      BY <2>8 DEF HostRejects
    <3>3. /\ stage' \in [Proposals -> Stages]
          /\ session' \in Seq(Proposals)
          /\ batching' \in BOOLEAN
          /\ results' \in Seq({"ok", "err"})
          /\ Len(results') <= Len(session')
          /\ before' \in [Proposals -> Nat]
          /\ Structure'
      BY <3>1, ReturnTyped
    <3> QED
      BY <3>2, <3>3
  <2>9. ASSUME NEW p \in Proposals, ApproveCommand(p)
        PROVE  Shaped'
    <3>1. stage[p] # "idle" /\ Returns(p, "ok")
      BY <2>9 DEF ApproveCommand
    <3>2. state' \in [Proposals -> States] /\ applied' \in [Proposals -> Nat]
      BY <2>9 DEF ApproveCommand, Takes, States
    <3>3. /\ tool_calls' \in Nat
          /\ UNCHANGED <<docs, granted, refused, denials, typed>>
      BY <2>9 DEF ApproveCommand
    <3>4. /\ stage' \in [Proposals -> Stages]
          /\ session' \in Seq(Proposals)
          /\ batching' \in BOOLEAN
          /\ results' \in Seq({"ok", "err"})
          /\ Len(results') <= Len(session')
          /\ before' \in [Proposals -> Nat]
          /\ Structure'
      BY <3>1, ReturnTyped
    <3> QED
      BY <3>2, <3>3, <3>4
  <2>10. ASSUME RejectAll
         PROVE  Shaped'
    BY <2>10 DEF RejectAll, engine, batch, Structure, States
  <2>11. ASSUME ConfirmAll
         PROVE  Shaped'
    BY <2>11 DEF ConfirmAll, SessionFree, engine, Structure
  <2>12. ASSUME ConfirmNext
         PROVE  Shaped'
    <3> DEFINE p == session[Len(results) + 1]
    <3>1. p \in Proposals /\ Len(results) < Len(session)
      BY <2>12 DEF ConfirmNext
    <3>2. Check(p)
      BY <2>12 DEF ConfirmNext
    <3> QED
      BY <3>1, <3>2, CheckTyped
  <2>13. ASSUME ReturnAll
         PROVE  Shaped'
    BY <2>13 DEF ReturnAll, engine, Structure
  <2>14. ASSUME NEW d \in Seeded, NEW w \in Typed, UserTypes(d, w)
         PROVE  Shaped'
    <3>1. PICK i \in 0..Len(docs[d]) :
            docs' = [docs EXCEPT ![d] = Splice(docs[d], i, 0, <<w>>)]
      BY <2>14 DEF UserTypes
    <3>2. /\ docs[d] \in Seq(Fragments) /\ <<w>> \in Seq(Fragments)
          /\ i + 0 <= Len(docs[d])
      BY DEF Text
    <3>3. Splice(docs[d], i, 0, <<w>>) \in Text
      BY <3>2, SpliceType DEF Text
    <3>4. docs' \in [Seeded -> Text]
      BY <3>1, <3>3
    <3> QED
      BY <2>14, <3>4 DEF UserTypes, engine, batch, Structure
  <2>15. CASE UNCHANGED vars
    BY <2>15 DEF vars, Structure
  <2> QED
    BY <2>1, <2>2, <2>3, <2>4, <2>5, <2>6, <2>7, <2>8, <2>9, <2>10, <2>11,
       <2>12, <2>13, <2>14, <2>15 DEF Next
<1> QED
  BY <1>1, <1>2, PTL DEF Spec

(* Every variable of Craft keeps its type, the results of a batch being    *)
(* never more than its proposals.                                          *)
THEOREM CraftTypeCorrect == Spec => []TypeOK
<1>1. Shaped => TypeOK
  BY DEF Shaped
<1> QED
  BY <1>1, ShapedAlways, PTL

-----------------------------------------------------------------------------
(* What took effect, and what the batch says of it                         *)

(***************************************************************************)
(* A step moves the effects of one proposal at most, by one, and only from *)
(* a granted confirm of a kind that the mask allows.  The lemma sums up    *)
(* the actions for the two theorems below.                                 *)
(***************************************************************************)
LEMMA EffectSteps ==
  ASSUME Shaped, [Next]_vars, NEW q \in Proposals
  PROVE  \/ /\ applied'[q] = applied[q] + 1
            /\ state'[q] = "Applied"
            /\ stage[q] = "granted" /\ stage'[q] = "idle"
            /\ granted'[q] = granted[q]
         \/ /\ applied'[q] = applied[q]
            /\ state'[q] = "Applied" <=> state[q] = "Applied"
            /\ \/ stage'[q] # "granted" /\ granted'[q] = granted[q]
               \/ stage'[q] = stage[q] /\ granted'[q] = granted[q]
               \/ /\ stage[q] # "granted" /\ Authorized(q)
                  /\ granted'[q] = granted[q] + 1
<1> USE DEF Shaped, TypeOK
<1>1. ASSUME NEW p \in Proposals, Check(p)
      PROVE  /\ applied' = applied /\ state' = state
             /\ \/ stage'[q] # "granted" /\ granted'[q] = granted[q]
                \/ stage'[q] = stage[q] /\ granted'[q] = granted[q]
                \/ stage[q] # "granted" /\ Authorized(q) /\ granted'[q] = granted[q] + 1
  BY <1>1 DEF Check
<1>2. ASSUME NEW p \in Proposals, NEW r, Returns(p, r)
      PROVE  stage'[q] = IF q = p THEN "idle" ELSE stage[q]
  BY <1>2 DEF Returns
<1>3. ASSUME NEW p \in Proposals, Takes(p)
      PROVE  /\ applied'[q] = IF q = p THEN applied[q] + 1 ELSE applied[q]
             /\ state'[q] = IF q = p THEN "Applied" ELSE state[q]
  BY <1>3 DEF Takes
<1>4. ASSUME NEW p \in Proposals,
             Propose(p) \/ Add(p) \/ MarkPending(p) \/ Reject(p)
      PROVE  /\ applied' = applied /\ stage' = stage /\ granted' = granted
             /\ state'[q] = "Applied" <=> state[q] = "Applied"
  BY <1>4 DEF Propose, Add, MarkPending, Reject, Rejectable, engine, batch
<1>5. ASSUME NEW p \in Proposals, ReturnRefusal(p) \/ HostRejects(p)
      PROVE  /\ applied' = applied /\ state' = state /\ granted' = granted
             /\ stage'[q] = stage[q] \/ stage'[q] # "granted"
  BY <1>2, <1>5 DEF ReturnRefusal, HostRejects, engine
<1>6. ASSUME NEW p \in Proposals, ApplyFileEdit(p) \/ ApproveCommand(p)
      PROVE  /\ Takes(p) /\ stage[p] = "granted" /\ granted' = granted
             /\ stage'[q] = IF q = p THEN "idle" ELSE stage[q]
  BY <1>2, <1>6 DEF ApplyFileEdit, ApproveCommand
<1>7. ASSUME \/ RejectAll \/ ConfirmAll \/ ReturnAll \/ UNCHANGED vars
             \/ \E d \in Seeded, w \in Typed : UserTypes(d, w)
      PROVE  /\ applied' = applied /\ stage' = stage /\ granted' = granted
             /\ state'[q] = "Applied" <=> state[q] = "Applied"
  BY <1>7 DEF RejectAll, Rejectable, ConfirmAll, ReturnAll, UserTypes, engine, batch, vars
<1>8. ASSUME ConfirmNext
      PROVE  \E p \in Proposals : Check(p)
  <2>1. session[Len(results) + 1] \in Proposals
    BY <1>8 DEF ConfirmNext
  <2> QED
    BY <1>8, <2>1 DEF ConfirmNext
<1>9. CASE \E p \in Proposals : Check(p)
  BY <1>1, <1>9
<1>10. CASE \E p \in Proposals : ApplyFileEdit(p) \/ ApproveCommand(p)
  BY <1>3, <1>6, <1>10
<1>11. CASE \E p \in Proposals : ReturnRefusal(p) \/ HostRejects(p)
  BY <1>5, <1>11
<1>12. CASE \E p \in Proposals : Propose(p) \/ Add(p) \/ MarkPending(p) \/ Reject(p)
  BY <1>4, <1>12
<1>13. CASE \/ RejectAll \/ ConfirmAll \/ ReturnAll \/ UNCHANGED vars
            \/ \E d \in Seeded, w \in Typed : UserTypes(d, w)
  BY <1>7, <1>13
<1> QED
  BY <1>8, <1>9, <1>10, <1>11, <1>12, <1>13 DEF Next, Confirm

(***************************************************************************)
(* A proposal reads Applied exactly if it took effect, whatever is         *)
(* rejected, confirmed again, refused or left half way through a batch.    *)
(***************************************************************************)
THEOREM AppliedTellsEffect == Spec => []AppliedIffEffect
<1>1. Init => AppliedIffEffect
  BY DEF Init, AppliedIffEffect
<1>2. Shaped /\ AppliedIffEffect /\ [Next]_vars => AppliedIffEffect'
  <2> SUFFICES ASSUME Shaped, AppliedIffEffect, [Next]_vars, NEW q \in Proposals
               PROVE  state'[q] = "Applied" <=> applied'[q] > 0
    BY DEF AppliedIffEffect
  <2>1. applied[q] \in Nat /\ (state[q] = "Applied" <=> applied[q] > 0)
    BY DEF Shaped, TypeOK, AppliedIffEffect
  <2>2. \/ applied'[q] = applied[q] + 1 /\ state'[q] = "Applied"
        \/ applied'[q] = applied[q] /\ (state'[q] = "Applied" <=> state[q] = "Applied")
    BY EffectSteps
  <2> QED
    BY <2>1, <2>2
<1> QED
  BY <1>1, <1>2, ShapedAlways, PTL DEF Spec

(***************************************************************************)
(* Every effect of a proposal has a granted audit event of its own before  *)
(* it, and nothing is granted without the bit of its kind.                 *)
(***************************************************************************)
THEOREM EffectsPaidFor == Spec => []EffectsAuthorized
<1>1. Init => EffectsAuthorized
  BY DEF Init, EffectsAuthorized
<1>2. Shaped /\ EffectsAuthorized /\ [Next]_vars => EffectsAuthorized'
  <2> SUFFICES ASSUME Shaped, EffectsAuthorized, [Next]_vars, NEW q \in Proposals
               PROVE  /\ applied'[q] + (IF stage'[q] = "granted" THEN 1 ELSE 0)
                            <= granted'[q]
                      /\ granted'[q] > 0 => RequiredPermission[Edit[q].kind] \in Perms
    BY DEF EffectsAuthorized
  <2>1. /\ applied[q] \in Nat /\ granted[q] \in Nat
        /\ applied[q] + (IF stage[q] = "granted" THEN 1 ELSE 0) <= granted[q]
        /\ granted[q] > 0 => RequiredPermission[Edit[q].kind] \in Perms
    BY DEF Shaped, TypeOK, EffectsAuthorized
  <2>2. \/ /\ applied'[q] = applied[q] + 1
           /\ stage[q] = "granted" /\ stage'[q] = "idle"
           /\ granted'[q] = granted[q]
        \/ applied'[q] = applied[q] /\ stage'[q] # "granted" /\ granted'[q] = granted[q]
        \/ applied'[q] = applied[q] /\ stage'[q] = stage[q] /\ granted'[q] = granted[q]
        \/ /\ applied'[q] = applied[q] /\ stage[q] # "granted" /\ Authorized(q)
           /\ granted'[q] = granted[q] + 1
    BY EffectSteps
  <2> QED
    BY <2>1, <2>2 DEF Authorized
<1> QED
  BY <1>1, <1>2, ShapedAlways, PTL DEF Spec

(***************************************************************************)
(* While confirm_all runs, a proposal of the session took effect in this   *)
(* batch if and only if the loop has come to it and its result is Ok.      *)
(***************************************************************************)
THEOREM BatchTellsTruth == Spec => []BatchTruthful
<1>1. Init => BatchTruthful
  BY DEF Init, BatchTruthful
<1>2. Shaped /\ BatchTruthful /\ [Next]_vars => BatchTruthful'
  <2> SUFFICES ASSUME Shaped, BatchTruthful, [Next]_vars
               PROVE  BatchTruthful'
    OBVIOUS
  <2> USE DEF Shaped, TypeOK
  <2>1. ASSUME NEW p \in Proposals, stage[p] # "idle",
               NEW r \in {"ok", "err"}, Returns(p, r),
               \A q \in Proposals :
                 applied'[q] = applied[q] + (IF q = p /\ r = "ok" THEN 1 ELSE 0)
        PROVE  BatchTruthful'
    <3>1. session' = session /\ batching' = batching /\ before' = before
      BY <2>1 DEF Returns
    <3> SUFFICES ASSUME batching, NEW i \in 1..Len(session)
                 PROVE  applied'[session[i]] = before[session[i]] +
                          (IF i <= Len(results') /\ results'[i] = "ok" THEN 1 ELSE 0)
      BY <3>1 DEF BatchTruthful
    <3>2. /\ session[i] \in Proposals
          /\ applied[session[i]] = before[session[i]] +
               (IF i <= Len(results) /\ results[i] = "ok" THEN 1 ELSE 0)
          /\ before[session[i]] \in Nat
      <4>1. session[i] \in Proposals
        OBVIOUS
      <4>2. before[session[i]] \in Nat
        BY <4>1
      <4> HIDE DEF Shaped, TypeOK
      <4> QED
        BY <4>1, <4>2 DEF BatchTruthful
    <3>3. CASE InSession(p)
      <4>1. Len(results) < Len(session) /\ p = session[Len(results) + 1]
        BY <2>1, <3>3, AwaitedByLoop
      <4>2. results' = Append(results, r)
        BY <2>1, <3>3 DEF Returns
      <4>3. /\ Len(results') = Len(results) + 1
            /\ results'[Len(results) + 1] = r
            /\ \A j \in 1..Len(results) : results'[j] = results[j]
        BY <4>2
      <4> DEFINE n == Len(results)
      <4>n. n \in Nat /\ i \in Nat /\ i >= 1
        OBVIOUS
      <4>p. n + 1 \in 1..Len(session) /\ p = session[n + 1] /\ Len(results') = n + 1
        <5>1. Len(results) \in Nat /\ Len(session) \in Nat
          BY BatchLengths
        <5> HIDE DEF Shaped, TypeOK
        <5> QED
          BY <4>1, <4>3, <5>1
      <4> HIDE DEF n
      <4>4. CASE i = n + 1
        <5>1. applied[session[i]] = before[session[i]] /\ session[i] = p
          BY <3>2, <4>1, <4>4, <4>n DEF n
        <5>2. applied'[p] = applied[p] + (IF r = "ok" THEN 1 ELSE 0)
          BY <2>1
        <5>3. /\ i <= Len(results') /\ results'[i] = r
          BY <4>3, <4>4, <4>n DEF n
        <5>4. before[p] \in Nat /\ applied[p] = before[p]
          BY <3>2, <5>1
        <5> QED
          BY <5>1, <5>2, <5>3, <5>4
      <4>5. CASE i # n + 1
        <5>1. session[i] # p
          BY <4>p, <4>5 DEF Structure
        <5>2. applied'[session[i]] = applied[session[i]]
          <6>1. applied[session[i]] \in Nat
            BY <3>2
          <6>2. applied'[session[i]] = applied[session[i]] + 0
            BY <2>1, <3>2, <5>1
          <6> HIDE DEF Shaped, TypeOK
          <6> QED
            BY <6>1, <6>2
        <5>3. i <= Len(results') <=> i <= n
          <6> HIDE DEF Shaped, TypeOK
          <6>1. Len(results') = n + 1
            BY <4>p
          <6>2. i <= n + 1 <=> i <= n
            BY <4>5, <4>n
          <6> QED
            BY <6>1, <6>2
        <5>4. i <= n => results'[i] = results[i]
          BY <4>3, <4>n DEF n
        <5> HIDE DEF Shaped, TypeOK
        <5> QED
          BY <3>2, <5>2, <5>3, <5>4 DEF n
      <4> QED
        BY <4>4, <4>5
    <3>4. CASE ~InSession(p)
      <4>1. results' = results /\ session[i] # p
        BY <2>1, <3>4 DEF Returns, InSession
      <4>2. applied'[session[i]] = applied[session[i]]
        <5>1. applied[session[i]] \in Nat
          BY <3>2
        <5>2. applied'[session[i]] = applied[session[i]] + 0
          BY <2>1, <3>2, <4>1
        <5> HIDE DEF Shaped, TypeOK
        <5> QED
          BY <5>1, <5>2
      <4> HIDE DEF Shaped, TypeOK
      <4> QED
        BY <3>2, <4>1, <4>2
    <3> QED
      BY <3>3, <3>4
  <2>2. CASE applied' = applied /\ UNCHANGED <<session, batching, results, before>>
    BY <2>2 DEF BatchTruthful
  <2>3. ASSUME NEW p \in Proposals, ReturnRefusal(p) \/ HostRejects(p)
        PROVE  BatchTruthful'
    <3>1. stage[p] # "idle" /\ Returns(p, "err") /\ applied' = applied
      BY <2>3 DEF ReturnRefusal, HostRejects
    <3> QED
      BY <2>1, <3>1
  <2>4. ASSUME NEW p \in Proposals, ApplyFileEdit(p) \/ ApproveCommand(p)
        PROVE  BatchTruthful'
    <3>1. /\ stage[p] # "idle" /\ Returns(p, "ok")
          /\ applied' = [applied EXCEPT ![p] = @ + 1]
      BY <2>4 DEF ApplyFileEdit, ApproveCommand, Takes
    <3>2. \A q \in Proposals : applied'[q] = applied[q] + (IF q = p THEN 1 ELSE 0)
      BY <3>1
    <3> QED
      BY <2>1, <3>1, <3>2
  <2>5. ASSUME NEW p \in Proposals, Add(p)
        PROVE  BatchTruthful'
    BY <2>5 DEF Add, SessionFree, BatchTruthful
  <2>6. CASE ReturnAll
    BY <2>6 DEF ReturnAll, BatchTruthful
  <2>7. CASE ConfirmAll
    <3>1. session' = session /\ results' = <<>> /\ before' = applied /\ applied' = applied
      BY <2>7 DEF ConfirmAll
    <3>2. ASSUME NEW i \in 1..Len(session)
          PROVE  /\ applied[session[i]] \in Nat
                 /\ ~(i <= Len(results'))
      BY <3>1
    <3> QED
      BY <3>1, <3>2 DEF BatchTruthful
  <2>8. ASSUME NEW p \in Proposals,
               Propose(p) \/ MarkPending(p) \/ Reject(p) \/ Check(p)
        PROVE  applied' = applied /\ UNCHANGED <<session, batching, results, before>>
    BY <2>8 DEF Propose, MarkPending, Reject, Check, batch
  <2>9. ASSUME \/ RejectAll \/ ConfirmNext \/ UNCHANGED vars
               \/ \E d \in Seeded, w \in Typed : UserTypes(d, w)
        PROVE  applied' = applied /\ UNCHANGED <<session, batching, results, before>>
    BY <2>9 DEF RejectAll, ConfirmNext, Check, UserTypes, batch, vars
  <2> QED
    BY <2>2, <2>3, <2>4, <2>5, <2>6, <2>7, <2>8, <2>9 DEF Next, Confirm
<1> QED
  BY <1>1, <1>2, ShapedAlways, PTL DEF Spec

(***************************************************************************)
(* What the user typed is still in the document, however many edits were   *)
(* applied since, unless one of them names it as old text.                 *)
(***************************************************************************)
THEOREM UserTextSurvives == Spec => []UserTextKept
<1> USE CraftAssumption
<1>1. Init => UserTextKept
  BY DEF Init, UserTextKept
<1>2. Shaped /\ UserTextKept /\ [Next]_vars => UserTextKept'
  <2> SUFFICES ASSUME Shaped, UserTextKept, [Next]_vars
               PROVE  UserTextKept'
    OBVIOUS
  <2>1. docs \in [Seeded -> Text] /\ typed \subseteq Seeded \X Typed
    BY DEF Shaped, TypeOK
  <2>2. CASE docs' = docs /\ typed' = typed
    BY <2>2 DEF UserTextKept
  <2>3. ASSUME NEW p \in Proposals, ApplyFileEdit(p)
        PROVE  UserTextKept'
    <3> DEFINE d == Edit[p].uri
    <3>1. PICK result :
            /\ ReplacesFirst(docs[d], Edit[p].old, Edit[p].new, result)
            /\ docs' = [docs EXCEPT ![d] = result]
      BY <2>3 DEF ApplyFileEdit, Edited
    <3>2. d \in Seeded /\ typed' = typed
      BY <2>3 DEF ApplyFileEdit
    <3>3. \A f : Holds(docs[d], f) /\ ~Holds(Edit[p].old, f) => Holds(result, f)
      <4>1. /\ docs[d] \in Seq(Fragments)
            /\ Edit[p].old \in Seq(Fragments) /\ Edit[p].new \in Seq(Fragments)
        BY <2>1, <3>2 DEF Text
      <4> QED
        BY <3>1, <4>1, ReplacingKeeps
    <3> SUFFICES ASSUME NEW t \in typed,
                        \A q \in Proposals : Edit[q].uri = t[1] => ~Holds(Edit[q].old, t[2])
                 PROVE  Holds(docs'[t[1]], t[2])
      BY <3>2 DEF UserTextKept
    <3>4. t[1] \in Seeded /\ Holds(docs[t[1]], t[2])
      BY <2>1 DEF UserTextKept
    <3>5. CASE t[1] = d
      <4>1. docs'[d] = result
        BY <2>1, <3>1, <3>2
      <4> QED
        BY <3>3, <3>4, <3>5, <4>1
    <3>6. CASE t[1] # d
      BY <2>1, <3>1, <3>4, <3>6
    <3> QED
      BY <3>5, <3>6
  <2>4. ASSUME NEW d \in Seeded, NEW w \in Typed, UserTypes(d, w)
        PROVE  UserTextKept'
    <3>1. PICK i \in 0..Len(docs[d]) :
            docs' = [docs EXCEPT ![d] = Splice(docs[d], i, 0, <<w>>)]
      BY <2>4 DEF UserTypes
    <3>2. typed' = typed \cup {<<d, w>>}
      BY <2>4 DEF UserTypes
    <3>3. /\ docs[d] \in Seq(Fragments) /\ w \in Fragments
          /\ <<w>> \in Seq(Fragments) /\ i + 0 <= Len(docs[d])
      BY <2>1 DEF Text
    <3>4. docs'[d] = Splice(docs[d], i, 0, <<w>>)
      BY <2>1, <3>1
    <3>5. Holds(docs'[d], w)
      <4>1. Holds(<<w>>, w)
        BY DEF Holds
      <4> QED
        BY <3>3, <3>4, <4>1, SpliceBrings
    <3>6. ASSUME NEW f, Holds(docs[d], f)
          PROVE  Holds(docs'[d], f)
      <4> DEFINE text == docs[d]
      <4>1. /\ text \in Seq(Fragments) /\ <<w>> \in Seq(Fragments)
            /\ i \in 0..Len(text) /\ 0 \in Nat /\ i + 0 <= Len(text)
            /\ Holds(text, f)
        BY <3>3, <3>6
      <4> HIDE DEF text
      <4>2. \A k \in i+1..i+0 : text[k] # f
        BY <4>1
      <4>3. Holds(Splice(text, i, 0, <<w>>), f)
        BY <4>1, <4>2, SpliceKeeps
      <4> QED
        BY <3>4, <4>3 DEF text
    <3> SUFFICES ASSUME NEW t \in typed',
                        \A q \in Proposals : Edit[q].uri = t[1] => ~Holds(Edit[q].old, t[2])
                 PROVE  Holds(docs'[t[1]], t[2])
      BY DEF UserTextKept
    <3>7. CASE t = <<d, w>>
      BY <3>5, <3>7
    <3>8. CASE t \in typed
      <4>1. t[1] \in Seeded /\ Holds(docs[t[1]], t[2])
        BY <2>1, <3>8 DEF UserTextKept
      <4>2. t[1] # d => docs'[t[1]] = docs[t[1]]
        BY <2>1, <3>1, <4>1
      <4> QED
        BY <3>6, <4>1, <4>2
    <3> QED
      BY <3>2, <3>7, <3>8
  <2>5. ASSUME NEW p \in Proposals,
               \/ Propose(p) \/ Add(p) \/ MarkPending(p) \/ Reject(p) \/ Check(p)
               \/ ReturnRefusal(p) \/ HostRejects(p) \/ ApproveCommand(p)
        PROVE  docs' = docs /\ typed' = typed
    BY <2>5 DEF Propose, Add, MarkPending, Reject, Check, ReturnRefusal,
                HostRejects, ApproveCommand
  <2>6. ASSUME \/ RejectAll \/ ConfirmAll \/ ConfirmNext \/ ReturnAll
               \/ UNCHANGED vars
        PROVE  docs' = docs /\ typed' = typed
    BY <2>6 DEF RejectAll, ConfirmAll, ConfirmNext, Check, ReturnAll, vars
  <2> QED
    BY <2>2, <2>3, <2>4, <2>5, <2>6 DEF Next, Confirm
<1> QED
  BY <1>1, <1>2, ShapedAlways, PTL DEF Spec

-----------------------------------------------------------------------------
(* The page and its commands (CraftDesk)                                   *)

(* Commands are for proposals that were made, by pages that were there.    *)
Made ==
  \A c \in 1..Len(commands) :
    commands[c].number <= Len(proposals) /\ commands[c].visit <= visit

(* The confirm commands under way for the page the user is on.             *)
Awaiting(c) == commands[c].visit = visit /\ commands[c].stage \in {"read", "write"}

(* A busy page waits for exactly one of them, for the proposal it shows,   *)
(* and that one is still open.                                             *)
OneAwaited ==
  /\ \A c \in 1..Len(commands) :
       Awaiting(c) => /\ page.busy
                      /\ page.number = commands[c].number
                      /\ page.state = "suggestion"
  /\ \A c, d \in 1..Len(commands) : Awaiting(c) /\ Awaiting(d) => c = d

(* A proposal is known to one page only: the one it was made on.           *)
OwnProposal ==
  page.number # 0 =>
    /\ page.state # "none"
    /\ \A c \in 1..Len(commands) :
         commands[c].number = page.number => commands[c].visit = visit

(* A file edit was written by a command that is done, and by no other.     *)
WrittenByCommand ==
  /\ \A n \in Numbers : writes[n] > 0 => n <= Len(proposals) /\ proposals[n].kind = "FileEdit"
  /\ \A c \in 1..Len(commands) :
       commands[c].stage = "write" => proposals[commands[c].number].kind = "FileEdit"
  /\ \A n \in 1..Len(proposals) :
       proposals[n].kind = "FileEdit" =>
         (writes[n] > 0 <=> \E c \in 1..Len(commands) :
                              commands[c].number = n /\ commands[c].stage = "done")

(* What the page shows of its proposal, said of the commands.              *)
PageAgrees ==
  page.number # 0 =>
    /\ page.state = "applied" =>
         \E c \in 1..Len(commands) :
           commands[c].number = page.number /\ commands[c].stage = "done"
    /\ \A c \in 1..Len(commands) :
         commands[c].number = page.number =>
           /\ page.state = "suggestion" => commands[c].stage # "done"
           /\ page.state = "rejected" => commands[c].stage = "failed"

(* Every word written to a file, but those that may be removed, is in the  *)
(* text.                                                                   *)
Preserves(made, written, file, text) ==
  \A n \in 1..Len(made) :
    written[n] > 0 /\ made[n].uri = file =>
      \A k \in 1..Len(made[n].new) : Removable(made[n].new[k]) \/ Holds(text, made[n].new[k])

(* The files do so, and so does the text a command is going to write,      *)
(* which holds the words of its own edit as well.                          *)
NothingUndone ==
  visit = 0 /\ DiskWorks =>
    /\ \A f \in Files : Preserves(proposals, writes, f, disk[f])
    /\ \A c \in 1..Len(commands) :
         commands[c].stage = "write" =>
           /\ Preserves(proposals, writes, EditOf(c).uri, commands[c].text)
           /\ \A k \in 1..Len(EditOf(c).new) : Holds(commands[c].text, EditOf(c).new[k])

DeskTyped == DeskTypeOK /\ Made
PageInv == OneAwaited /\ OwnProposal /\ WrittenByCommand /\ PageAgrees
DeskIInv == DeskTyped /\ PageInv /\ NothingUndone

-----------------------------------------------------------------------------
(* The types of the page                                                   *)

(* What is known of a command and of its edit.                             *)
LEMMA CommandFacts ==
  ASSUME DeskTyped, NEW c \in 1..Len(commands)
  PROVE  /\ commands[c] \in Command
         /\ commands[c].number \in Numbers /\ commands[c].number \in 1..Len(proposals)
         /\ commands[c].visit \in Nat /\ commands[c].visit <= visit
         /\ commands[c].stage \in CommandStages
         /\ commands[c].text \in Seq(Words)
         /\ EditOf(c) \in Edits /\ EditOf(c) = proposals[commands[c].number]
         /\ EditOf(c).old \in Seq(Words) /\ EditOf(c).new \in Seq(Words)
         /\ EditOf(c).kind = "FileEdit" => EditOf(c).uri \in Files
<1>1. commands[c] \in Command
  BY DEF DeskTyped, DeskTypeOK
<1>2. /\ commands[c].number \in Numbers /\ commands[c].visit \in Nat
      /\ commands[c].stage \in CommandStages /\ commands[c].text \in Seq(Words)
  BY <1>1 DEF Command, OnDisk
<1>3. commands[c].number \in 1..Len(proposals) /\ commands[c].visit <= visit
  BY <1>2 DEF DeskTyped, DeskTypeOK, Made, Numbers
<1>4. EditOf(c) \in Edits
  BY <1>3 DEF DeskTyped, DeskTypeOK, EditOf
<1> QED
  BY <1>1, <1>2, <1>3, <1>4, DeskAssumption DEF EditOf, OnDisk

(* A command moves on, and keeps its number and visit.                     *)
LEMMA CommandMoves ==
  ASSUME DeskTyped, NEW c \in 1..Len(commands), NEW v \in Command,
         v.number = commands[c].number, v.visit = commands[c].visit,
         commands' = [commands EXCEPT ![c] = v]
  PROVE  /\ commands' \in Seq(Command) /\ Len(commands') = Len(commands)
         /\ \A d \in 1..Len(commands) : /\ commands'[d].number = commands[d].number
                                       /\ commands'[d].visit = commands[d].visit
         /\ \A d \in 1..Len(commands) : d # c => commands'[d] = commands[d]
         /\ commands'[c] = v
<1>1. commands \in Seq(Command)
  BY DEF DeskTyped, DeskTypeOK
<1>2. /\ commands' \in Seq(Command) /\ Len(commands') = Len(commands)
      /\ commands'[c] = v
      /\ \A d \in 1..Len(commands) : d # c => commands'[d] = commands[d]
  BY <1>1
<1> QED
  BY <1>2

LEMMA TextRead ==
  ASSUME DeskTyped, NEW c \in 1..Len(commands), NEW text \in OnDisk,
         commands' = [commands EXCEPT ![c] = [@ EXCEPT !.stage = "write", !.text = text]]
  PROVE  /\ commands' \in Seq(Command) /\ Len(commands') = Len(commands)
         /\ \A d \in 1..Len(commands) : /\ commands'[d].number = commands[d].number
                                       /\ commands'[d].visit = commands[d].visit
         /\ \A d \in 1..Len(commands) : d # c => commands'[d] = commands[d]
         /\ commands'[c].stage = "write" /\ commands'[c].text = text
<1> DEFINE v == [commands[c] EXCEPT !.stage = "write", !.text = text]
<1>1. commands[c] \in Command /\ commands' = [commands EXCEPT ![c] = v]
  BY CommandFacts
<1>2. /\ v \in Command /\ v.stage = "write" /\ v.text = text
      /\ v.number = commands[c].number /\ v.visit = commands[c].visit
  BY <1>1 DEF Command, CommandStages
<1> HIDE DEF v
<1> QED
  BY <1>1, <1>2, CommandMoves

LEMMA CommandEnds ==
  ASSUME DeskTyped, NEW c \in 1..Len(commands), NEW s \in CommandStages, EndsAt(c, s)
  PROVE  /\ commands' \in Seq(Command) /\ Len(commands') = Len(commands)
         /\ \A d \in 1..Len(commands) : /\ commands'[d].number = commands[d].number
                                       /\ commands'[d].visit = commands[d].visit
         /\ \A d \in 1..Len(commands) : d # c => commands'[d] = commands[d]
         /\ commands'[c].stage = s
<1> DEFINE v == [commands[c] EXCEPT !.stage = s]
<1>1. commands[c] \in Command /\ commands' = [commands EXCEPT ![c] = v]
  BY CommandFacts DEF EndsAt
<1>2. /\ v \in Command /\ v.stage = s
      /\ v.number = commands[c].number /\ v.visit = commands[c].visit
  BY <1>1 DEF Command
<1> HIDE DEF v
<1> QED
  BY <1>1, <1>2, CommandMoves

(* The text FsHost is going to write keeps what was in the file and is not *)
(* in the old text, and holds the new text.                                *)
LEMMA UpdateKeeps ==
  ASSUME NEW current \in Seq(Words), NEW e, e.old \in Seq(Words), e.new \in Seq(Words),
         NEW text, Updates(current, e, text)
  PROVE  /\ text \in Seq(Words)
         /\ \A f : Holds(e.new, f) => Holds(text, f)
         /\ \A f : Holds(current, f) /\ ~Holds(e.old, f) => Holds(text, f)
<1>1. CASE e.old = <<>>
  <2>1. text = current \o e.new
    BY <1>1 DEF Updates
  <2>2. text \in Seq(Words)
    BY <2>1, Joined
  <2> QED
    BY <2>1, <2>2, JoinedHolds
<1>2. CASE e.old # <<>>
  <2>1. ReplacesFirst(current, e.old, e.new, text)
    BY <1>2 DEF Updates
  <2> QED
    BY <2>1, ReplacingKeeps
<1> QED
  BY <1>1, <1>2

(* What a read leaves: the command failed, or has the text to write.       *)
LEMMA ReadOutcome ==
  ASSUME DeskTyped, NEW c \in 1..Len(commands), ReadFile(c)
  PROVE  /\ commands[c].stage = "read" /\ EditOf(c).kind = "FileEdit"
         /\ misread' \in BOOLEAN /\ (misread => misread')
         /\ \/ EndsAt(c, "failed") /\ AnswersError(c)
            \/ /\ page' = page
               /\ \E text \in OnDisk :
                    /\ commands' = [commands EXCEPT ![c] =
                                      [@ EXCEPT !.stage = "write", !.text = text]]
                    /\ ~misread' => Updates(disk[EditOf(c).uri], EditOf(c), text)
         /\ UNCHANGED <<proposals, visit, disk, saves, writes>>
<1>0. UNCHANGED <<proposals, visit, disk, saves, writes>>
      /\ commands[c].stage = "read" /\ EditOf(c).kind = "FileEdit"
  BY DEF ReadFile
<1>1. PICK current \in Current(EditOf(c).uri) :
       /\ misread' = (misread \/ current # disk[EditOf(c).uri])
       /\ \/ /\ \E text \in Texts(current, EditOf(c)) :
                  /\ Updates(current, EditOf(c), text)
                  /\ commands' = [commands EXCEPT ![c] =
                                      [@ EXCEPT !.stage = "write", !.text = text]]
             /\ UNCHANGED page
          \/ EndsAt(c, "failed") /\ AnswersError(c)
  BY DEF ReadFile
<1>2. /\ EditOf(c).uri \in Files /\ EditOf(c).old \in Seq(Words)
      /\ EditOf(c).new \in Seq(Words)
  BY <1>0, CommandFacts
<1>3. current \in Seq(Words)
  <2>1. current = disk[EditOf(c).uri] \/ current = <<>>
    BY <1>1 DEF Current
  <2>2. disk[EditOf(c).uri] \in Seq(Words)
    BY <1>2 DEF DeskTyped, DeskTypeOK, OnDisk
  <2>3. \A S : <<>> \in Seq(S)
    OBVIOUS
  <2> QED
    BY <2>1, <2>2, <2>3, Zenon
<1>4. misread' \in BOOLEAN /\ (misread => misread') /\ (~misread' => current = disk[EditOf(c).uri])
  BY <1>1 DEF DeskTyped, DeskTypeOK
<1>5. CASE EndsAt(c, "failed") /\ AnswersError(c)
  BY <1>0, <1>4, <1>5
<1>6. CASE /\ \E text \in Texts(current, EditOf(c)) :
                  /\ Updates(current, EditOf(c), text)
                  /\ commands' = [commands EXCEPT ![c] =
                                      [@ EXCEPT !.stage = "write", !.text = text]]
           /\ UNCHANGED page
  <2>1. PICK text : /\ Updates(current, EditOf(c), text)
                    /\ commands' = [commands EXCEPT ![c] =
                                      [@ EXCEPT !.stage = "write", !.text = text]]
    BY <1>6
  <2>2. text \in OnDisk
    BY <2>1, <1>2, <1>3, UpdateKeeps DEF OnDisk
  <2>3. ~misread' => Updates(disk[EditOf(c).uri], EditOf(c), text)
    BY <2>1, <1>4
  <2> QED
    BY <2>1, <2>2, <2>3, <1>0, <1>4, <1>6
<1> QED
  BY <1>1, <1>5, <1>6

LEMMA DeskInitTyped == DeskInit => DeskTyped
<1> SUFFICES ASSUME DeskInit PROVE DeskTyped
  OBVIOUS
<1>1. /\ proposals = <<>> /\ commands = <<>> /\ page = Blank /\ visit = 0
      /\ disk = DiskText /\ writes = [n \in Numbers |-> 0] /\ misread = FALSE
  BY DEF DeskInit
<1>2. \A S : <<>> \in Seq(S)
  OBVIOUS
<1>3. Len(<<>>) = 0
  OBVIOUS
<1>4. page \in [number : 0..Len(proposals),
               state : {"none", "suggestion", "applied", "rejected"}, busy : BOOLEAN]
  BY <1>1, <1>3 DEF Blank
<1>5. writes \in [Numbers -> Nat]
  BY <1>1
<1>6. proposals \in Seq(Edits) /\ commands \in Seq(Command)
  BY <1>1, <1>2, Zenon
<1>8. Len(proposals) <= MaxProposals /\ visit \in 0..MaxLeaves
  BY <1>1, <1>3, DeskAssumption
<1>9. disk \in [Files -> OnDisk] /\ misread \in BOOLEAN
  BY <1>1, DeskAssumption
<1>10. DeskTypeOK
  BY <1>4, <1>5, <1>6, <1>8, <1>9 DEF DeskTypeOK
<1>7. Made
  BY <1>1, <1>3 DEF Made
<1> QED
  BY <1>7, <1>10 DEF DeskTyped

(* A page that is shown an answer keeps its type.                          *)
LEMMA PageAnswered ==
  ASSUME DeskTyped, NEW c \in 1..Len(commands),
         AnswersError(c) \/ Answers(c, "applied")
  PROVE  page' \in [number : 0..Len(proposals),
                   state : {"none", "suggestion", "applied", "rejected"}, busy : BOOLEAN]
<1> DEFINE n == commands[c].number
<1>1. page \in [number : 0..Len(proposals),
               state : {"none", "suggestion", "applied", "rejected"}, busy : BOOLEAN]
  BY DEF DeskTyped, DeskTypeOK
<1>2. n \in 0..Len(proposals)
  BY CommandFacts
<1>3. \/ page' = page
      \/ page' = [page EXCEPT !.busy = FALSE]
      \/ page' = [number |-> n, state |-> "applied", busy |-> FALSE]
  BY DEF AnswersError, Answers
<1> HIDE DEF n
<1>4. CASE page' = [page EXCEPT !.busy = FALSE]
  BY <1>1, <1>4
<1>5. CASE page' = [number |-> n, state |-> "applied", busy |-> FALSE]
  BY <1>2, <1>5
<1> QED
  BY <1>1, <1>3, <1>4, <1>5

LEMMA DeskStepTyped == DeskTyped /\ [DeskNext]_deskVars => DeskTyped'
<1> SUFFICES ASSUME DeskTyped, [DeskNext]_deskVars PROVE DeskTyped'
  OBVIOUS
<1>t. /\ proposals \in Seq(Edits) /\ Len(proposals) \in Nat /\ Len(proposals) <= MaxProposals
      /\ page \in [number : 0..Len(proposals),
                   state : {"none", "suggestion", "applied", "rejected"}, busy : BOOLEAN]
      /\ visit \in 0..MaxLeaves
      /\ commands \in Seq(Command) /\ Len(commands) \in Nat
      /\ disk \in [Files -> OnDisk]
      /\ writes \in [Numbers -> Nat]
      /\ misread \in BOOLEAN
      /\ MaxProposals \in Nat /\ MaxLeaves \in Nat
      /\ Made
  BY DeskAssumption DEF DeskTyped, DeskTypeOK
<1>m. \A d \in 1..Len(commands) :
        /\ commands[d].number \in Nat /\ commands[d].number <= Len(proposals)
        /\ commands[d].visit \in Nat /\ commands[d].visit <= visit
  BY CommandFacts
<1>0. CASE UNCHANGED deskVars
  BY <1>0, <1>t DEF deskVars, DeskTyped, DeskTypeOK, Made
<1>1. ASSUME NEW e \in Edits, ProposeOnPage(e) PROVE DeskTyped'
  <2>1. /\ proposals' = Append(proposals, e) /\ Len(proposals) < MaxProposals
        /\ page' = [number |-> Len(proposals) + 1, state |-> "suggestion", busy |-> FALSE]
        /\ UNCHANGED <<visit, commands, disk, writes, misread>>
    BY <1>1 DEF ProposeOnPage
  <2>2. proposals' \in Seq(Edits) /\ Len(proposals') = Len(proposals) + 1
    BY <2>1, <1>t
  <2>3. Made'
    BY <2>1, <2>2, <1>t, <1>m DEF Made
  <2> QED
    BY <2>1, <2>2, <2>3, <1>t DEF DeskTyped, DeskTypeOK
<1>2. CASE ConfirmOnPage
  <2> DEFINE v == [number |-> page.number, visit |-> visit, stage |-> "read", text |-> <<>>]
  <2>1. /\ commands' = Append(commands, v) /\ page' = [page EXCEPT !.busy = TRUE]
        /\ page.number # 0
        /\ UNCHANGED <<proposals, visit, disk, writes, misread>>
    BY <1>2 DEF ConfirmOnPage, ConfirmEnabled, Decided
  <2>2. v \in Command
    <3>1. \A S : <<>> \in Seq(S)
      OBVIOUS
    <3>2. <<>> \in OnDisk
      BY <3>1 DEF OnDisk
    <3>3. page.number \in Numbers
      BY <2>1, <1>t DEF Numbers
    <3> QED
      BY <3>2, <3>3, <1>t DEF Command, CommandStages
  <2>3. v.number <= Len(proposals) /\ v.visit <= visit
    BY <1>t
  <2> HIDE DEF v
  <2>4. /\ commands' \in Seq(Command) /\ Len(commands') = Len(commands) + 1
        /\ commands'[Len(commands) + 1] = v
        /\ \A d \in 1..Len(commands) : commands'[d] = commands[d]
    BY <2>1, <2>2, <1>t
  <2>5. Made'
    <3> SUFFICES ASSUME NEW d \in 1..Len(commands')
                 PROVE  commands'[d].number <= Len(proposals) /\ commands'[d].visit <= visit
      BY <2>1 DEF Made
    <3>1. CASE d \in 1..Len(commands)
      BY <3>1, <2>4, <1>t DEF Made
    <3>2. CASE d = Len(commands) + 1
      BY <3>2, <2>3, <2>4
    <3> QED
      BY <3>1, <3>2, <2>4, <1>t
  <2>6. page' \in [number : 0..Len(proposals),
                  state : {"none", "suggestion", "applied", "rejected"}, busy : BOOLEAN]
    BY <2>1, <1>t
  <2> QED
    BY <2>1, <2>4, <2>5, <2>6, <1>t DEF DeskTyped, DeskTypeOK
<1>3. CASE RejectOnPage
  <2>1. /\ page' = [page EXCEPT !.state = "rejected", !.busy = FALSE]
        /\ UNCHANGED <<proposals, visit, commands, disk, writes, misread>>
    BY <1>3 DEF RejectOnPage
  <2>2. page' \in [number : 0..Len(proposals),
                  state : {"none", "suggestion", "applied", "rejected"}, busy : BOOLEAN]
    BY <2>1, <1>t
  <2> QED
    BY <2>1, <2>2, <1>t DEF DeskTyped, DeskTypeOK, Made
<1>4. CASE Leave
  <2>1. /\ page' = Blank /\ visit' = visit + 1 /\ visit < MaxLeaves
        /\ UNCHANGED <<proposals, commands, disk, writes, misread>>
    BY <1>4 DEF Leave
  <2>2. page' \in [number : 0..Len(proposals),
                  state : {"none", "suggestion", "applied", "rejected"}, busy : BOOLEAN]
    BY <2>1, <1>t DEF Blank
  <2>3. Made'
    BY <2>1, <1>t, <1>m DEF Made
  <2> QED
    BY <2>1, <2>2, <2>3, <1>t DEF DeskTyped, DeskTypeOK
(* A command that moves on, with the page that shows its answer.           *)
<1>c. ASSUME NEW c \in 1..Len(commands),
             commands' \in Seq(Command), Len(commands') = Len(commands),
             \A d \in 1..Len(commands) : /\ commands'[d].number = commands[d].number
                                       /\ commands'[d].visit = commands[d].visit,
             page' = page \/ AnswersError(c) \/ Answers(c, "applied"),
             proposals' = proposals, visit' = visit,
             disk' \in [Files -> OnDisk], writes' \in [Numbers -> Nat], misread' \in BOOLEAN
      PROVE  DeskTyped'
  <2>1. Made'
    BY <1>c, <1>t DEF Made
  <2>2. page' \in [number : 0..Len(proposals),
                  state : {"none", "suggestion", "applied", "rejected"}, busy : BOOLEAN]
    BY <1>c, <1>t, PageAnswered
  <2> QED
    BY <1>c, <2>1, <2>2, <1>t DEF DeskTyped, DeskTypeOK
<1>5. ASSUME NEW c \in 1..Len(commands), ReadFile(c) PROVE DeskTyped'
  <2>1. /\ misread' \in BOOLEAN
        /\ UNCHANGED <<proposals, visit, disk, saves, writes>>
        /\ \/ EndsAt(c, "failed") /\ AnswersError(c)
           \/ /\ page' = page
              /\ \E text \in OnDisk :
                   commands' = [commands EXCEPT ![c] =
                                  [@ EXCEPT !.stage = "write", !.text = text]]
    BY <1>5, ReadOutcome
  <2>2. CASE EndsAt(c, "failed") /\ AnswersError(c)
    <3>1. /\ commands' \in Seq(Command) /\ Len(commands') = Len(commands)
          /\ \A d \in 1..Len(commands) : /\ commands'[d].number = commands[d].number
                                        /\ commands'[d].visit = commands[d].visit
      BY <2>2, CommandEnds DEF CommandStages
    <3> QED
      BY <3>1, <2>1, <2>2, <1>c, <1>t
  <2>3. CASE /\ page' = page
             /\ \E text \in OnDisk :
                   commands' = [commands EXCEPT ![c] =
                                  [@ EXCEPT !.stage = "write", !.text = text]]
    <3>1. /\ commands' \in Seq(Command) /\ Len(commands') = Len(commands)
          /\ \A d \in 1..Len(commands) : /\ commands'[d].number = commands[d].number
                                        /\ commands'[d].visit = commands[d].visit
      BY <2>3, TextRead
    <3> QED
      BY <3>1, <2>1, <2>3, <1>c, <1>t
  <2> QED
    BY <2>1, <2>2, <2>3
<1>6. ASSUME NEW c \in 1..Len(commands), WriteFile(c) PROVE DeskTyped'
  <2>1. /\ disk' = [disk EXCEPT ![EditOf(c).uri] = commands[c].text]
        /\ writes' = [writes EXCEPT ![commands[c].number] = @ + 1]
        /\ EndsAt(c, "done") /\ Answers(c, "applied")
        /\ UNCHANGED <<proposals, visit, misread>>
    BY <1>6 DEF WriteFile
  <2>2. /\ commands' \in Seq(Command) /\ Len(commands') = Len(commands)
        /\ \A d \in 1..Len(commands) : /\ commands'[d].number = commands[d].number
                                      /\ commands'[d].visit = commands[d].visit
    BY <2>1, CommandEnds DEF CommandStages
  <2>3. disk' \in [Files -> OnDisk]
    <3> DEFINE w == commands[c].text
               file == EditOf(c).uri
    <3>1. w \in OnDisk /\ disk' = [disk EXCEPT ![file] = w]
      BY <2>1, CommandFacts DEF OnDisk
    <3> HIDE DEF w, file
    <3> QED
      BY <3>1, <1>t
  <2>4. writes' \in [Numbers -> Nat]
    <3> DEFINE n == commands[c].number
    <3>1. n \in Numbers /\ writes' = [writes EXCEPT ![n] = @ + 1]
      BY <2>1, CommandFacts
    <3> HIDE DEF n
    <3> QED
      BY <3>1, <1>t
  <2> QED
    BY <2>1, <2>2, <2>3, <2>4, <1>c, <1>t
<1>7. ASSUME NEW c \in 1..Len(commands), WriteFails(c) PROVE DeskTyped'
  <2>1. /\ \/ disk' = disk
           \/ \E n \in 0..Len(commands[c].text) :
                disk' = [disk EXCEPT ![EditOf(c).uri] = SubSeq(commands[c].text, 1, n)]
        /\ EndsAt(c, "failed") /\ AnswersError(c)
        /\ UNCHANGED <<proposals, visit, writes, misread>>
    BY <1>7 DEF WriteFails
  <2>2. /\ commands' \in Seq(Command) /\ Len(commands') = Len(commands)
        /\ \A d \in 1..Len(commands) : /\ commands'[d].number = commands[d].number
                                      /\ commands'[d].visit = commands[d].visit
    BY <2>1, CommandEnds DEF CommandStages
  <2>3. disk' \in [Files -> OnDisk]
    <3>1. commands[c].text \in Seq(Words)
      BY CommandFacts
    <3>2. \A n \in 0..Len(commands[c].text) : SubSeq(commands[c].text, 1, n) \in OnDisk
      BY <3>1 DEF OnDisk
    <3> DEFINE file == EditOf(c).uri
    <3>3. disk' = disk \/ \E w \in OnDisk : disk' = [disk EXCEPT ![file] = w]
      BY <3>2, <2>1
    <3> HIDE DEF file
    <3> QED
      BY <3>3, <1>t
  <2> QED
    BY <2>1, <2>2, <2>3, <1>c, <1>t
<1>8. ASSUME NEW c \in 1..Len(commands), DropAnnouncement(c) PROVE DeskTyped'
  <2>1. /\ EndsAt(c, "done") /\ Answers(c, "applied")
        /\ UNCHANGED <<proposals, visit, disk, writes, misread>>
    BY <1>8 DEF DropAnnouncement
  <2>2. /\ commands' \in Seq(Command) /\ Len(commands') = Len(commands)
        /\ \A d \in 1..Len(commands) : /\ commands'[d].number = commands[d].number
                                      /\ commands'[d].visit = commands[d].visit
    BY <2>1, CommandEnds DEF CommandStages
  <2> QED
    BY <2>1, <2>2, <1>c, <1>t
<1>9. ASSUME NEW f \in Files, SaveElsewhere(f) PROVE DeskTyped'
  <2>1. /\ disk' = [disk EXCEPT ![f] = Append(@, Saved)]
        /\ UNCHANGED <<proposals, page, visit, commands, writes, misread>>
    BY <1>9 DEF SaveElsewhere
  <2>2. disk' \in [Files -> OnDisk]
    <3>1. disk[f] \in Seq(Words)
      BY <1>t DEF OnDisk
    <3>2. \A S : \A s \in Seq(S), x \in S : Append(s, x) \in Seq(S)
      OBVIOUS
    <3>3. Append(disk[f], Saved) \in OnDisk
      BY <3>1, <3>2, DeskAssumption, Zenon DEF OnDisk
    <3> QED
      BY <3>3, <2>1, <1>t
  <2> QED
    BY <2>1, <2>2, <1>t DEF DeskTyped, DeskTypeOK, Made
<1> QED
  BY <1>0, <1>1, <1>2, <1>3, <1>4, <1>5, <1>6, <1>7, <1>8, <1>9 DEF DeskNext

LEMMA DeskTypedAlways == DeskSpec => []DeskTyped
<1> QED
  BY DeskInitTyped, DeskStepTyped, PTL DEF DeskSpec

(* Every variable of the page keeps its type, and each command is for a    *)
(* proposal that was made.                                                 *)
THEOREM DeskTypeCorrect == DeskSpec => []DeskTypeOK
<1>1. DeskTyped => DeskTypeOK
  BY DEF DeskTyped
<1> QED
  BY <1>1, DeskTypedAlways, PTL

-----------------------------------------------------------------------------
(* What the page shows                                                     *)

LEMMA DeskInitPage == DeskInit => PageInv
<1> SUFFICES ASSUME DeskInit PROVE PageInv
  OBVIOUS
<1>1. /\ proposals = <<>> /\ commands = <<>> /\ page.number = 0
      /\ \A n \in Numbers : writes[n] = 0
  BY DEF DeskInit, Blank
<1>2. 1..Len(<<>>) = {}
  OBVIOUS
<1>3. 1..Len(commands) = {} /\ 1..Len(proposals) = {}
  BY <1>1, <1>2
<1> QED
  BY <1>1, <1>3 DEF PageInv, OneAwaited, OwnProposal, WrittenByCommand, PageAgrees

(* A command ends, and the page that waits for it, if any, learns how.     *)
LEMMA PageLearns ==
  ASSUME DeskTyped, PageInv, NEW c \in 1..Len(commands),
         commands[c].stage \in {"read", "write"},
         Len(commands') = Len(commands), proposals' = proposals, visit' = visit,
         \A d \in 1..Len(commands) : /\ commands'[d].number = commands[d].number
                                   /\ commands'[d].visit = commands[d].visit,
         \A d \in 1..Len(commands) : d # c => commands'[d] = commands[d],
         \/ commands'[c].stage = "failed" /\ AnswersError(c)
         \/ commands'[c].stage = "done" /\ Answers(c, "applied")
  PROVE  OneAwaited' /\ OwnProposal' /\ PageAgrees'
<1>t. /\ OneAwaited /\ OwnProposal /\ PageAgrees
      /\ Len(commands) \in Nat
      /\ page \in [number : 0..Len(proposals),
                   state : {"none", "suggestion", "applied", "rejected"}, busy : BOOLEAN]
  BY DEF PageInv, DeskTyped, DeskTypeOK
(* The page that made the proposal is gone: nothing it shows changes.      *)
<1>1. CASE commands[c].visit # visit
  <2>1. page' = page /\ ~Awaiting(c)
    BY <1>1 DEF Answers, AnswersError, Awaiting
  <2>2. \A d \in 1..Len(commands) : Awaiting(d)' => d # c /\ Awaiting(d)
    BY <1>1 DEF Awaiting
  <2>3. page.number # 0 => commands[c].number # page.number
    BY <1>1, <1>t DEF OwnProposal
  <2>4. OneAwaited'
    BY <2>1, <2>2, <1>t DEF OneAwaited
  <2>5. OwnProposal'
    BY <2>1, <1>t DEF OwnProposal
  <2>6. PageAgrees'
    <3> SUFFICES ASSUME page.number # 0
                 PROVE  /\ page.state = "applied" =>
                             \E d \in 1..Len(commands) :
                               /\ commands'[d].number = page.number
                               /\ commands'[d].stage = "done"
                        /\ \A d \in 1..Len(commands) :
                             commands'[d].number = page.number =>
                               /\ page.state = "suggestion" => commands'[d].stage # "done"
                               /\ page.state = "rejected" => commands'[d].stage = "failed"
      BY <2>1 DEF PageAgrees
    <3>1. \A d \in 1..Len(commands) :
            commands[d].number = page.number => commands'[d] = commands[d]
      BY <2>3
    <3> QED
      BY <3>1, <1>t DEF PageAgrees
  <2> QED
    BY <2>4, <2>5, <2>6
(* The page waits for this command, and for no other.                      *)
<1>2. CASE commands[c].visit = visit
  <2>0. commands[c].number # 0
    BY CommandFacts
  <2>1. /\ Awaiting(c) /\ page.number = commands[c].number /\ page.state = "suggestion"
        /\ page.number # 0
    BY <1>2, <1>t, <2>0 DEF Awaiting, OneAwaited
  <2>2. \A d \in 1..Len(commands) : ~Awaiting(d)'
    <3> SUFFICES ASSUME NEW d \in 1..Len(commands), Awaiting(d)' PROVE FALSE
      OBVIOUS
    <3>1. d # c
      BY DEF Awaiting
    <3>2. Awaiting(d)
      BY <3>1 DEF Awaiting
    <3> QED
      BY <3>1, <3>2, <2>1, <1>t DEF OneAwaited
  <2>3. /\ page'.number = page.number
        /\ \/ page'.state = "suggestion" /\ commands'[c].stage = "failed"
           \/ page'.state = "applied" /\ commands'[c].stage = "done"
    BY <1>2, <2>1, <1>t DEF Answers, AnswersError
  <2>4. OneAwaited'
    BY <2>2 DEF OneAwaited
  <2>5. OwnProposal'
    BY <2>3, <1>t DEF OwnProposal
  <2>6. PageAgrees'
    <3>1. CASE page'.state = "applied"
      BY <3>1, <2>1, <2>3 DEF PageAgrees
    <3>2. CASE page'.state = "suggestion"
      <4>1. ASSUME NEW d \in 1..Len(commands), commands'[d].number = page.number
            PROVE  commands'[d].stage # "done"
        <5>1. CASE d = c
          BY <5>1, <3>2, <2>3
        <5>2. CASE d # c
          <6>1. commands'[d] = commands[d] /\ commands[d].number = page.number
            BY <5>2, <4>1
          <6> QED
            BY <6>1, <2>1, <1>t DEF PageAgrees
        <5> QED
          BY <5>1, <5>2
      <4> QED
        BY <4>1, <3>2, <2>3 DEF PageAgrees
    <3> QED
      BY <3>1, <3>2, <2>3
  <2> QED
    BY <2>4, <2>5, <2>6
<1> QED
  BY <1>1, <1>2

(* A step that writes nothing, and ends no command of a file edit as done. *)
LEMMA NothingWritten ==
  ASSUME WrittenByCommand, proposals' = proposals, writes' = writes,
         Len(commands') = Len(commands),
         \A d \in 1..Len(commands) : commands'[d].number = commands[d].number,
         \A d \in 1..Len(commands) :
           commands'[d].stage = "write" => proposals[commands[d].number].kind = "FileEdit",
         \A d \in 1..Len(commands) :
           proposals[commands[d].number].kind = "FileEdit" =>
             (commands'[d].stage = "done" <=> commands[d].stage = "done")
  PROVE  WrittenByCommand'
<1>1. \A n \in Numbers : writes'[n] > 0 => n <= Len(proposals') /\ proposals'[n].kind = "FileEdit"
  BY DEF WrittenByCommand
<1>2. \A c \in 1..Len(commands') :
        commands'[c].stage = "write" => proposals'[commands'[c].number].kind = "FileEdit"
  OBVIOUS
<1>3. ASSUME NEW n \in 1..Len(proposals), proposals[n].kind = "FileEdit"
      PROVE  writes[n] > 0 <=> \E c \in 1..Len(commands) :
                                 commands'[c].number = n /\ commands'[c].stage = "done"
  <2>1. writes[n] > 0 <=> \E c \in 1..Len(commands) :
                            commands[c].number = n /\ commands[c].stage = "done"
    BY <1>3 DEF WrittenByCommand
  <2>2. ASSUME NEW c \in 1..Len(commands)
        PROVE  (commands'[c].number = n /\ commands'[c].stage = "done") <=>
               (commands[c].number = n /\ commands[c].stage = "done")
    BY <1>3
  <2> QED
    BY <2>1, <2>2
<1>4. \A n \in 1..Len(proposals') :
        proposals'[n].kind = "FileEdit" =>
          (writes'[n] > 0 <=> \E c \in 1..Len(commands') :
                                 commands'[c].number = n /\ commands'[c].stage = "done")
  BY <1>3
<1> QED
  BY <1>1, <1>2, <1>4 DEF WrittenByCommand

LEMMA DeskStepPage == DeskTyped /\ PageInv /\ [DeskNext]_deskVars => PageInv'
<1> SUFFICES ASSUME DeskTyped, PageInv, [DeskNext]_deskVars PROVE PageInv'
  OBVIOUS
<1>t. /\ OneAwaited /\ OwnProposal /\ WrittenByCommand /\ PageAgrees
      /\ proposals \in Seq(Edits) /\ Len(proposals) \in Nat /\ Len(proposals) <= MaxProposals
      /\ page \in [number : 0..Len(proposals),
                   state : {"none", "suggestion", "applied", "rejected"}, busy : BOOLEAN]
      /\ visit \in Nat
      /\ commands \in Seq(Command) /\ Len(commands) \in Nat
      /\ writes \in [Numbers -> Nat]
      /\ MaxProposals \in Nat
  BY DeskAssumption DEF PageInv, DeskTyped, DeskTypeOK
<1>m. \A d \in 1..Len(commands) :
        /\ commands[d].number \in Numbers /\ commands[d].number \in 1..Len(proposals)
        /\ commands[d].visit \in Nat /\ commands[d].visit <= visit
        /\ commands[d].stage \in CommandStages
  BY CommandFacts
<1>0. CASE UNCHANGED deskVars
  BY <1>0, <1>t
  DEF deskVars, PageInv, OneAwaited, OwnProposal, WrittenByCommand, PageAgrees, Awaiting
<1>1. ASSUME NEW e \in Edits, ProposeOnPage(e) PROVE PageInv'
  <2> DEFINE n == Len(proposals) + 1
  <2>1. /\ proposals' = Append(proposals, e) /\ Len(proposals) < MaxProposals
        /\ page' = [number |-> n, state |-> "suggestion", busy |-> FALSE]
        /\ ~page.busy
        /\ UNCHANGED <<visit, commands, writes>>
    BY <1>1 DEF ProposeOnPage, ProposeEnabled
  <2>2. /\ Len(proposals') = n /\ n \in Numbers
        /\ \A m \in 1..Len(proposals) : proposals'[m] = proposals[m]
        /\ \A m \in 1..n : m = n \/ m \in 1..Len(proposals)
        /\ 1..Len(proposals) \subseteq 1..n
    BY <2>1, <1>t DEF Numbers
  <2>3. \A c \in 1..Len(commands) : commands[c].number # n
    BY <1>m, <1>t
  <2>4. writes[n] = 0
    <3>1. ~(n <= Len(proposals))
      BY <1>t
    <3>2. ~(writes[n] > 0) /\ writes[n] \in Nat
      BY <3>1, <2>2, <1>t DEF WrittenByCommand
    <3> QED
      BY <3>2
  <2>5. page'.number = n /\ page'.state = "suggestion"
    BY <2>1
  <2> HIDE DEF n
  <2>6. OneAwaited'
    BY <2>1, <1>t DEF OneAwaited, Awaiting
  <2>7. OwnProposal' /\ PageAgrees'
    BY <2>1, <2>3, <2>5 DEF OwnProposal, PageAgrees
  <2>8. WrittenByCommand'
    <3>1. \A m \in Numbers : writes'[m] > 0 => m <= Len(proposals') /\ proposals'[m].kind = "FileEdit"
      <4> SUFFICES ASSUME NEW m \in Numbers, writes[m] > 0
                   PROVE  m <= n /\ proposals'[m].kind = "FileEdit"
        BY <2>1, <2>2
      <4>1. m <= Len(proposals) /\ proposals[m].kind = "FileEdit" /\ m \in 1..Len(proposals)
        BY <1>t DEF WrittenByCommand, Numbers
      <4> QED
        BY <4>1, <2>2 DEF n
    <3>2. \A c \in 1..Len(commands) :
            commands[c].stage = "write" => proposals'[commands[c].number].kind = "FileEdit"
      BY <1>m, <1>t, <2>2 DEF WrittenByCommand
    <3>3. ASSUME NEW m \in 1..n, proposals'[m].kind = "FileEdit"
          PROVE  writes[m] > 0 <=> \E c \in 1..Len(commands) :
                                     commands[c].number = m /\ commands[c].stage = "done"
      <4>1. CASE m = n
        BY <4>1, <2>3, <2>4
      <4>2. CASE m \in 1..Len(proposals)
        BY <4>2, <3>3, <2>2, <1>t DEF WrittenByCommand
      <4> QED
        BY <4>1, <4>2, <2>2
    <3> QED
      BY <3>1, <3>2, <3>3, <2>1, <2>2 DEF WrittenByCommand
  <2> QED
    BY <2>6, <2>7, <2>8 DEF PageInv
<1>2. CASE ConfirmOnPage
  <2> DEFINE v == [number |-> page.number, visit |-> visit, stage |-> "read", text |-> <<>>]
             k == Len(commands) + 1
  <2>1. /\ commands' = Append(commands, v) /\ page' = [page EXCEPT !.busy = TRUE]
        /\ page.number # 0 /\ page.state \notin {"applied", "rejected"} /\ ~page.busy
        /\ UNCHANGED <<proposals, visit, writes>>
    BY <1>2 DEF ConfirmOnPage, ConfirmEnabled, Decided
  <2>2. v.number = page.number /\ v.visit = visit /\ v.stage = "read"
    OBVIOUS
  <2> HIDE DEF v
  <2>3. /\ Len(commands') = k /\ commands'[k] = v
        /\ \A d \in 1..Len(commands) : commands'[d] = commands[d]
        /\ \A d \in 1..k : d = k \/ d \in 1..Len(commands)
        /\ 1..Len(commands) \subseteq 1..k /\ k \in 1..k
    BY <2>1, <1>t
  <2> HIDE DEF k
  <2>4. /\ page'.number = page.number /\ page'.state = "suggestion" /\ page'.busy
        /\ page.state = "suggestion"
    BY <2>1, <1>t DEF OwnProposal
  <2>5. \A d \in 1..k : Awaiting(d)' => d = k
    BY <2>1, <2>3, <1>t DEF OneAwaited, Awaiting
  <2>6. OneAwaited'
    BY <2>1, <2>2, <2>3, <2>4, <2>5 DEF OneAwaited
  <2>7. OwnProposal'
    BY <2>1, <2>2, <2>3, <2>4, <1>t DEF OwnProposal
  <2>8. PageAgrees'
    <3> SUFFICES ASSUME NEW d \in 1..k, commands'[d].number = page.number
                 PROVE  commands'[d].stage # "done"
      BY <2>3, <2>4 DEF PageAgrees
    <3>1. CASE d = k
      BY <3>1, <2>2, <2>3
    <3>2. CASE d \in 1..Len(commands)
      BY <3>2, <2>1, <2>3, <2>4, <1>t DEF PageAgrees
    <3> QED
      BY <3>1, <3>2, <2>3
  <2>9. WrittenByCommand'
    <3>1. \A m : (\E d \in 1..k : commands'[d].number = m /\ commands'[d].stage = "done")
              <=> (\E d \in 1..Len(commands) :
                     commands[d].number = m /\ commands[d].stage = "done")
      BY <2>2, <2>3
    <3>2. \A d \in 1..k :
            commands'[d].stage = "write" => proposals[commands'[d].number].kind = "FileEdit"
      BY <2>2, <2>3, <1>t DEF WrittenByCommand
    <3>3. ASSUME NEW n \in 1..Len(proposals), proposals[n].kind = "FileEdit"
          PROVE  writes[n] > 0 <=> \E d \in 1..k :
                                     commands'[d].number = n /\ commands'[d].stage = "done"
      <4>1. writes[n] > 0 <=> \E d \in 1..Len(commands) :
                                commands[d].number = n /\ commands[d].stage = "done"
        BY <3>3, <1>t DEF WrittenByCommand
      <4> QED
        BY <3>1, <4>1
    <3>4. \A n \in Numbers : writes[n] > 0 => n <= Len(proposals) /\ proposals[n].kind = "FileEdit"
      BY <1>t DEF WrittenByCommand
    <3> QED
      BY <3>2, <3>3, <3>4, <2>1, <2>3 DEF WrittenByCommand
  <2> QED
    BY <2>6, <2>7, <2>8, <2>9 DEF PageInv
<1>3. CASE RejectOnPage
  <2>1. /\ page' = [page EXCEPT !.state = "rejected", !.busy = FALSE]
        /\ page.number # 0 /\ page.state \notin {"applied", "rejected"} /\ ~page.busy
        /\ UNCHANGED <<proposals, visit, commands, writes>>
    BY <1>3 DEF RejectOnPage, RejectEnabled, Decided
  <2>2. /\ page'.number = page.number /\ page'.state = "rejected"
        /\ page.state = "suggestion"
    BY <2>1, <1>t DEF OwnProposal
  <2>3. \A d \in 1..Len(commands) : ~Awaiting(d)
    BY <2>1, <1>t DEF OneAwaited
  <2>4. OneAwaited'
    BY <2>1, <2>3 DEF OneAwaited, Awaiting
  <2>5. OwnProposal'
    BY <2>1, <2>2, <1>t DEF OwnProposal
(* Its commands are none of those under way, and none of them wrote.       *)
  <2>6. PageAgrees'
    <3> SUFFICES ASSUME NEW d \in 1..Len(commands), commands[d].number = page.number
                 PROVE  commands[d].stage = "failed"
      BY <2>1, <2>2 DEF PageAgrees
    <3>1. commands[d].visit = visit /\ commands[d].stage # "done"
      BY <2>1, <2>2, <1>t DEF OwnProposal, PageAgrees
    <3> QED
      BY <3>1, <2>3, <1>m DEF Awaiting, CommandStages
  <2>7. WrittenByCommand'
    BY <2>1, <1>t DEF WrittenByCommand
  <2> QED
    BY <2>4, <2>5, <2>6, <2>7 DEF PageInv
<1>4. CASE Leave
  <2>1. /\ page'.number = 0 /\ visit' = visit + 1
        /\ UNCHANGED <<proposals, commands, writes>>
    BY <1>4 DEF Leave, Blank
  <2>2. \A d \in 1..Len(commands) : ~Awaiting(d)'
    BY <2>1, <1>m, <1>t DEF Awaiting
  <2>3. OneAwaited' /\ OwnProposal' /\ PageAgrees'
    BY <2>1, <2>2 DEF OneAwaited, OwnProposal, PageAgrees
  <2>4. WrittenByCommand'
    <3>1. \A d \in 1..Len(commands) :
            commands[d].stage = "write" => proposals[commands[d].number].kind = "FileEdit"
      BY <1>t DEF WrittenByCommand
    <3> QED
      BY <3>1, <2>1, <1>t, NothingWritten
  <2> QED
    BY <2>3, <2>4 DEF PageInv
(* A command that fails, having written nothing.                           *)
<1>f. ASSUME NEW c \in 1..Len(commands), commands[c].stage \in {"read", "write"},
             EndsAt(c, "failed"), AnswersError(c),
             UNCHANGED <<proposals, visit, writes>>
      PROVE  PageInv'
  <2>1. /\ Len(commands') = Len(commands)
        /\ \A d \in 1..Len(commands) : /\ commands'[d].number = commands[d].number
                                      /\ commands'[d].visit = commands[d].visit
        /\ \A d \in 1..Len(commands) : d # c => commands'[d] = commands[d]
        /\ commands'[c].stage = "failed"
    BY <1>f, CommandEnds DEF CommandStages
  <2>2. OneAwaited' /\ OwnProposal' /\ PageAgrees'
    BY <2>1, <1>f, PageLearns
  <2>3. WrittenByCommand'
    <3>1. \A d \in 1..Len(commands) :
            commands'[d].stage = "write" => proposals[commands[d].number].kind = "FileEdit"
      BY <2>1, <1>t DEF WrittenByCommand
    <3>2. \A d \in 1..Len(commands) : commands'[d].stage = "done" <=> commands[d].stage = "done"
      BY <2>1, <1>f
    <3> QED
      BY <3>1, <3>2, <2>1, <1>f, <1>t, NothingWritten
  <2> QED
    BY <2>2, <2>3 DEF PageInv
<1>5. ASSUME NEW c \in 1..Len(commands), ReadFile(c) PROVE PageInv'
  <2>1. /\ commands[c].stage = "read" /\ EditOf(c).kind = "FileEdit"
        /\ UNCHANGED <<proposals, visit, disk, saves, writes>>
        /\ \/ EndsAt(c, "failed") /\ AnswersError(c)
           \/ /\ page' = page
              /\ \E text \in OnDisk :
                   commands' = [commands EXCEPT ![c] =
                                  [@ EXCEPT !.stage = "write", !.text = text]]
    BY <1>5, ReadOutcome
  <2>2. CASE EndsAt(c, "failed") /\ AnswersError(c)
    BY <2>1, <2>2, <1>f
  <2>3. CASE /\ page' = page
             /\ \E text \in OnDisk :
                   commands' = [commands EXCEPT ![c] =
                                  [@ EXCEPT !.stage = "write", !.text = text]]
    <3>1. /\ Len(commands') = Len(commands)
          /\ \A d \in 1..Len(commands) : /\ commands'[d].number = commands[d].number
                                        /\ commands'[d].visit = commands[d].visit
          /\ \A d \in 1..Len(commands) : d # c => commands'[d] = commands[d]
          /\ commands'[c].stage = "write"
      BY <2>3, TextRead
    <3>0. /\ commands[c].stage = "read" /\ EditOf(c).kind = "FileEdit"
          /\ page' = page /\ visit' = visit /\ proposals' = proposals /\ writes' = writes
      BY <2>1, <2>3
    <3>2. \A d \in 1..Len(commands) : Awaiting(d)' <=> Awaiting(d)
      BY <3>0, <3>1 DEF Awaiting
    <3>3. OneAwaited'
      BY <3>0, <3>1, <3>2, <1>t DEF OneAwaited
    <3>4. OwnProposal'
      BY <3>0, <3>1, <1>t DEF OwnProposal
    <3>7. \A d \in 1..Len(commands) :
            /\ commands'[d].stage = "done" <=> commands[d].stage = "done"
            /\ commands'[d].stage = "failed" <=> commands[d].stage = "failed"
      BY <3>0, <3>1
    <3>5. PageAgrees'
      <4> SUFFICES ASSUME page.number # 0
                   PROVE  /\ page.state = "applied" =>
                               \E d \in 1..Len(commands) :
                                 /\ commands'[d].number = page.number
                                 /\ commands'[d].stage = "done"
                          /\ \A d \in 1..Len(commands) :
                               commands'[d].number = page.number =>
                                 /\ page.state = "suggestion" => commands'[d].stage # "done"
                                 /\ page.state = "rejected" => commands'[d].stage = "failed"
        BY <3>0, <3>1 DEF PageAgrees
      <4>1. page.state = "applied" =>
              \E d \in 1..Len(commands) :
                commands[d].number = page.number /\ commands[d].stage = "done"
        BY <1>t DEF PageAgrees
      <4>2. \A d \in 1..Len(commands) :
              commands[d].number = page.number =>
                /\ page.state = "suggestion" => commands[d].stage # "done"
                /\ page.state = "rejected" => commands[d].stage = "failed"
        BY <1>t DEF PageAgrees
      <4> QED
        BY <4>1, <4>2, <3>1, <3>7
    <3>6. WrittenByCommand'
      <4>1. ASSUME NEW d \in 1..Len(commands), commands'[d].stage = "write"
            PROVE  proposals[commands[d].number].kind = "FileEdit"
        <5>1. CASE d = c
          BY <5>1, <3>0 DEF EditOf
        <5>2. CASE d # c
          BY <5>2, <4>1, <3>1, <1>t DEF WrittenByCommand
        <5> QED
          BY <5>1, <5>2
      <4> QED
        BY <4>1, <3>0, <3>1, <3>7, <1>t, NothingWritten
    <3> QED
      BY <3>3, <3>4, <3>5, <3>6 DEF PageInv
  <2> QED
    BY <2>1, <2>2, <2>3
<1>6. ASSUME NEW c \in 1..Len(commands), WriteFile(c) PROVE PageInv'
  <2> DEFINE n == commands[c].number
  <2>1. /\ commands[c].stage = "write"
        /\ writes' = [writes EXCEPT ![n] = @ + 1]
        /\ EndsAt(c, "done") /\ Answers(c, "applied")
        /\ UNCHANGED <<proposals, visit>>
    BY <1>6 DEF WriteFile
  <2>2. /\ Len(commands') = Len(commands)
        /\ \A d \in 1..Len(commands) : /\ commands'[d].number = commands[d].number
                                      /\ commands'[d].visit = commands[d].visit
        /\ \A d \in 1..Len(commands) : d # c => commands'[d] = commands[d]
        /\ commands'[c].stage = "done"
    BY <2>1, CommandEnds DEF CommandStages
  <2>3. OneAwaited' /\ OwnProposal' /\ PageAgrees'
    BY <2>1, <2>2, PageLearns
  <2>4. /\ n \in Numbers /\ n \in 1..Len(proposals) /\ proposals[n].kind = "FileEdit"
        /\ commands'[c].number = n
    BY <2>1, <2>2, <1>m, <1>t DEF WrittenByCommand
  <2> HIDE DEF n
  <2>5. /\ writes'[n] > 0
        /\ \A m \in Numbers : m # n => writes'[m] = writes[m]
    BY <2>1, <2>4, <1>t
  <2>6. WrittenByCommand'
    <3>1. ASSUME NEW m \in 1..Len(proposals), m # n
          PROVE  (\E d \in 1..Len(commands) :
                    commands'[d].number = m /\ commands'[d].stage = "done")
             <=> (\E d \in 1..Len(commands) :
                    commands[d].number = m /\ commands[d].stage = "done")
      BY <3>1, <2>2, <2>4
    <3>2. ASSUME NEW m \in 1..Len(proposals), proposals[m].kind = "FileEdit"
          PROVE  writes'[m] > 0 <=> \E d \in 1..Len(commands) :
                   commands'[d].number = m /\ commands'[d].stage = "done"
      <4>1. CASE m = n
        BY <4>1, <2>2, <2>4, <2>5
      <4>2. CASE m # n
        <5>1. writes'[m] = writes[m]
          BY <4>2, <2>5, <1>t DEF Numbers
        <5> QED
          BY <4>2, <5>1, <3>1, <3>2, <1>t DEF WrittenByCommand
      <4> QED
        BY <4>1, <4>2
    <3>3. \A m \in Numbers :
            writes'[m] > 0 => m <= Len(proposals) /\ proposals[m].kind = "FileEdit"
      BY <2>4, <2>5, <1>t DEF WrittenByCommand
    <3>4. \A d \in 1..Len(commands) :
            commands'[d].stage = "write" => proposals[commands'[d].number].kind = "FileEdit"
      BY <2>2, <1>t DEF WrittenByCommand
    <3> QED
      BY <3>2, <3>3, <3>4, <2>1, <2>2 DEF WrittenByCommand
  <2> QED
    BY <2>3, <2>6 DEF PageInv
<1>7. ASSUME NEW c \in 1..Len(commands), WriteFails(c) PROVE PageInv'
  BY <1>7, <1>f DEF WriteFails
<1>8. ASSUME NEW c \in 1..Len(commands), DropAnnouncement(c) PROVE PageInv'
  <2>1. /\ commands[c].stage = "read" /\ EditOf(c).kind # "FileEdit"
        /\ EndsAt(c, "done") /\ Answers(c, "applied")
        /\ UNCHANGED <<proposals, visit, writes>>
    BY <1>8 DEF DropAnnouncement
  <2>2. /\ Len(commands') = Len(commands)
        /\ \A d \in 1..Len(commands) : /\ commands'[d].number = commands[d].number
                                      /\ commands'[d].visit = commands[d].visit
        /\ \A d \in 1..Len(commands) : d # c => commands'[d] = commands[d]
        /\ commands'[c].stage = "done"
    BY <2>1, CommandEnds DEF CommandStages
  <2>3. OneAwaited' /\ OwnProposal' /\ PageAgrees'
    BY <2>1, <2>2, PageLearns
  <2>4. WrittenByCommand'
    <3>1. \A d \in 1..Len(commands) :
            commands'[d].stage = "write" => proposals[commands[d].number].kind = "FileEdit"
      BY <2>2, <1>t DEF WrittenByCommand
    <3>2. \A d \in 1..Len(commands) :
            proposals[commands[d].number].kind = "FileEdit" =>
              (commands'[d].stage = "done" <=> commands[d].stage = "done")
      BY <2>1, <2>2 DEF EditOf
    <3> QED
      BY <3>1, <3>2, <2>1, <2>2, <1>t, NothingWritten
  <2> QED
    BY <2>3, <2>4 DEF PageInv
<1>9. ASSUME NEW f \in Files, SaveElsewhere(f) PROVE PageInv'
  BY <1>9, <1>t
  DEF SaveElsewhere, PageInv, OneAwaited, OwnProposal, WrittenByCommand, PageAgrees, Awaiting
<1> QED
  BY <1>0, <1>1, <1>2, <1>3, <1>4, <1>5, <1>6, <1>7, <1>8, <1>9 DEF DeskNext

LEMMA PageAlways == DeskSpec => [](DeskTyped /\ PageInv)
<1>1. DeskInit => PageInv
  BY DeskInitPage
<1>2. DeskTyped /\ PageInv /\ [DeskNext]_deskVars => PageInv'
  BY DeskStepPage
<1> QED
  BY <1>1, <1>2, DeskTypedAlways, PTL DEF DeskSpec

(***************************************************************************)
(* The page shows a file edit as applied exactly if it was written, and    *)
(* one it shows as rejected is written by no command ever after, however   *)
(* often the user leaves, the disk fails and commands end late.            *)
(***************************************************************************)
THEOREM ThePageTellsTruth == DeskSpec => []PageTellsTruth
<1>1. DeskTyped /\ PageInv => PageTellsTruth
  <2> SUFFICES ASSUME DeskTyped, PageInv,
                      page.number # 0, proposals[page.number].kind = "FileEdit"
               PROVE  /\ (page.state = "applied") <=> (writes[page.number] > 0)
                      /\ page.state = "rejected" =>
                           \A c \in 1..Len(commands) :
                             commands[c].number = page.number => commands[c].stage = "failed"
    BY DEF PageTellsTruth
  <2>1. page.number \in 1..Len(proposals)
        /\ page.state \in {"none", "suggestion", "applied", "rejected"}
    BY DEF DeskTyped, DeskTypeOK
  <2>2. page.state # "none"
    BY DEF PageInv, OwnProposal
  <2>3. writes[page.number] > 0 <=>
          \E c \in 1..Len(commands) :
            commands[c].number = page.number /\ commands[c].stage = "done"
    BY <2>1 DEF PageInv, WrittenByCommand
  <2> QED
    BY <2>1, <2>2, <2>3 DEF PageInv, PageAgrees
<1> QED
  BY <1>1, PageAlways, PTL

-----------------------------------------------------------------------------
(* What is written stays                                                   *)

LEMMA PreservesMore ==
  ASSUME NEW made, NEW written, NEW file, NEW a, NEW b,
         Preserves(made, written, file, a),
         \A w : Holds(a, w) /\ ~Removable(w) => Holds(b, w)
  PROVE  Preserves(made, written, file, b)
  BY DEF Preserves

LEMMA AppendHolds ==
  ASSUME NEW F, NEW s \in Seq(F), NEW x \in F, NEW w, Holds(s, w)
  PROVE  Holds(Append(s, x), w)
<1>1. PICK k \in 1..Len(s) : s[k] = w
  BY DEF Holds
<1>2. k \in 1..Len(Append(s, x)) /\ Append(s, x)[k] = w
  BY <1>1
<1> QED
  BY <1>2 DEF Holds

LEMMA DeskInitUndone == DeskInit => NothingUndone
<1> SUFFICES ASSUME DeskInit PROVE NothingUndone
  OBVIOUS
<1>1. 1..Len(<<>>) = {}
  OBVIOUS
<1>2. 1..Len(proposals) = {} /\ 1..Len(commands) = {}
  BY <1>1 DEF DeskInit
<1> QED
  BY <1>2 DEF NothingUndone, Preserves

LEMMA DeskStepUndone ==
  DeskTyped /\ PageInv /\ NothingUndone /\ [DeskNext]_deskVars => NothingUndone'
<1> SUFFICES ASSUME DeskTyped, PageInv, NothingUndone, [DeskNext]_deskVars,
                    visit' = 0, DiskWorks'
             PROVE  /\ \A f \in Files : Preserves(proposals', writes', f, disk'[f])
                    /\ \A c \in 1..Len(commands') :
                         commands'[c].stage = "write" =>
                           /\ Preserves(proposals', writes', EditOf(c).uri', commands'[c].text)
                           /\ \A k \in 1..Len(EditOf(c).new') :
                                Holds(commands'[c].text, EditOf(c).new'[k])
  BY DEF NothingUndone
<1>t. /\ proposals \in Seq(Edits) /\ Len(proposals) \in Nat
      /\ visit \in Nat
      /\ commands \in Seq(Command) /\ Len(commands) \in Nat
      /\ disk \in [Files -> OnDisk]
      /\ writes \in [Numbers -> Nat]
      /\ misread \in BOOLEAN
  BY DeskAssumption DEF DeskTyped, DeskTypeOK
<1>m. \A c \in 1..Len(commands) : commands[c].number \in 1..Len(proposals)
  BY CommandFacts
(* What is known before a step after which the user is on the page still   *)
(* and the disk has always worked.                                         *)
<1>b. ASSUME visit = 0, DiskWorks
      PROVE  /\ \A f \in Files : Preserves(proposals, writes, f, disk[f])
             /\ \A c \in 1..Len(commands) :
                  commands[c].stage = "write" =>
                    /\ Preserves(proposals, writes, EditOf(c).uri, commands[c].text)
                    /\ \A k \in 1..Len(EditOf(c).new) : Holds(commands[c].text, EditOf(c).new[k])
  BY <1>b DEF NothingUndone
<1>0. CASE UNCHANGED deskVars
  <2>1. /\ UNCHANGED <<proposals, commands, disk, writes>>
        /\ \A c : EditOf(c)' = EditOf(c)
        /\ visit = 0 /\ DiskWorks
    BY <1>0 DEF deskVars, EditOf, DiskWorks
  <2> QED
    BY <2>1, <1>b
<1>1. ASSUME NEW e \in Edits, ProposeOnPage(e)
      PROVE  /\ \A f \in Files : Preserves(proposals', writes', f, disk'[f])
             /\ \A c \in 1..Len(commands') :
                  commands'[c].stage = "write" =>
                    /\ Preserves(proposals', writes', EditOf(c).uri', commands'[c].text)
                    /\ \A k \in 1..Len(EditOf(c).new') :
                         Holds(commands'[c].text, EditOf(c).new'[k])
  <2> DEFINE n == Len(proposals) + 1
  <2>1. /\ proposals' = Append(proposals, e) /\ Len(proposals) < MaxProposals
        /\ UNCHANGED <<visit, commands, disk, writes, misread>>
    BY <1>1 DEF ProposeOnPage
  <2>2. /\ Len(proposals') = n /\ n \in Numbers
        /\ \A m \in 1..Len(proposals) : proposals'[m] = proposals[m]
        /\ \A m \in 1..n : m = n \/ m \in 1..Len(proposals)
    BY <2>1, <1>t, DeskAssumption DEF Numbers
  <2>3. ~(writes[n] > 0)
    <3>1. ~(n <= Len(proposals))
      BY <1>t
    <3> QED
      BY <3>1, <2>2 DEF PageInv, WrittenByCommand
  <2> HIDE DEF n
  <2>4. visit = 0 /\ DiskWorks
    BY <2>1 DEF DiskWorks
  <2>5. ASSUME NEW file, NEW text, Preserves(proposals, writes, file, text)
        PROVE  Preserves(proposals', writes', file, text)
    BY <2>5, <2>1, <2>2, <2>3 DEF Preserves
  <2>6. \A c \in 1..Len(commands) : EditOf(c)' = EditOf(c)
    BY <2>1, <2>2, <1>m DEF EditOf
  <2> QED
    BY <2>1, <2>4, <2>5, <2>6, <1>b
<1>2. CASE ConfirmOnPage
  <2> DEFINE v == [number |-> page.number, visit |-> visit, stage |-> "read", text |-> <<>>]
             k == Len(commands) + 1
  <2>1. /\ commands' = Append(commands, v)
        /\ UNCHANGED <<proposals, visit, disk, writes, misread>>
    BY <1>2 DEF ConfirmOnPage
  <2>2. v.stage = "read"
    OBVIOUS
  <2> HIDE DEF v
  <2>3. /\ Len(commands') = k /\ commands'[k] = v
        /\ \A d \in 1..Len(commands) : commands'[d] = commands[d]
        /\ \A d \in 1..k : d = k \/ d \in 1..Len(commands)
        /\ 1..Len(commands) \subseteq 1..k
    BY <2>1, <1>t
  <2> HIDE DEF k
  <2>4. visit = 0 /\ DiskWorks
    BY <2>1, <2>3 DEF DiskWorks
  <2>5. \A d \in 1..Len(commands) : EditOf(d)' = EditOf(d)
    BY <2>1, <2>3 DEF EditOf
  <2>6. \A d \in 1..k : commands'[d].stage = "write" =>
          d \in 1..Len(commands) /\ commands'[d] = commands[d]
    BY <2>2, <2>3
  <2> QED
    BY <2>1, <2>3, <2>4, <2>5, <2>6, <1>b
<1>3. CASE RejectOnPage
  <2>1. /\ UNCHANGED <<proposals, visit, commands, disk, writes, misread>>
        /\ \A c : EditOf(c)' = EditOf(c)
        /\ visit = 0 /\ DiskWorks
    BY <1>3 DEF RejectOnPage, EditOf, DiskWorks
  <2> QED
    BY <2>1, <1>b
<1>4. CASE Leave
  BY <1>4, <1>t DEF Leave
<1>f. ASSUME NEW c \in 1..Len(commands), EndsAt(c, "failed") PROVE FALSE
  BY <1>f, CommandEnds DEF CommandStages, DiskWorks
(* A step of a command that leaves the disk and its own edit as they are.  *)
<1>c. ASSUME NEW c \in 1..Len(commands),
             Len(commands') = Len(commands),
             \A d \in 1..Len(commands) : commands'[d].number = commands[d].number,
             \A d \in 1..Len(commands) : d # c => commands'[d] = commands[d],
             commands[c].stage # "failed",
             proposals' = proposals, visit' = visit, ~misread' => ~misread
      PROVE  /\ visit = 0 /\ DiskWorks
             /\ \A d \in 1..Len(commands) : EditOf(d)' = EditOf(d)
  <2>1. ASSUME NEW d \in 1..Len(commands) PROVE commands[d].stage # "failed"
    <3>1. CASE d = c
      BY <3>1, <1>c
    <3>2. CASE d # c
      BY <3>2, <1>c DEF DiskWorks
    <3> QED
      BY <3>1, <3>2
  <2> QED
    BY <2>1, <1>c DEF DiskWorks, EditOf
<1>5. ASSUME NEW c \in 1..Len(commands), ReadFile(c)
      PROVE  /\ \A f \in Files : Preserves(proposals', writes', f, disk'[f])
             /\ \A d \in 1..Len(commands') :
                  commands'[d].stage = "write" =>
                    /\ Preserves(proposals', writes', EditOf(d).uri', commands'[d].text)
                    /\ \A k \in 1..Len(EditOf(d).new') :
                         Holds(commands'[d].text, EditOf(d).new'[k])
  <2>1. /\ commands[c].stage = "read" /\ EditOf(c).kind = "FileEdit"
        /\ misread => misread'
        /\ UNCHANGED <<proposals, visit, disk, saves, writes>>
        /\ \/ EndsAt(c, "failed") /\ AnswersError(c)
           \/ \E text \in OnDisk :
                /\ commands' = [commands EXCEPT ![c] =
                                  [@ EXCEPT !.stage = "write", !.text = text]]
                /\ ~misread' => Updates(disk[EditOf(c).uri], EditOf(c), text)
    BY <1>5, ReadOutcome
  <2>2. PICK text \in OnDisk :
          /\ commands' = [commands EXCEPT ![c] =
                            [@ EXCEPT !.stage = "write", !.text = text]]
          /\ ~misread' => Updates(disk[EditOf(c).uri], EditOf(c), text)
    BY <2>1, <1>f
  <2>3. /\ Len(commands') = Len(commands)
        /\ \A d \in 1..Len(commands) : commands'[d].number = commands[d].number
        /\ \A d \in 1..Len(commands) : d # c => commands'[d] = commands[d]
        /\ commands'[c].stage = "write" /\ commands'[c].text = text
    BY <2>2, TextRead
  <2>4. /\ visit = 0 /\ DiskWorks
        /\ \A d \in 1..Len(commands) : EditOf(d)' = EditOf(d)
    BY <2>1, <2>3, <1>c
  <2>5. Updates(disk[EditOf(c).uri], EditOf(c), text)
    BY <2>2 DEF DiskWorks
  <2> DEFINE e == EditOf(c)
             current == disk[e.uri]
  <2>6. /\ e \in Edits /\ e.uri \in Files
        /\ e.old \in Seq(Words) /\ e.new \in Seq(Words)
        /\ current \in Seq(Words)
    BY <2>1, <1>t, CommandFacts DEF OnDisk
  <2>7. Preserves(proposals, writes, e.uri, current)
    BY <2>4, <2>6, <1>b
  <2>8. /\ \A w : Holds(e.new, w) => Holds(text, w)
        /\ \A w : Holds(current, w) /\ ~Holds(e.old, w) => Holds(text, w)
    BY <2>5, <2>6, UpdateKeeps
  <2>9. \A w : ~Removable(w) => ~Holds(e.old, w)
    BY <2>6 DEF Removable
  <2>10. Preserves(proposals, writes, e.uri, text)
    BY <2>7, <2>8, <2>9, PreservesMore
  <2>11. \A k \in 1..Len(e.new) : Holds(text, e.new[k])
    BY <2>8 DEF Holds
  <2> HIDE DEF current
  <2>12. ASSUME NEW d \in 1..Len(commands), commands'[d].stage = "write"
         PROVE  /\ Preserves(proposals, writes, EditOf(d).uri, commands'[d].text)
                /\ \A k \in 1..Len(EditOf(d).new) : Holds(commands'[d].text, EditOf(d).new[k])
    <3>1. CASE d = c
      BY <3>1, <2>3, <2>10, <2>11
    <3>2. CASE d # c
      BY <3>2, <2>3, <2>4, <2>12, <1>b
    <3> QED
      BY <3>1, <3>2
  <2>13. \A f \in Files : Preserves(proposals, writes, f, disk[f])
    BY <2>4, <1>b
  <2> QED
    BY <2>1, <2>3, <2>4, <2>12, <2>13
<1>6. ASSUME NEW c \in 1..Len(commands), WriteFile(c)
      PROVE  /\ \A f \in Files : Preserves(proposals', writes', f, disk'[f])
             /\ \A d \in 1..Len(commands') :
                  commands'[d].stage = "write" =>
                    /\ Preserves(proposals', writes', EditOf(d).uri', commands'[d].text)
                    /\ \A k \in 1..Len(EditOf(d).new') :
                         Holds(commands'[d].text, EditOf(d).new'[k])
  <2> DEFINE n == commands[c].number
             e == EditOf(c)
             text == commands[c].text
  <2>1. /\ commands[c].stage = "write"
        /\ disk' = [disk EXCEPT ![e.uri] = text]
        /\ writes' = [writes EXCEPT ![n] = @ + 1]
        /\ EndsAt(c, "done")
        /\ UNCHANGED <<proposals, visit, misread>>
    BY <1>6 DEF WriteFile
  <2>2. /\ Len(commands') = Len(commands)
        /\ \A d \in 1..Len(commands) : /\ commands'[d].number = commands[d].number
                                      /\ commands'[d].visit = commands[d].visit
        /\ \A d \in 1..Len(commands) : d # c => commands'[d] = commands[d]
        /\ commands'[c].stage = "done"
    BY <2>1, CommandEnds DEF CommandStages
  <2>3. /\ visit = 0 /\ DiskWorks
        /\ \A d \in 1..Len(commands) : EditOf(d)' = EditOf(d)
    BY <2>1, <2>2, <1>c
(* No other command is under way: both would be those the page waits for.  *)
  <2>4. \A d \in 1..Len(commands) : commands'[d].stage # "write"
    <3> SUFFICES ASSUME NEW d \in 1..Len(commands), commands'[d].stage = "write" PROVE FALSE
      OBVIOUS
    <3>1. d # c
      BY <2>2
    <3>2. commands[d].stage = "write"
      BY <3>1, <2>2
    <3>3. commands[d].visit = visit /\ commands[c].visit = visit
      <4>1. \A x \in Nat : x <= 0 => x = 0
        OBVIOUS
      <4> QED
        BY <4>1, <2>3, CommandFacts
    <3>4. Awaiting(d) /\ Awaiting(c)
      BY <3>2, <3>3, <2>1 DEF Awaiting
    <3> QED
      BY <3>1, <3>4 DEF PageInv, OneAwaited
  <2>5. /\ Preserves(proposals, writes, e.uri, text)
        /\ \A k \in 1..Len(e.new) : Holds(text, e.new[k])
        /\ \A f \in Files : Preserves(proposals, writes, f, disk[f])
    BY <2>1, <2>3, <1>b
  <2>6. /\ n \in 1..Len(proposals) /\ e = proposals[n] /\ e.kind = "FileEdit" /\ e.uri \in Files
    BY <2>1, CommandFacts DEF PageInv, WrittenByCommand
  <2> HIDE DEF n, e, text
  <2>7. \A m \in 1..Len(proposals) : m # n /\ writes'[m] > 0 => writes[m] > 0
    BY <2>1, <1>t
  <2>8. ASSUME NEW f \in Files PROVE Preserves(proposals, writes', f, disk'[f])
    <3>1. CASE f = e.uri
      <4>1. disk'[f] = text
        BY <3>1, <2>1, <2>6, <1>t
      <4> SUFFICES ASSUME NEW m \in 1..Len(proposals), writes'[m] > 0, proposals[m].uri = f,
                          NEW k \in 1..Len(proposals[m].new)
                   PROVE  Removable(proposals[m].new[k]) \/ Holds(text, proposals[m].new[k])
        BY <4>1 DEF Preserves
      <4>2. CASE m = n
        BY <4>2, <2>5, <2>6
      <4>3. CASE m # n
        BY <4>3, <3>1, <2>5, <2>7 DEF Preserves
      <4> QED
        BY <4>2, <4>3
    <3>2. CASE f # e.uri
      <4>1. disk'[f] = disk[f]
        BY <3>2, <2>1, <1>t
      <4> SUFFICES ASSUME NEW m \in 1..Len(proposals), writes'[m] > 0, proposals[m].uri = f,
                          NEW k \in 1..Len(proposals[m].new)
                   PROVE  Removable(proposals[m].new[k]) \/ Holds(disk[f], proposals[m].new[k])
        BY <4>1 DEF Preserves
      <4>2. m # n
        BY <3>2, <2>6
      <4> QED
        BY <4>2, <2>5, <2>7 DEF Preserves
    <3> QED
      BY <3>1, <3>2
  <2> QED
    BY <2>1, <2>2, <2>4, <2>8
<1>7. ASSUME NEW c \in 1..Len(commands), WriteFails(c) PROVE FALSE
  BY <1>7, <1>f DEF WriteFails
<1>8. ASSUME NEW c \in 1..Len(commands), DropAnnouncement(c)
      PROVE  /\ \A f \in Files : Preserves(proposals', writes', f, disk'[f])
             /\ \A d \in 1..Len(commands') :
                  commands'[d].stage = "write" =>
                    /\ Preserves(proposals', writes', EditOf(d).uri', commands'[d].text)
                    /\ \A k \in 1..Len(EditOf(d).new') :
                         Holds(commands'[d].text, EditOf(d).new'[k])
  <2>1. /\ commands[c].stage = "read" /\ EndsAt(c, "done")
        /\ UNCHANGED <<proposals, visit, disk, writes, misread>>
    BY <1>8 DEF DropAnnouncement
  <2>2. /\ Len(commands') = Len(commands)
        /\ \A d \in 1..Len(commands) : /\ commands'[d].number = commands[d].number
                                      /\ commands'[d].visit = commands[d].visit
        /\ \A d \in 1..Len(commands) : d # c => commands'[d] = commands[d]
        /\ commands'[c].stage = "done"
    BY <2>1, CommandEnds DEF CommandStages
  <2>3. /\ visit = 0 /\ DiskWorks
        /\ \A d \in 1..Len(commands) : EditOf(d)' = EditOf(d)
    BY <2>1, <2>2, <1>c
  <2>4. \A d \in 1..Len(commands) : commands'[d].stage = "write" => commands'[d] = commands[d]
    BY <2>2
  <2> QED
    BY <2>1, <2>2, <2>3, <2>4, <1>b
<1>9. ASSUME NEW g \in Files, SaveElsewhere(g)
      PROVE  /\ \A f \in Files : Preserves(proposals', writes', f, disk'[f])
             /\ \A d \in 1..Len(commands') :
                  commands'[d].stage = "write" =>
                    /\ Preserves(proposals', writes', EditOf(d).uri', commands'[d].text)
                    /\ \A k \in 1..Len(EditOf(d).new') :
                         Holds(commands'[d].text, EditOf(d).new'[k])
  <2>1. /\ disk' = [disk EXCEPT ![g] = Append(@, Saved)]
        /\ UNCHANGED <<proposals, page, visit, commands, writes, misread>>
        /\ \A c : EditOf(c)' = EditOf(c)
        /\ visit = 0 /\ DiskWorks
    BY <1>9 DEF SaveElsewhere, EditOf, DiskWorks
  <2>2. ASSUME NEW f \in Files PROVE Preserves(proposals, writes, f, disk'[f])
    <3>1. Preserves(proposals, writes, f, disk[f]) /\ disk[f] \in Seq(Words) /\ Saved \in Words
      BY <2>1, <1>b, <1>t, DeskAssumption DEF OnDisk
    <3>2. disk'[f] = disk[f] \/ disk'[f] = Append(disk[f], Saved)
      BY <2>1, <1>t
    <3>3. \A w : Holds(disk[f], w) => Holds(disk'[f], w)
      BY <3>1, <3>2, AppendHolds
    <3> DEFINE a == disk[f]
               b == disk'[f]
    <3>4. Preserves(proposals, writes, f, a) /\ (\A w : Holds(a, w) => Holds(b, w))
      BY <3>1, <3>3
    <3> HIDE DEF a, b
    <3>5. Preserves(proposals, writes, f, b)
      BY <3>4 DEF Preserves
    <3> QED
      BY <3>5 DEF b
  <2> QED
    BY <2>1, <2>2, <1>b
<1> QED
  BY <1>0, <1>1, <1>2, <1>3, <1>4, <1>5, <1>6, <1>7, <1>8, <1>9 DEF DeskNext

LEMMA DeskAlways == DeskSpec => []DeskIInv
<1>1. DeskInit => NothingUndone
  BY DeskInitUndone
<1>2. DeskTyped /\ PageInv /\ NothingUndone /\ [DeskNext]_deskVars => NothingUndone'
  BY DeskStepUndone
<1>3. DeskTyped /\ PageInv /\ NothingUndone => DeskIInv
  BY DEF DeskIInv
<1> QED
  BY <1>1, <1>2, <1>3, PageAlways, PTL DEF DeskSpec

(***************************************************************************)
(* While the user stays on the page and the disk works, every word that a  *)
(* confirmed edit has written is in its file until an edit names it as old *)
(* text, for any edits and whatever other programs append in between.      *)
(***************************************************************************)
THEOREM WhatIsWrittenStays == DeskSpec => []WrittenStays
<1>1. DeskIInv => WrittenStays
  <2> SUFFICES ASSUME DeskIInv, visit = 0, DiskWorks,
                      NEW n \in 1..Len(proposals), writes[n] > 0,
                      NEW k \in 1..Len(proposals[n].new)
               PROVE  \/ Removable(proposals[n].new[k])
                      \/ Holds(disk[proposals[n].uri], proposals[n].new[k])
    BY DEF WrittenStays
  <2>1. n \in Numbers /\ proposals[n] \in Edits
    BY DeskAssumption DEF DeskIInv, DeskTyped, DeskTypeOK, Numbers
  <2>2. proposals[n].uri \in Files
    BY <2>1, DeskAssumption DEF DeskIInv, PageInv, WrittenByCommand
  <2>3. Preserves(proposals, writes, proposals[n].uri, disk[proposals[n].uri])
    BY <2>2 DEF DeskIInv, NothingUndone
  <2> QED
    BY <2>3 DEF Preserves
<1> QED
  BY <1>1, DeskAlways, PTL

=============================================================================
