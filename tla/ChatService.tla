----------------------------- MODULE ChatService -----------------------------
(***************************************************************************)
(* The agent server's chat and nes_complete handlers (agent.rs) over the   *)
(* chat engine, its sessions (chat.rs) and their context windows           *)
(* (context_manager.rs).  Each request is a task of its own.  All sessions *)
(* are in one map under one async mutex, which a chat holds from the       *)
(* lookup of its session until both answers of the language model are      *)
(* there; a NES request never takes it.                                    *)
(*                                                                         *)
(* run_agent shares the admission and the counters but touches no session: *)
(* its planner is in Quest, and no such request is made here.              *)
(***************************************************************************)
EXTENDS Naturals, Sequences, FiniteSets, Functions, Governance

CONSTANTS
  Requests,   \* identities of the requests
  Rpc,        \* the handler each is for
  SessionOf,  \* the session_id of each
  PermsOf,    \* the masks of the principals
  CallersOf,  \* whom authentication may derive from the bearer token of each
  MaxTurns    \* ChatSession::new's max_turns

Sessions == {SessionOf[r] : r \in Requests}

Principals == DOMAIN PermsOf

(* What becomes of a token that authentication does not accept.            *)
Nobody == "nobody"

ASSUME ChatAssumption ==
  /\ Rpc \in [Requests -> {"chat", "nes_complete"}]
  /\ SessionOf \in [Requests -> Sessions]
  /\ PermsOf \in [Principals -> SUBSET PermBits]
  /\ Nobody \notin Principals
  /\ CallersOf \in [Requests -> SUBSET (Principals \cup {Nobody})]
  /\ MaxTurns \in Nat

VARIABLES
  pc,        \* where each request is
  principal, \* the principal derived for it
  waiting,   \* the chats in the mutex's queue
  locked,    \* the mutex
  history,   \* ChatSession.history; a session not in the map yet is empty
  window,    \* its ContextManager.window
  prompt,    \* the window the prompt of each chat was composed from, while it is used
  granted,   \* history: granted audit events of each request
  refused,   \* history: refused ones
  metrics    \* the counters of metrics.rs

requestVars == <<pc, principal>>
mutex == <<waiting, locked>>
sessions == <<history, window>>
audit == <<granted, refused>>
vars == <<pc, principal, waiting, locked, history, window, prompt, granted,
          refused, metrics>>

Roles == {"user", "assistant"}
Turns == [by : Requests, role : Roles]

Counters == {"requests", "denials", "llm_calls", "completions", "audit_events"}

Init ==
  /\ pc = [r \in Requests |-> "idle"]
  /\ principal = [r \in Requests |-> Nobody]
  /\ waiting = <<>>
  /\ locked = FALSE
  /\ history = [s \in Sessions |-> <<>>]
  /\ window = [s \in Sessions |-> <<>>]
  /\ prompt = [r \in Requests |-> <<>>]
  /\ granted = [r \in Requests |-> 0]
  /\ refused = [r \in Requests |-> 0]
  /\ metrics = [m \in Counters |-> 0]

Forgets(r) == prompt' = [prompt EXCEPT ![r] = <<>>]

Goes(r, stage) == pc' = [pc EXCEPT ![r] = stage]

(* Counts one more of each.                                                *)
Counts(names) ==
  metrics' = [m \in Counters |-> metrics[m] + (IF m \in names THEN 1 ELSE 0)]

-----------------------------------------------------------------------------
(* Admission: the same lines in each handler                               *)

Unauthenticated(r) ==
  /\ pc[r] = "idle"
  /\ Nobody \in CallersOf[r]
  /\ Goes(r, "rejected")
  /\ Counts({"requests", "denials"})
  /\ UNCHANGED <<principal, mutex, sessions, prompt, audit>>

Allowed(p) == "Generate" \in PermsOf[p]

Denied(r, p) ==
  /\ pc[r] = "idle"
  /\ ~Allowed(p)
  /\ principal' = [principal EXCEPT ![r] = p]
  /\ refused' = [refused EXCEPT ![r] = @ + 1]
  /\ Goes(r, "rejected")
  /\ Counts({"requests", "denials", "audit_events"})
  /\ UNCHANGED <<mutex, sessions, prompt, granted>>

(* Admitted: a chat queues for the sessions, a completion asks its backend. *)
Admitted(r, p) ==
  /\ pc[r] = "idle"
  /\ Allowed(p)
  /\ principal' = [principal EXCEPT ![r] = p]
  /\ \/ /\ Rpc[r] = "chat"
        /\ Goes(r, "queued")
        /\ waiting' = Append(waiting, r)
     \/ /\ Rpc[r] = "nes_complete"
        /\ Goes(r, "completing")
        /\ UNCHANGED waiting
  /\ Counts({"requests"})
  /\ UNCHANGED <<locked, sessions, prompt, audit>>

-----------------------------------------------------------------------------
(* nes_complete                                                            *)

(* The event is recorded only with the candidates in hand.                 *)
Completed(r) ==
  /\ pc[r] = "completing"
  /\ granted' = [granted EXCEPT ![r] = @ + 1]
  /\ Goes(r, "replied")
  /\ Counts({"completions", "audit_events"})
  /\ UNCHANGED <<principal, mutex, sessions, prompt, refused>>

CompletionFails(r) ==
  /\ pc[r] = "completing"
  /\ Goes(r, "failed")
  /\ UNCHANGED <<principal, mutex, sessions, prompt, audit, metrics>>

-----------------------------------------------------------------------------
(* chat                                                                    *)

(* The mutex is fair: it goes to the first in the queue.  The engine       *)
(* checks the same principal again, which grants again, counts the event   *)
(* and awaits its record.                                                  *)
Acquire(r) ==
  /\ pc[r] = "queued"
  /\ ~locked
  /\ r = Head(waiting)
  /\ locked' = TRUE
  /\ waiting' = Tail(waiting)
  /\ granted' = [granted EXCEPT ![r] = @ + 1]
  /\ Goes(r, "recording")
  /\ Counts({"audit_events"})
  /\ UNCHANGED <<principal, sessions, prompt, refused>>

(* compose_prompt shows the window; the thought is awaited.                *)
Compose_Unlocks(r) ==
  /\ pc[r] = "recording"
  /\ prompt' = [prompt EXCEPT ![r] = window[SessionOf[r]]]
  /\ Goes(r, "thinking")
  /\ locked' = FALSE
  /\ UNCHANGED <<principal, waiting, sessions, audit, metrics>>
Compose(r) ==
  /\ pc[r] = "recording"
  /\ prompt' = [prompt EXCEPT ![r] = window[SessionOf[r]]]
  /\ Goes(r, "thinking")
  /\ UNCHANGED <<principal, mutex, sessions, audit, metrics>>

Thought(r) ==
  /\ pc[r] = "thinking"
  /\ Goes(r, "planning")
  /\ UNCHANGED <<principal, mutex, sessions, prompt, audit, metrics>>

(* ContextManager::push before a push evicts when it is full;              *)
(* ChatSession::push after it.  Either way the oldest turn goes.  The      *)
(* budget is looked at by budget_trim, which drops chunks: a session has   *)
(* none, and its window is never trimmed.                                  *)
MaxItems == IF MaxTurns = 0 THEN 1 ELSE MaxTurns * 4
Kept == IF MaxTurns = 0 THEN 1 ELSE MaxTurns

Remembered(items, turn) ==
  Append(IF Len(items) = MaxItems THEN Tail(items) ELSE items, turn)
Recorded(items, turn) ==
  IF Len(items) = Kept THEN Tail(Append(items, turn)) ELSE Append(items, turn)

Exchange(r) == <<[by |-> r, role |-> "user"], [by |-> r, role |-> "assistant"]>>

(* push_user and push_assistant, with no await between.                    *)
PushUser(r) == Exchange(r)[1]
PushAssistant(r) == Exchange(r)[2]
Pushes_AssistantOnly(r) ==
  LET s == SessionOf[r]
  IN /\ history' = [history EXCEPT ![s] = Recorded(@, PushAssistant(r))]
     /\ window' = [window EXCEPT ![s] = Remembered(@, PushAssistant(r))]
Pushes(r) ==
  LET s == SessionOf[r]
  IN /\ history' = [history EXCEPT ![s] = Recorded(Recorded(@, PushUser(r)), PushAssistant(r))]
     /\ window' = [window EXCEPT ![s] = Remembered(Remembered(@, PushUser(r)), PushAssistant(r))]

(* The plan is there: the exchange enters the session, the mutex is freed, *)
(* and the handler records the turn again, as it streams the reply.        *)
Reply(r) ==
  /\ pc[r] = "planning"
  /\ Pushes(r)
  /\ locked' = FALSE
  /\ granted' = [granted EXCEPT ![r] = @ + 1]
  /\ Goes(r, "replied")
  /\ Forgets(r)
  /\ Counts({"llm_calls", "audit_events"})
  /\ UNCHANGED <<principal, waiting, refused>>

(* Either answer fails: the guard goes with the error.                     *)
LlmFails_KeepsLock(r) ==
  /\ pc[r] \in {"thinking", "planning"}
  /\ Goes(r, "failed")
  /\ Forgets(r)
  /\ UNCHANGED <<principal, mutex, sessions, audit, metrics>>
LlmFails(r) ==
  /\ pc[r] \in {"thinking", "planning"}
  /\ locked' = FALSE
  /\ Goes(r, "failed")
  /\ Forgets(r)
  /\ UNCHANGED <<principal, waiting, sessions, audit, metrics>>

Holding == {"recording", "thinking", "planning"}

(* The queue without r.                                                    *)
Unqueued(queue, r) ==
  IF \E i \in 1..Len(queue) : queue[i] = r
  THEN [i \in 1..(Len(queue) - 1) |->
          IF \E j \in 1..i : queue[j] = r THEN queue[i + 1] ELSE queue[i]]
  ELSE queue

(* The client goes away: the handler is dropped at its await, and leaves   *)
(* the queue or the mutex.                                                 *)
Dropped(r) ==
  /\ pc[r] \in {"queued", "completing"} \cup Holding
  /\ Goes(r, "gone")
  /\ Forgets(r)
  /\ waiting' = Unqueued(waiting, r)
  /\ locked' = (locked /\ pc[r] \notin Holding)
  /\ UNCHANGED <<principal, sessions, audit, metrics>>

Arrive(r) ==
  \/ Unauthenticated(r)
  \/ \E p \in CallersOf[r] \cap Principals : Denied(r, p) \/ Admitted(r, p)

(* What the runtime and the answers of model, backend and database drive.  *)
Proceed(r) ==
  \/ Completed(r) \/ CompletionFails(r)
  \/ Acquire(r) \/ Compose(r) \/ Thought(r) \/ Reply(r) \/ LlmFails(r)

Next == \E r \in Requests : Arrive(r) \/ Proceed(r) \/ Dropped(r)

(***************************************************************************)
(* The runtime polls every handler; requests to the language model time    *)
(* out after 120 s (llm.rs), those of the completion backend as in Nes,    *)
(* and the audit record is taken to return.                                *)
(***************************************************************************)
Spec == Init /\ [][Next]_vars /\ \A r \in Requests : WF_vars(Proceed(r))

-----------------------------------------------------------------------------
(* Properties                                                              *)

Stages ==
  {"idle", "rejected", "queued", "completing", "replied", "failed", "gone"} \cup Holding

TypeOK ==
  /\ pc \in [Requests -> Stages]
  /\ principal \in [Requests -> Principals \cup {Nobody}]
  /\ waiting \in Seq(Requests)
  /\ locked \in BOOLEAN
  /\ history \in [Sessions -> Seq(Turns)]
  /\ window \in [Sessions -> Seq(Turns)]
  /\ prompt \in [Requests -> Seq(Turns)]
  /\ granted \in [Requests -> 0..2]
  /\ refused \in [Requests -> 0..1]
  /\ metrics \in [Counters -> Nat]

(***************************************************************************)
(* While the model answers a chat, its prompt is still what the session    *)
(* remembers: no other exchange gets between what the model saw and what   *)
(* is appended.                                                            *)
(***************************************************************************)
PromptUpToDate ==
  \A r \in Requests :
    pc[r] \in {"thinking", "planning"} => prompt[r] = window[SessionOf[r]]

Even(n) == n % 2 = 0

(* items are exchanges of session s, whole, each once, of chats replied to. *)
AreExchanges(items, s) ==
  /\ Even(Len(items))
  /\ \A i \in 1..Len(items) :
       ~Even(i) => /\ SubSeq(items, i, i + 1) = Exchange(items[i].by)
                   /\ SessionOf[items[i].by] = s
                   /\ pc[items[i].by] = "replied"
  /\ IsInjective(items)

(***************************************************************************)
(* A session remembers exchanges whole, each once and of its own chats     *)
(* alone: failed and abandoned chats leave no half of one.  The window has *)
(* room for an even number of turns, the history does when max_turns is    *)
(* even; an odd history shows an answer without its question.              *)
(***************************************************************************)
WholeExchanges ==
  MaxTurns > 0 =>
    \A s \in Sessions : /\ AreExchanges(window[s], s)
                        /\ Even(Kept) => AreExchanges(history[s], s)

(***************************************************************************)
(* The two memories of a session, evicted by different rules at different  *)
(* moments, agree: the history is the newest part of the window, and is    *)
(* full before it forgets anything the window has.                         *)
(***************************************************************************)
HistoryIsRecentWindow ==
  \A s \in Sessions :
    LET n == Len(window[s])
        h == Len(history[s])
    IN /\ h = (IF n < Kept THEN n ELSE Kept)
       /\ history[s] = SubSeq(window[s], n - h + 1, n)

(***************************************************************************)
(* Every turn a session remembers was admitted with the Generate bit and   *)
(* recorded before it was made, and every reply was; a refusal is recorded *)
(* exactly when the caller is known.                                       *)
(***************************************************************************)
TurnsAuthorized ==
  /\ \A s \in Sessions : \A i \in 1..Len(window[s]) :
       LET r == window[s][i].by
       IN "Generate" \in PermsOf[principal[r]] /\ granted[r] >= 1
  /\ \A r \in Requests :
       /\ pc[r] = "replied" => granted[r] = (IF Rpc[r] = "chat" THEN 2 ELSE 1)
       /\ refused[r] = 1 <=> pc[r] = "rejected" /\ principal[r] # Nobody

(* A chat that waits for the sessions gets them and ends, unless its       *)
(* client goes away, however many slow or failing chats are before it.     *)
ChatsAnswered ==
  \A r \in Requests : pc[r] = "queued" ~> pc[r] \in {"replied", "failed", "gone"}

=============================================================================
