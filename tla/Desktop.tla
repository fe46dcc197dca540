------------------------------- MODULE Desktop -------------------------------
(***************************************************************************)
(* The desktop application at work: the stack of DesktopStack, and on top  *)
(* of it the chat page and the streams it has started (commands/chat.rs,   *)
(* commands/agent.rs, grpc/stream.rs, ChatPage.tsx).  A stream is a task   *)
(* that forwards what the server sends as events, named by the session;    *)
(* the page follows the events of the session it shows; a stream is        *)
(* stopped through the one cancellation token AppState keeps for a session.*)
(***************************************************************************)
EXTENDS DesktopStack

CONSTANTS
  Streams,     \* stream tasks
  Sessions,    \* names of sessions
  FirstSession \* what the page shows when it opens

ASSUME StreamsAssumption == FirstSession \in Sessions /\ "none" \notin Streams

VARIABLES
  task,      \* where each stream is
  kind,      \* chat or agent
  session,   \* the session it was started for
  server,    \* the serve process that answers it, 0 before there is one
  aborts,    \* AppState.aborts: the stream whose token a session has
  cancelled, \* the streams that run and whose token is cancelled
  late,      \* history: tokens a stream emitted after it was stopped, up to 2
  page,      \* the chat page: whether it is open, its session and busy flag
  sent,      \* history: the stream of the page's last message
  steady     \* history: since then the page stayed open on one session, whose
             \* events no other chat stream shares

streamVars == <<task, kind, session, server, aborts, cancelled, late>>
pageVars == <<page, sent, steady>>
vars == <<stackVars, streamVars, pageVars>>

Ended == {"done", "error", "failed"}
Live(t) == task[t] \in {"request", "streaming", "emit"}

NoPage == [open |-> FALSE, session |-> FirstSession, busy |-> FALSE]

Init ==
  /\ StackInit
  /\ task = [t \in Streams |-> "none"]
  /\ kind = [t \in Streams |-> "chat"]
  /\ session = [t \in Streams |-> FirstSession]
  /\ server = [t \in Streams |-> 0]
  /\ aborts = [s \in Sessions |-> "none"]
  /\ cancelled = {}
  /\ late = [t \in Streams |-> 0]
  /\ page = NoPage
  /\ sent = "none"
  /\ steady = FALSE

-----------------------------------------------------------------------------
(* The commands                                                            *)

(* chat_send and agent_run: the session's token is now the new stream's.   *)
Register(t, s, k) ==
  /\ clients
  /\ task[t] = "none"
  /\ task' = [task EXCEPT ![t] = "request"]
  /\ kind' = [kind EXCEPT ![t] = k]
  /\ session' = [session EXCEPT ![t] = s]
  /\ aborts' = [aborts EXCEPT ![s] = t]
  /\ UNCHANGED <<server, cancelled, late>>

SharesEvents(s) == \E t \in Streams : Live(t) /\ kind[t] = "chat" /\ session[t] = s

(* The page sends a message; without clients it is told so and stays idle. *)
Send(t) ==
  /\ page.open
  /\ ~page.busy
  /\ Register(t, page.session, "chat")
  /\ page' = [page EXCEPT !.busy = TRUE]
  /\ sent' = t
  /\ steady' = ~SharesEvents(page.session)
  /\ UNCHANGED stackVars

RunAgent(t) ==
  /\ running
  /\ \E s \in Sessions : Register(t, s, "agent")
  /\ UNCHANGED <<stackVars, pageVars>>

(* cancel_abort: the token leaves the map and is cancelled.                *)
CancelAbort_TokenLeft(s) ==
  /\ aborts' = [aborts EXCEPT ![s] = "none"]
  /\ UNCHANGED cancelled
CancelAbort(s) ==
  /\ aborts' = [aborts EXCEPT ![s] = "none"]
  /\ cancelled' = cancelled \cup {t \in Streams : t = aborts[s] /\ Live(t)}

(* The page's stop button, which only a busy page shows, and agent_stop.   *)
Stop ==
  /\ page.open
  /\ page.busy
  /\ CancelAbort(page.session)
  /\ UNCHANGED <<stackVars, task, kind, session, server, late, pageVars>>

StopAgent(s) ==
  /\ \E t \in Streams : kind[t] = "agent" /\ session[t] = s /\ Live(t)
  /\ CancelAbort(s)
  /\ UNCHANGED <<stackVars, task, kind, session, server, late, pageVars>>

-----------------------------------------------------------------------------
(* run_chat and run_agent                                                  *)

(* The page hears the end of a chat stream of the session it shows.        *)
Concerns_AnySession(t) == page.open /\ kind[t] = "chat"
Concerns(t) == page.open /\ kind[t] = "chat" /\ page.session = session[t]

Ends(t, how) ==
  /\ task' = [task EXCEPT ![t] = how]
  /\ page' = IF how # "failed" /\ Concerns(t) THEN [page EXCEPT !.busy = FALSE]
             ELSE page
  /\ server' = [server EXCEPT ![t] = 0]
  /\ cancelled' = cancelled \ {t}
  /\ UNCHANGED <<stackVars, kind, session, aborts, late, sent, steady>>

(***************************************************************************)
(* The request.  A server that is mute leaves it unanswered; with no       *)
(* server, or one that refuses it, the task ends and no event says so.     *)
(***************************************************************************)
Open(t) ==
  /\ task[t] = "request"
  /\ \E p \in Serves :
       /\ serve[p].state = "serving"
       /\ server' = [server EXCEPT ![t] = p]
  /\ task' = [task EXCEPT ![t] = "streaming"]
  /\ UNCHANGED <<stackVars, kind, session, aborts, cancelled, late, pageVars>>

Refused(t) ==
  /\ task[t] = "request"
  /\ Reachable \/ ~AddressTaken
  /\ Ends(t, "failed")

Answers(t) == serve[server[t]].state = "serving"
Hung(t) == IF task[t] = "request" THEN AddressTaken /\ ~Reachable
           ELSE task[t] = "streaming" /\ serve[server[t]].state = "mute"

NoticesCancel_Never(t) == FALSE
NoticesCancel_OfChats(t) == t \in cancelled /\ kind[t] = "chat"
NoticesCancel(t) == t \in cancelled

(* The next item: only now does the task look at its token.                *)
Receive(t) ==
  /\ task[t] = "streaming"
  /\ Answers(t)
  /\ ~NoticesCancel(t)
  /\ task' = [task EXCEPT ![t] = "emit"]
  /\ UNCHANGED <<stackVars, kind, session, server, aborts, cancelled, late,
                 pageVars>>

(* The token or event is emitted.                                          *)
Emit(t) ==
  /\ task[t] = "emit"
  /\ task' = [task EXCEPT ![t] = "streaming"]
  /\ late' = IF t \in cancelled /\ late[t] < 2
             THEN [late EXCEPT ![t] = late[t] + 1] ELSE late
  /\ UNCHANGED <<stackVars, kind, session, server, aborts, cancelled, pageVars>>

(* An item arrives after the stop: the stream is left, and reads done.     *)
BreakOff(t) ==
  /\ task[t] = "streaming"
  /\ ~Hung(t)
  /\ NoticesCancel(t)
  /\ Ends(t, "done")

(* The server has sent everything, also to a stream that was stopped.      *)
Finish(t) ==
  /\ task[t] = "streaming"
  /\ Answers(t)
  /\ Ends(t, "done")

(* The item is an error, the server's or that of a connection lost.        *)
Break(t) ==
  /\ task[t] = "streaming"
  /\ ~Hung(t)
  /\ ~NoticesCancel(t)
  /\ Ends(t, "error")

-----------------------------------------------------------------------------
(* The page                                                                *)

OpenPage ==
  /\ running
  /\ ~page.open
  /\ page' = [NoPage EXCEPT !.open = TRUE]
  /\ UNCHANGED <<stackVars, streamVars, sent, steady>>

(* Another tab is shown: the component goes, with its state.               *)
LeavePage ==
  /\ page.open
  /\ page' = NoPage
  /\ steady' = FALSE
  /\ UNCHANGED <<stackVars, streamVars, sent>>

EditSession ==
  /\ page.open
  /\ \E s \in Sessions \ {page.session} : page' = [page EXCEPT !.session = s]
  /\ steady' = FALSE
  /\ UNCHANGED <<stackVars, streamVars, sent>>

-----------------------------------------------------------------------------
(* Of the stack's actions only the end of the application concerns the     *)
(* streams: they end with it, and nothing of them is kept.                 *)
QuitAll ==
  /\ Quit
  /\ task' = [t \in Streams |-> "none"]
  /\ kind' = [t \in Streams |-> "chat"]
  /\ session' = [t \in Streams |-> FirstSession]
  /\ server' = [t \in Streams |-> 0]
  /\ aborts' = [s \in Sessions |-> "none"]
  /\ cancelled' = {}
  /\ late' = [t \in Streams |-> 0]
  /\ page' = NoPage
  /\ sent' = "none"
  /\ steady' = FALSE

StackStep ==
  /\ \/ Launch
     \/ BootStep \/ StartStep("boot")
     \/ \E s \in Switches : Command(s) \/ SwitchStep(s)
     \/ ProcessStep
  /\ UNCHANGED <<streamVars, pageVars>>

StreamStep(t) ==
  \/ Open(t) \/ Refused(t) \/ Receive(t) \/ Emit(t)
  \/ BreakOff(t) \/ Finish(t) \/ Break(t)

Next ==
  \/ QuitAll \/ StackStep
  \/ \E t \in Streams : Send(t) \/ RunAgent(t) \/ StreamStep(t)
  \/ Stop \/ \E s \in Sessions : StopAgent(s)
  \/ OpenPage \/ LeavePage \/ EditSession

(***************************************************************************)
(* The runtime polls every task, each of whose waits in the stack is for a *)
(* bounded time.  A stream waits for the server without bound: a server    *)
(* that is not mute is assumed to send an item, an end or an error.        *)
(***************************************************************************)
BootWork == (BootStep \/ StartStep("boot")) /\ UNCHANGED <<streamVars, pageVars>>
SwitchWork(s) == SwitchStep(s) /\ UNCHANGED <<streamVars, pageVars>>

Fairness ==
  /\ WF_vars(BootWork)
  /\ \A s \in Switches : WF_vars(SwitchWork(s))
  /\ \A t \in Streams : WF_vars(StreamStep(t))

Spec == Init /\ [][Next]_vars /\ Fairness

-----------------------------------------------------------------------------
(* Properties                                                              *)

StreamTypeOK ==
  /\ task \in [Streams -> {"none", "request", "streaming", "emit"} \cup Ended]
  /\ kind \in [Streams -> {"chat", "agent"}]
  /\ session \in [Streams -> Sessions]
  /\ server \in [Streams -> {0} \cup Serves]
  /\ aborts \in [Sessions -> Streams \cup {"none"}]
  /\ cancelled \subseteq Streams
  /\ late \in [Streams -> 0..2]
  /\ page \in [open : BOOLEAN, session : Sessions, busy : BOOLEAN]
  /\ sent \in Streams \cup {"none"}
  /\ steady \in BOOLEAN

(* Every variable of the stack, the streams and the page has its type.     *)
TypeOK == StackTypeOK /\ StreamTypeOK

(***************************************************************************)
(* No process escapes the handle by itself: in a run of the application    *)
(* that found no serve alive, needed one attempt and was given one command *)
(* at a time, every living serve is the one in the handle, or in the hands *)
(* of the task that has just spawned it, so that stop_current finds it.    *)
(***************************************************************************)
OwnedWhenOrderly ==
  orderly /\ running =>
    \A p \in Serves : Living(p) => p = handle \/ \E f \in Flows : own[f] = p

(* The two clients a server was meant to have for a configuration.         *)
Meant(v) ==
  IF v.kind = "local"
  THEN [url |-> LlamaUrl, model |-> v.local_model, key |-> NoKey]
  ELSE [url   |-> IF v.base_url = Absent THEN OpenAiUrl ELSE v.base_url,
        model |-> IF v.model = Absent THEN OpenAiModel ELSE v.model,
        key   |-> KeyringKey]

EnvWorks(env, v) ==
  LET cfg == from_map(env)
  IN build_llm(cfg) = Meant(v) /\ default_nes_backend(cfg) = Meant(v)

WorksFor(p, v) == EnvWorks(serve[p].env, v)

(***************************************************************************)
(* A command that answers Ok has switched the backend: whichever serve the *)
(* address leads to, both its chat and its completion client ask the model *)
(* of the configuration in force.                                          *)
(***************************************************************************)
SwitchTakesEffect ==
  \A s \in Switches : pc[s] = "ok" =>
    \A p \in Serves : serve[p].state = "serving" => WorksFor(p, vendor)

(* The same of an orderly run, where it holds.                             *)
OrderlySwitchTakesEffect == orderly => SwitchTakesEffect

(* Once its token is cancelled a stream shows the user one token at most,  *)
(* the one it had received when the stop came.                             *)
StoppedStaysQuiet == \A t \in Streams : late[t] <= 1

(***************************************************************************)
(* On a page that stays on one session, and shares it with no other chat   *)
(* stream, the busy flag tells whether the stream of the last message may  *)
(* still send tokens; a request that fails leaves it set.                  *)
(***************************************************************************)
BusyTracksStream ==
  steady => (page.busy <=> Live(sent) \/ task[sent] = "failed")

(***************************************************************************)
(* The token of a stream can be found as long as it is not used: with no   *)
(* second stream started for its session, a stream that runs and was not   *)
(* stopped is the one that the session's stop would reach.                 *)
(***************************************************************************)
Alone(t) == \A u \in Streams \ {t} : task[u] = "none" \/ session[u] # session[t]
StoppableUntilStopped ==
  \A t \in Streams :
    Live(t) /\ Alone(t) /\ t \notin cancelled => aborts[session[t]] = t

(***************************************************************************)
(* Ready means usable: in an orderly run whose serves do not fail, Ready   *)
(* is announced for a stack that has clients, or is about to get them.     *)
(***************************************************************************)
ReadyIsUsable ==
  orderly /\ faults = 0 /\ phase = "Ready" => clients \/ pc["boot"] = "connect"

(***************************************************************************)
(* The bootstrap and every command come to an end, whatever the processes  *)
(* do, or wait for a serve that is mute.                                   *)
(***************************************************************************)
Stuck(f) == pc[f] = "wait" /\ AddressTaken /\ ~Reachable
TasksEnd == \A f \in Flows : Active(f) ~> (~Active(f) \/ Stuck(f))

(* A stream that is stopped ends, unless its server is mute: then nothing  *)
(* makes the task look at its token.                                       *)
StopTakesEffect ==
  \A t \in Streams : (Live(t) /\ t \in cancelled) ~> (~Live(t) \/ Hung(t))

=============================================================================
