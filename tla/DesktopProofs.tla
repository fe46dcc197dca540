---------------------------- MODULE DesktopProofs ----------------------------
(***************************************************************************)
(* Theorems about Desktop, for any streams, sessions and commands, any     *)
(* number of attempts, of serve processes, of their failures and of runs   *)
(* of the application.  The streams and the stack have an invariant each:  *)
(* what one does leaves the other's variables alone, but for the exit.     *)
(***************************************************************************)
EXTENDS Desktop, TLAPS

USE StreamsAssumption

-----------------------------------------------------------------------------
(* The streams and the page                                                *)

(* A stream has shown nothing after it was stopped, or one token and waits *)
(* for an item that will make it look at its token, or has ended.          *)
Quiet ==
  \A t \in Streams :
    \/ late[t] = 0
    \/ /\ late[t] = 1
       /\ task[t] \in Ended \/ (task[t] = "streaming" /\ t \in cancelled)

(* On a steady page the last message's stream is a chat of the session the *)
(* page shows, which no other chat that lives is for.                      *)
Tracked ==
  steady =>
    /\ page.open
    /\ sent \in Streams
    /\ task[sent] # "none" /\ kind[sent] = "chat" /\ session[sent] = page.session
    /\ \A u \in Streams \ {sent} :
         Live(u) /\ kind[u] = "chat" => session[u] # page.session

StreamInv == StreamTypeOK /\ Quiet /\ StoppableUntilStopped /\ Tracked /\ BusyTracksStream

LEMMA NoPageType ==
  /\ NoPage \in [open : BOOLEAN, session : Sessions, busy : BOOLEAN]
  /\ [NoPage EXCEPT !.open = TRUE] \in [open : BOOLEAN, session : Sessions, busy : BOOLEAN]
  BY DEF NoPage

LEMMA StreamInit == Init => StreamInv
  <1> SUFFICES ASSUME Init PROVE StreamInv
    OBVIOUS
  <1>1. StreamTypeOK
    <2>1. /\ task \in [Streams -> {"none", "request", "streaming", "emit"} \cup Ended]
          /\ kind \in [Streams -> {"chat", "agent"}]
          /\ session \in [Streams -> Sessions]
      BY DEF Init
    <2>2. server \in [Streams -> {0} \cup Serves] /\ late \in [Streams -> 0..2]
      BY DEF Init
    <2> QED
      BY <2>1, <2>2, NoPageType DEF Init, StreamTypeOK
  <1>2. Quiet /\ StoppableUntilStopped
    BY DEF Init, Quiet, StoppableUntilStopped, Live
  <1>3. Tracked /\ BusyTracksStream
    BY DEF Init, Tracked, BusyTracksStream
  <1> QED
    BY <1>1, <1>2, <1>3 DEF StreamInv

(* A new stream, the page's or the agents'.                                *)
LEMMA RegisterKeeps ==
  ASSUME StreamInv, NEW t \in Streams, NEW s \in Sessions, NEW k \in {"chat", "agent"},
         Register(t, s, k)
  PROVE  Quiet' /\ StoppableUntilStopped'
  <1> USE DEF StreamInv, StreamTypeOK, Register
  <1>1. Quiet'
    BY DEF Quiet, Ended
  <1>2. StoppableUntilStopped'
    BY DEF StoppableUntilStopped, Live, Alone
  <1> QED
    BY <1>1, <1>2

LEMMA SendKeeps ==
  ASSUME StreamInv, NEW t \in Streams, Send(t)
  PROVE  StreamInv'
  <1>0. /\ page.session \in Sessions /\ page.open /\ ~page.busy
        /\ Register(t, page.session, "chat")
        /\ page' = [page EXCEPT !.busy = TRUE]
        /\ sent' = t
        /\ steady' = ~SharesEvents(page.session)
    BY DEF StreamInv, StreamTypeOK, Send
  <1>p. page'.open = page.open /\ page'.session = page.session /\ page'.busy = TRUE
    BY <1>0 DEF StreamInv, StreamTypeOK
  <1>1. StreamTypeOK'
    BY <1>0 DEF StreamInv, StreamTypeOK, Register, SharesEvents
  <1>2. Quiet' /\ StoppableUntilStopped'
    BY <1>0, RegisterKeeps
  <1>3. Tracked'
    BY <1>0, <1>p DEF StreamInv, StreamTypeOK, Register, Tracked, SharesEvents, Live
  <1>4. BusyTracksStream'
    BY <1>0, <1>p DEF StreamInv, StreamTypeOK, Register, BusyTracksStream, Live
  <1> QED
    BY <1>1, <1>2, <1>3, <1>4 DEF StreamInv

LEMMA RunAgentKeeps ==
  ASSUME StreamInv, NEW t \in Streams, RunAgent(t)
  PROVE  StreamInv'
  <1>0. PICK s \in Sessions : Register(t, s, "agent")
    BY DEF RunAgent
  <1>p. page' = page /\ sent' = sent /\ steady' = steady
    BY DEF RunAgent, pageVars
  <1>1. StreamTypeOK'
    BY <1>0, <1>p DEF StreamInv, StreamTypeOK, Register
  <1>2. Quiet' /\ StoppableUntilStopped'
    BY <1>0, RegisterKeeps
  <1>3. Tracked'
    BY <1>0, <1>p DEF StreamInv, StreamTypeOK, Register, Tracked, Live
  <1>4. BusyTracksStream'
    BY <1>0, <1>p DEF StreamInv, StreamTypeOK, Register, Tracked, BusyTracksStream, Live
  <1> QED
    BY <1>1, <1>2, <1>3, <1>4 DEF StreamInv

(* The stop of a session, the page's or the agents'.                       *)
LEMMA CancelKeeps ==
  ASSUME StreamInv, NEW s \in Sessions, CancelAbort(s),
         UNCHANGED <<task, kind, session, server, late, pageVars>>
  PROVE  StreamInv'
  <1> USE DEF StreamInv, StreamTypeOK, CancelAbort, pageVars
  <1>1. StreamTypeOK'
    OBVIOUS
  <1>2. Quiet'
    BY DEF Quiet
  <1>3. StoppableUntilStopped'
    BY DEF StoppableUntilStopped, Live, Alone
  <1>4. Tracked' /\ BusyTracksStream'
    BY DEF Tracked, BusyTracksStream, Live
  <1> QED
    BY <1>1, <1>2, <1>3, <1>4

(* A stream ends, and the page hears of it unless it failed to begin.      *)
LEMMA EndsKeeps ==
  ASSUME StreamInv, NEW t \in Streams, NEW how \in Ended,
         task[t] = IF how = "failed" THEN "request" ELSE "streaming",
         Ends(t, how)
  PROVE  StreamInv'
  <1>p. /\ page' \in [open : BOOLEAN, session : Sessions, busy : BOOLEAN]
        /\ page'.open = page.open /\ page'.session = page.session
        /\ page'.busy = IF how # "failed" /\ Concerns(t) THEN FALSE ELSE page.busy
    BY DEF StreamInv, StreamTypeOK, Ends
  <1>1. StreamTypeOK'
    BY <1>p DEF StreamInv, StreamTypeOK, Ends
  <1>2. Quiet'
    BY DEF StreamInv, StreamTypeOK, Ends, Quiet, Ended
  <1>3. StoppableUntilStopped'
    BY DEF StreamInv, StreamTypeOK, Ends, StoppableUntilStopped, Live, Alone, Ended
  <1>4. Tracked'
    BY <1>p DEF StreamInv, StreamTypeOK, Ends, Tracked, Live, Ended
  <1>5. BusyTracksStream'
    BY <1>p DEF StreamInv, StreamTypeOK, Ends, Tracked, BusyTracksStream, Live, Ended, Concerns
  <1> QED
    BY <1>1, <1>2, <1>3, <1>4, <1>5 DEF StreamInv

LEMMA StreamStepKeeps ==
  ASSUME StreamInv, NEW t \in Streams, StreamStep(t)
  PROVE  StreamInv'
  <1>1. CASE Open(t)
    <2>0. /\ UNCHANGED <<kind, session, aborts, cancelled, late, page, sent, steady>>
          /\ task[t] = "request" /\ task' = [task EXCEPT ![t] = "streaming"]
          /\ server' \in [Streams -> {0} \cup Serves]
      BY <1>1 DEF Open, pageVars, StreamInv, StreamTypeOK
    <2>1. StreamTypeOK'
      BY <2>0 DEF StreamInv, StreamTypeOK
    <2>2. Quiet' /\ StoppableUntilStopped'
      BY <2>0 DEF StreamInv, StreamTypeOK, Quiet, StoppableUntilStopped, Live, Alone, Ended
    <2>3. Tracked' /\ BusyTracksStream'
      BY <2>0 DEF StreamInv, StreamTypeOK, Tracked, BusyTracksStream, Live
    <2> QED
      BY <2>1, <2>2, <2>3 DEF StreamInv
  <1>2. CASE Refused(t)
    <2>1. task[t] = "request" /\ "failed" \in Ended /\ Ends(t, "failed")
      BY <1>2 DEF Refused, Ended
    <2> QED
      BY <2>1, EndsKeeps
  <1>3. CASE Receive(t)
    <2>0. /\ UNCHANGED <<kind, session, server, aborts, cancelled, late, page, sent, steady>>
          /\ task[t] = "streaming" /\ t \notin cancelled
          /\ task' = [task EXCEPT ![t] = "emit"]
      BY <1>3 DEF Receive, pageVars, NoticesCancel
    <2>1. StreamTypeOK'
      BY <2>0 DEF StreamInv, StreamTypeOK
    <2>2. Quiet' /\ StoppableUntilStopped'
      BY <2>0 DEF StreamInv, StreamTypeOK, Quiet, StoppableUntilStopped, Live, Alone, Ended
    <2>3. Tracked' /\ BusyTracksStream'
      BY <2>0 DEF StreamInv, StreamTypeOK, Tracked, BusyTracksStream, Live
    <2> QED
      BY <2>1, <2>2, <2>3 DEF StreamInv
  <1>4. CASE Emit(t)
    <2>0. /\ UNCHANGED <<kind, session, server, aborts, cancelled, page, sent, steady>>
          /\ task[t] = "emit" /\ task' = [task EXCEPT ![t] = "streaming"]
          /\ late' = IF t \in cancelled /\ late[t] < 2
                     THEN [late EXCEPT ![t] = late[t] + 1] ELSE late
      BY <1>4 DEF Emit, pageVars
    <2>t. late[t] = 0
      BY <2>0 DEF StreamInv, Quiet, Ended
    <2>1. StreamTypeOK'
      BY <2>0, <2>t DEF StreamInv, StreamTypeOK
    <2>2. Quiet'
      BY <2>0, <2>t DEF StreamInv, StreamTypeOK, Quiet, Ended
    <2>3. StoppableUntilStopped'
      BY <2>0 DEF StreamInv, StreamTypeOK, StoppableUntilStopped, Live, Alone
    <2>4. Tracked' /\ BusyTracksStream'
      BY <2>0 DEF StreamInv, StreamTypeOK, Tracked, BusyTracksStream, Live
    <2> QED
      BY <2>1, <2>2, <2>3, <2>4 DEF StreamInv
  <1>5. CASE BreakOff(t)
    BY <1>5, EndsKeeps DEF BreakOff, Ended
  <1>6. CASE Finish(t)
    BY <1>6, EndsKeeps DEF Finish, Ended
  <1>7. CASE Break(t)
    BY <1>7, EndsKeeps DEF Break, Ended
  <1> QED
    BY <1>1, <1>2, <1>3, <1>4, <1>5, <1>6, <1>7 DEF StreamStep

(* The page comes, goes, or shows another session.                         *)
LEMMA PageKeeps ==
  ASSUME StreamInv, OpenPage \/ LeavePage \/ EditSession
  PROVE  StreamInv'
  <1>0. /\ UNCHANGED <<task, kind, session, server, aborts, cancelled, late, sent>>
        /\ page' \in [open : BOOLEAN, session : Sessions, busy : BOOLEAN]
        /\ steady' \in BOOLEAN
    <2>1. CASE OpenPage
      BY <2>1, NoPageType DEF OpenPage, streamVars, StreamInv, StreamTypeOK
    <2>2. CASE LeavePage
      BY <2>2, NoPageType DEF LeavePage, streamVars, StreamInv, StreamTypeOK
    <2>3. CASE EditSession
      <3>1. PICK s \in Sessions : page' = [page EXCEPT !.session = s]
        BY <2>3 DEF EditSession
      <3>2. page' \in [open : BOOLEAN, session : Sessions, busy : BOOLEAN]
        BY <3>1 DEF StreamInv, StreamTypeOK
      <3> QED
        BY <2>3, <3>2 DEF EditSession, streamVars
    <2> QED
      BY <2>1, <2>2, <2>3
  <1>1. ~steady'
    BY DEF OpenPage, LeavePage, EditSession, StreamInv, Tracked
  <1>2. StreamTypeOK'
    BY <1>0 DEF StreamInv, StreamTypeOK
  <1>3. Quiet' /\ StoppableUntilStopped'
    BY <1>0 DEF StreamInv, Quiet, StoppableUntilStopped, Live, Alone
  <1> QED
    BY <1>1, <1>2, <1>3 DEF StreamInv, Tracked, BusyTracksStream

LEMMA StreamNext == StreamInv /\ [Next]_vars => StreamInv'
  <1> SUFFICES ASSUME StreamInv, [Next]_vars PROVE StreamInv'
    OBVIOUS
  <1>1. CASE UNCHANGED <<streamVars, pageVars>>
    BY <1>1 DEF streamVars, pageVars, StreamInv, StreamTypeOK, Quiet,
       StoppableUntilStopped, Tracked, BusyTracksStream, Live, Alone
  <1>2. CASE QuitAll
    <2>1. StreamTypeOK'
      <3>1. /\ task' \in [Streams -> {"none", "request", "streaming", "emit"} \cup Ended]
            /\ kind' \in [Streams -> {"chat", "agent"}]
            /\ session' \in [Streams -> Sessions]
        BY <1>2 DEF QuitAll
      <3>2. server' \in [Streams -> {0} \cup Serves] /\ late' \in [Streams -> 0..2]
        BY <1>2 DEF QuitAll
      <3> QED
        BY <1>2, <3>1, <3>2, NoPageType DEF QuitAll, StreamTypeOK
    <2>2. Quiet' /\ StoppableUntilStopped'
      BY <1>2 DEF QuitAll, Quiet, StoppableUntilStopped, Live
    <2> QED
      BY <1>2, <2>1, <2>2 DEF QuitAll, StreamInv, Tracked, BusyTracksStream
  <1>3. ASSUME NEW t \in Streams, Send(t) \/ RunAgent(t) \/ StreamStep(t)
        PROVE  StreamInv'
    BY <1>3, SendKeeps, RunAgentKeeps, StreamStepKeeps
  <1>4. CASE Stop
    BY <1>4, CancelKeeps DEF Stop, StreamInv, StreamTypeOK
  <1>5. ASSUME NEW s \in Sessions, StopAgent(s)
        PROVE  StreamInv'
    BY <1>5, CancelKeeps DEF StopAgent
  <1>6. CASE OpenPage \/ LeavePage \/ EditSession
    BY <1>6, PageKeeps
  <1>7. CASE StackStep
    BY <1>7, <1>1 DEF StackStep
  <1>8. CASE UNCHANGED vars
    BY <1>8, <1>1 DEF vars
  <1> QED
    BY <1>2, <1>3, <1>4, <1>5, <1>6, <1>7, <1>8 DEF Next

LEMMA StreamInvariant == Spec => []StreamInv
  BY StreamInit, StreamNext, PTL DEF Spec

(***************************************************************************)
(* Once its token is cancelled a stream shows the user one token at most   *)
(* (grpc/stream.rs looks at the token between two items only).             *)
(***************************************************************************)
THEOREM StoppedIsQuiet == Spec => []StoppedStaysQuiet
  <1>1. StreamInv => StoppedStaysQuiet
    BY DEF StreamInv, Quiet, StoppedStaysQuiet
  <1> QED
    BY <1>1, StreamInvariant, PTL

(***************************************************************************)
(* A stream that runs, alone in its session and not stopped, is the one    *)
(* the session's stop reaches (AppState.aborts, cancel_abort).             *)
(***************************************************************************)
THEOREM StopFindsStream == Spec => []StoppableUntilStopped
  <1>1. StreamInv => StoppableUntilStopped
    BY DEF StreamInv
  <1> QED
    BY <1>1, StreamInvariant, PTL

(***************************************************************************)
(* On a page that stays on a session of its own, the busy flag tells       *)
(* whether the last message's stream may still send tokens, or failed to   *)
(* begin (ChatPage.tsx and the events of grpc/stream.rs).                  *)
(***************************************************************************)
THEOREM BusyTellsStream == Spec => []BusyTracksStream
  <1>1. StreamInv => BusyTracksStream
    BY DEF StreamInv
  <1> QED
    BY <1>1, StreamInvariant, PTL

-----------------------------------------------------------------------------
(* The stack                                                               *)

(* A task before it stores the handle of a serve.                          *)
BeforeKeep == {"pg", "pgwait", "migrate", "llama", "llamawait", "read", "spawn", "keep"}

(* A task whose serve has the configuration in force.                      *)
Serving == {"keep", "wait", "announce", "connect", "ok"}

Owning == \A f \in Flows : own[f] # 0 <=> pc[f] = "keep"

NotRunning ==
  ~running => handle = 0 /\ phase = "Starting" /\ \A f \in Flows : pc[f] = "off"

OneAtWork == \A f, g \in Flows : Active(f) /\ Active(g) => f = g

HandleFree == \A f \in Flows : pc[f] \in BeforeKeep => handle = 0

Owned == \A p \in Serves : Living(p) => p = handle \/ \E f \in Flows : own[f] = p

GivenNow ==
  \A f \in Flows : pc[f] = "spawn" => given[f] = to_serve_env(vendor, KeyringKey)

(* A local backend that could not be restarted has the old model; an online*)
(* one has the right environment unless serve is about to be restarted.    *)
Works ==
  /\ \A f \in Flows : pc[f] # "stop"
  /\ vendor.kind = "online" \/ \E f \in Flows : pc[f] \in Serving
  => \A p \in Serves : Living(p) => WorksFor(p, vendor)

Answered == faults = 0 /\ pc["boot"] \in {"announce", "connect"} => Reachable

InOrder == OneAtWork /\ HandleFree /\ Owned /\ GivenNow /\ Works /\ Answered

(* What the places of the tasks and the handle say of each other.          *)
StackShape == StackTypeOK /\ Owning /\ NotRunning

StackInv == StackShape /\ ReadyIsUsable /\ (orderly /\ running => InOrder)

-----------------------------------------------------------------------------
(* The environment                                                         *)

(* What a variable is set to.                                              *)
LEMMA EnvGives ==
  ASSUME NEW pairs, NEW name, NEW value, <<name, value>> \in pairs,
         \A pair \in pairs : pair[1] = name => pair[2] = value
  PROVE  name \in DOMAIN EnvOf(pairs) /\ EnvOf(pairs)[name] = value
  <1> DEFINE chosen == CHOOSE pair \in pairs : pair[1] = name
  <1>1. chosen \in pairs /\ chosen[1] = name
    BY <<name, value>>[1] = name
  <1>2. name \in {pair[1] : pair \in pairs}
    BY <1>1
  <1>3. EnvOf(pairs)[name] = chosen[2]
    BY <1>2 DEF EnvOf
  <1> QED
    BY <1>1, <1>2, <1>3 DEF EnvOf

LEMMA EnvLacks ==
  ASSUME NEW pairs, NEW name, \A pair \in pairs : pair[1] # name
  PROVE  name \notin DOMAIN EnvOf(pairs)
  BY DEF EnvOf

LEMMA LocalEnvWorks ==
  ASSUME NEW v \in Configs, v.kind = "local"
  PROVE  EnvWorks(to_serve_env(v, KeyringKey), v)
  <1> DEFINE pairs == {<<"LLM_BACKEND", "local">>, <<"NES_BACKEND", "local">>,
                       <<"LLM_BASE_URL", LlamaUrl>>,
                       <<"LLM_MODEL", v.local_model>>, <<"MODEL_NAME", v.local_model>>}
             env == EnvOf(pairs)
  <1>1. to_serve_env(v, KeyringKey) = env
    BY DEF to_serve_env
  <1>2. /\ <<"LLM_BACKEND", "local">> \in pairs
        /\ <<"NES_BACKEND", "local">> \in pairs
        /\ <<"LLM_BASE_URL", LlamaUrl>> \in pairs
        /\ <<"LLM_MODEL", v.local_model>> \in pairs
    OBVIOUS
  <1>3. \A pair \in pairs :
          /\ pair[1] = "LLM_BACKEND" => pair[2] = "local"
          /\ pair[1] = "NES_BACKEND" => pair[2] = "local"
          /\ pair[1] = "LLM_BASE_URL" => pair[2] = LlamaUrl
          /\ pair[1] = "LLM_MODEL" => pair[2] = v.local_model
          /\ pair[1] # "LLM_API_KEY"
    OBVIOUS
  <1> HIDE DEF pairs
  <1>4. "LLM_BACKEND" \in DOMAIN env /\ env["LLM_BACKEND"] = "local"
    BY <1>2, <1>3, EnvGives
  <1>5. "NES_BACKEND" \in DOMAIN env /\ env["NES_BACKEND"] = "local"
    BY <1>2, <1>3, EnvGives
  <1>6. "LLM_BASE_URL" \in DOMAIN env /\ env["LLM_BASE_URL"] = LlamaUrl
    BY <1>2, <1>3, EnvGives
  <1>7. "LLM_MODEL" \in DOMAIN env /\ env["LLM_MODEL"] = v.local_model
    BY <1>2, <1>3, EnvGives
  <1>8. "LLM_API_KEY" \notin DOMAIN env
    BY <1>3, EnvLacks
  <1> HIDE DEF env
  <1> QED
    BY <1>1, <1>4, <1>5, <1>6, <1>7, <1>8
    DEF EnvWorks, from_map, build_llm, default_nes_backend, Client, Backend, Meant

LEMMA OnlineEnvWorks ==
  ASSUME NEW v \in Configs, v.kind = "online"
  PROVE  EnvWorks(to_serve_env(v, KeyringKey), v)
  <1> DEFINE pairs == {<<"LLM_BACKEND", "openai">>, <<"NES_BACKEND", "openai">>,
                       <<"LLM_MODEL", OnlineModel(v)>>}
                      \cup Given("LLM_BASE_URL", v.base_url)
                      \cup Given("LLM_API_KEY", KeyringKey)
             env == EnvOf(pairs)
  <1>1. to_serve_env(v, KeyringKey) = env
    BY DEF to_serve_env
  <1>2. /\ <<"LLM_BACKEND", "openai">> \in pairs
        /\ <<"NES_BACKEND", "openai">> \in pairs
        /\ <<"LLM_MODEL", OnlineModel(v)>> \in pairs
        /\ v.base_url # Absent => <<"LLM_BASE_URL", v.base_url>> \in pairs
        /\ KeyringKey # Absent => <<"LLM_API_KEY", KeyringKey>> \in pairs
    BY DEF Given
  <1>3. \A pair \in pairs :
          /\ pair[1] = "LLM_BACKEND" => pair[2] = "openai"
          /\ pair[1] = "NES_BACKEND" => pair[2] = "openai"
          /\ pair[1] = "LLM_MODEL" => pair[2] = OnlineModel(v)
          /\ pair[1] = "LLM_BASE_URL" => v.base_url # Absent /\ pair[2] = v.base_url
          /\ pair[1] = "LLM_API_KEY" => KeyringKey # Absent /\ pair[2] = KeyringKey
    BY DEF Given
  <1> HIDE DEF pairs
  <1>4. "LLM_BACKEND" \in DOMAIN env /\ env["LLM_BACKEND"] = "openai"
    BY <1>2, <1>3, EnvGives
  <1>5. "NES_BACKEND" \in DOMAIN env /\ env["NES_BACKEND"] = "openai"
    BY <1>2, <1>3, EnvGives
  <1>6. "LLM_MODEL" \in DOMAIN env /\ env["LLM_MODEL"] = OnlineModel(v)
    BY <1>2, <1>3, EnvGives
  <1>7. IF v.base_url = Absent THEN "LLM_BASE_URL" \notin DOMAIN env
        ELSE "LLM_BASE_URL" \in DOMAIN env /\ env["LLM_BASE_URL"] = v.base_url
    <2>1. CASE v.base_url = Absent
      BY <2>1, <1>3, EnvLacks
    <2>2. CASE v.base_url # Absent
      BY <2>2, <1>2, <1>3, EnvGives
    <2> QED
      BY <2>1, <2>2
  <1>8. IF KeyringKey = Absent THEN "LLM_API_KEY" \notin DOMAIN env
        ELSE "LLM_API_KEY" \in DOMAIN env /\ env["LLM_API_KEY"] = KeyringKey
    <2>1. CASE KeyringKey = Absent
      BY <2>1, <1>3, EnvLacks
    <2>2. CASE KeyringKey # Absent
      BY <2>2, <1>2, <1>3, EnvGives
    <2> QED
      BY <2>1, <2>2
  <1> HIDE DEF env
  <1> QED
    BY <1>1, <1>4, <1>5, <1>6, <1>7, <1>8
    DEF EnvWorks, from_map, build_llm, default_nes_backend, Client, Backend, Meant,
        OnlineModel, Absent, NoKey
(* Serve reads from its environment the backend that the settings mean.    *)
LEMMA ServeEnvWorks ==
  ASSUME NEW v \in Configs
  PROVE  EnvWorks(to_serve_env(v, KeyringKey), v)
  <1>1. v.kind \in {"local", "online"}
    BY DEF Configs, VendorConfig
  <1> QED
    BY <1>1, LocalEnvWorks, OnlineEnvWorks


-----------------------------------------------------------------------------
(* Types                                                                   *)

LEMMA ServeEnvType == ASSUME NEW v \in Configs PROVE to_serve_env(v, KeyringKey) \in EnvsOrNone
  BY DEF EnvsOrNone, Envs

LEMMA InitTypes == StackInit => StackTypeOK
  <1> SUFFICES ASSUME StackInit PROVE StackTypeOK
    OBVIOUS
  <1>1. Unborn \in Processes
    BY DEF Unborn, Processes, EnvsOrNone
  <1>2. /\ pc \in [Flows -> Places]
        /\ given \in [Flows -> EnvsOrNone]
        /\ own \in [Flows -> {0} \cup Serves]
    BY DEF StackInit, Places, EnvsOrNone
  <1>3. serve \in [Serves -> Processes]
    BY <1>1 DEF StackInit
  <1>4. /\ starts \in 0..MaxStarts /\ spawned \in 0..MaxServes
        /\ faults \in 0..MaxFaults /\ attempt \in Nat
    BY DesktopAssumption DEF StackInit
  <1>5. vendor \in Configs /\ phase \in Phases
    BY DesktopAssumption DEF StackInit, Phases
  <1> QED
    BY <1>2, <1>3, <1>4, <1>5 DEF StackInit, StackTypeOK

LEMMA BeginTypes ==
  ASSUME StackTypeOK, Launch \/ Quit
  PROVE  StackTypeOK'
  <1>1. CASE Launch
    <2>1. pc' \in [Flows -> Places]
      BY <1>1 DEF Launch, Places
    <2>2. starts' \in 0..MaxStarts /\ attempt' \in Nat /\ running' \in BOOLEAN /\ orderly' \in BOOLEAN
      BY <1>1, DesktopAssumption DEF Launch, StackTypeOK
    <2> QED
      BY <1>1, <2>1, <2>2 DEF Launch, StackTypeOK, serveVars
  <1>2. CASE Quit
    <2>1. pc' \in [Flows -> Places]
      BY <1>2 DEF Quit, Places
    <2>2. given' \in [Flows -> EnvsOrNone] /\ own' \in [Flows -> {0} \cup Serves]
      BY <1>2 DEF Quit, EnvsOrNone
    <2> QED
      BY <1>2, <2>1, <2>2, DesktopAssumption DEF Quit, StackTypeOK, serveVars, Phases
  <1> QED
    BY <1>1, <1>2

LEMMA BootTypes ==
  ASSUME StackTypeOK, BootStep
  PROVE  StackTypeOK'
  <1>1. pc' \in [Flows -> Places]
    BY DEF BootStep, StartPg, AwaitPg, Migrate, StartLlama, AwaitLlama, Announce, Retry,
       BootFails, Step, StackTypeOK, Places
  <1>2. phase' \in Phases
    <2>1. phase' \in {"Starting", "Ready", "Error", phase}
      BY DEF BootStep, StartPg, AwaitPg, Migrate, StartLlama, AwaitLlama, Announce,
         Retry, BootFails
    <2> QED
      BY <2>1 DEF StackTypeOK, Phases
  <1>3. attempt' \in Nat /\ orderly' \in BOOLEAN
    <2>1. \/ UNCHANGED <<attempt, orderly>>
          \/ attempt' = attempt + 1 /\ orderly' = (orderly /\ handle = 0)
      <3>1. CASE Retry
        BY <3>1 DEF Retry
      <3>2. CASE ~Retry
        BY <3>2 DEF BootStep, StartPg, AwaitPg, Migrate, StartLlama, AwaitLlama,
           Announce, bootUnchanged
      <3> QED
        BY <3>1, <3>2
    <2>2. CASE UNCHANGED <<attempt, orderly>>
      BY <2>2 DEF StackTypeOK
    <2>3. CASE attempt' = attempt + 1 /\ orderly' = (orderly /\ handle = 0)
      BY <2>3 DEF StackTypeOK
    <2> QED
      BY <2>1, <2>2, <2>3
  <1>4. UNCHANGED <<starts, running, vendor, handle, clients, given, own, serve, spawned, faults>>
    BY DEF BootStep, StartPg, AwaitPg, Migrate, StartLlama, AwaitLlama, Announce, Retry,
       bootUnchanged, appVars, serveVars
  <1> QED
    BY <1>1, <1>2, <1>3, <1>4 DEF StackTypeOK

LEMMA CommandTypes ==
  ASSUME StackTypeOK, NEW s \in Switches, Command(s) \/ StopCurrent(s) \/ Answer(s)
  PROVE  StackTypeOK'
  <1>0. s \in Flows
    BY DEF Flows
  <1>1. CASE SetVendorConfig(s)
    <2>1. pc' \in [Flows -> Places]
      BY <1>1, <1>0 DEF SetVendorConfig, Step, StackTypeOK, Places
    <2> QED
      BY <1>1, <2>1, DesktopAssumption
      DEF SetVendorConfig, StackTypeOK, NotesOverlap, appVars, taskVars, serveVars
  <1>2. CASE SetLocalModel(s)
    <2>1. pc' \in [Flows -> Places]
      BY <1>2, <1>0 DEF SetLocalModel, Step, StackTypeOK, Places
    <2>2. PICK m \in Models : vendor' = [vendor EXCEPT !.local_model = m]
      BY <1>2 DEF SetLocalModel
    <2>3. vendor' \in Configs
      BY <2>2 DEF StackTypeOK, Configs, VendorConfig
    <2> QED
      BY <1>2, <2>1, <2>3
      DEF SetLocalModel, StackTypeOK, NotesOverlap, appVars, taskVars, serveVars
  <1>3. CASE StopCurrent(s)
    <2>1. pc' \in [Flows -> Places]
      BY <1>3, <1>0 DEF StopCurrent, Step, StackTypeOK, Places
    <2>2. serve' \in [Serves -> Processes]
      BY <1>3 DEF StopCurrent, StackTypeOK, Processes, Gone, EnvsOrNone
    <2> QED
      BY <1>3, <2>1, <2>2 DEF StopCurrent, StackTypeOK, appVars, taskVars
  <1>4. CASE Answer(s)
    <2>1. pc' \in [Flows -> Places]
      BY <1>4, <1>0 DEF Answer, Step, StackTypeOK, Places
    <2> QED
      BY <1>4, <2>1 DEF Answer, StackTypeOK, appVars, taskVars, serveVars
  <1> QED
    BY <1>1, <1>2, <1>3, <1>4 DEF Command

LEMMA StartTypes ==
  ASSUME StackTypeOK, NEW f \in Flows, StartStep(f)
  PROVE  StackTypeOK'
  <1>1. pc' \in [Flows -> Places]
    BY DEF StartStep, ReadVendor, Spawn, KeepHandle, AwaitServe, Connect, ServeFails,
       BootFails, Step, StackTypeOK, Places
  <1>2. phase' \in Phases
    BY DEF StartStep, ReadVendor, Spawn, KeepHandle, AwaitServe, Connect, ServeFails,
       BootFails, StackTypeOK, Phases
  <1>3. given' \in [Flows -> EnvsOrNone]
    <2>1. to_serve_env(vendor, KeyringKey) \in EnvsOrNone
      BY ServeEnvType DEF StackTypeOK
    <2>2. EnvOf({}) \in EnvsOrNone
      BY DEF EnvsOrNone
    <2> QED
      BY <2>1, <2>2 DEF StartStep, ReadVendor, Spawn, KeepHandle, AwaitServe, Connect,
         StackTypeOK, taskVars
  <1>4. /\ serve' \in [Serves -> Processes] /\ spawned' \in 0..MaxServes
        /\ own' \in [Flows -> {0} \cup Serves]
    <2>1. CASE Spawn(f) /\ spawned < MaxServes /\ spawned' = spawned + 1
               /\ serve' = [serve EXCEPT ![spawned + 1] = Process("starting", given[f])]
               /\ own' = [own EXCEPT ![f] = spawned + 1]
      <3>1. Process("starting", given[f]) \in Processes
        BY DEF Process, Processes, StackTypeOK
      <3>2. spawned + 1 \in Serves /\ spawned' \in 0..MaxServes
        BY <2>1, DesktopAssumption DEF StackTypeOK, Serves
      <3> QED
        BY <2>1, <3>1, <3>2 DEF StackTypeOK
    <2>2. CASE UNCHANGED <<serve, spawned, own>>
      BY <2>2 DEF StackTypeOK
    <2>3. CASE KeepHandle(f)
      BY <2>3 DEF KeepHandle, StackTypeOK, serveVars
    <2> QED
      BY <2>1, <2>2, <2>3 DEF StartStep, ReadVendor, Spawn, AwaitServe, Connect,
         taskVars, serveVars
  <1>5. handle' \in {0} \cup Serves /\ clients' \in BOOLEAN
    BY DEF StartStep, ReadVendor, Spawn, KeepHandle, AwaitServe, Connect, StackTypeOK,
       AddressTaken
  <1>6. UNCHANGED <<starts, running, vendor, attempt, faults, orderly>>
    BY DEF StartStep, ReadVendor, Spawn, KeepHandle, AwaitServe, Connect, appVars,
       taskVars, serveVars
  <1> QED
    BY <1>1, <1>2, <1>3, <1>4, <1>5, <1>6 DEF StackTypeOK

LEMMA ProcessTypes ==
  ASSUME StackTypeOK, NEW p \in Serves, Listen(p) \/ Fail(p)
  PROVE  StackTypeOK'
  <1>1. /\ Gone \in Processes
        /\ Process("serving", serve[p].env) \in Processes
        /\ Process("mute", serve[p].env) \in Processes
    BY DEF Gone, Process, Processes, StackTypeOK, EnvsOrNone
  <1>2. serve' \in [Serves -> Processes]
    BY <1>1 DEF Listen, Fail, StackTypeOK
  <1>3. faults' \in 0..MaxFaults
    BY DesktopAssumption DEF Listen, Fail, StackTypeOK
  <1>4. UNCHANGED processUnchanged
    BY DEF Listen, Fail
  <1> QED
    BY <1>2, <1>3, <1>4 DEF StackTypeOK, processUnchanged, appVars, taskVars

(* Every step of the stack but the end of the application.                 *)
StackWork ==
  \/ Launch \/ BootStep \/ StartStep("boot")
  \/ \E s \in Switches : Command(s) \/ SwitchStep(s)
  \/ ProcessStep

LEMMA StackTypesKept ==
  ASSUME StackTypeOK, Quit \/ StackWork
  PROVE  StackTypeOK'
  <1>1. CASE Launch \/ Quit
    BY <1>1, BeginTypes
  <1>2. CASE BootStep
    BY <1>2, BootTypes
  <1>3. CASE StartStep("boot")
    BY <1>3, StartTypes, "boot" \in Flows DEF Flows
  <1>4. ASSUME NEW s \in Switches, Command(s) \/ SwitchStep(s)
        PROVE  StackTypeOK'
    <2>1. s \in Flows
      BY DEF Flows
    <2> QED
      BY <1>4, <2>1, CommandTypes, StartTypes DEF SwitchStep
  <1>5. CASE ProcessStep
    BY <1>5, ProcessTypes DEF ProcessStep
  <1> QED
    BY <1>1, <1>2, <1>3, <1>4, <1>5 DEF StackWork

-----------------------------------------------------------------------------
(* The order of one application run                                        *)

(* A task f moves on, and leaves everything but pc, and the variables of   *)
(* the bootstrap and the clients, as it is.                                *)
Moves(f, from, to) ==
  /\ Step(f, from, to)
  /\ UNCHANGED <<running, vendor, handle, given, own, serve, spawned, faults>>

LEMMA MovesKeeps ==
  ASSUME StackShape, NEW f \in Flows, NEW from, NEW to,
         Moves(f, from, to), from \notin {"off", "keep"}, to \notin {"spawn", "keep"}
  PROVE  Owning' /\ running
  <1>1. /\ pc \in [Flows -> Places] /\ pc[f] = from /\ pc' = [pc EXCEPT ![f] = to]
        /\ own' = own
    BY DEF Moves, Step, StackShape, StackTypeOK
  <1>2. running
    BY <1>1 DEF StackShape, NotRunning, StackTypeOK
  <1>3. Owning'
    BY <1>1 DEF StackShape, Owning
  <1> QED
    BY <1>2, <1>3

LEMMA MovesInOrder ==
  ASSUME StackShape, InOrder, NEW f \in Flows, NEW from, NEW to,
         Moves(f, from, to), Active(f), from # "keep",
         to \notin {"spawn", "keep", "stop"},
         to \in BeforeKeep => from \in BeforeKeep \/ handle = 0,
         to \in Serving => from \in Serving,
         f = "boot" /\ to \in {"announce", "connect"} => from = "announce" \/ Reachable,
         from = "stop" => \A p \in Serves : ~Living(p)
  PROVE  InOrder'
  <1>0. /\ pc \in [Flows -> Places] /\ pc[f] = from /\ pc' = [pc EXCEPT ![f] = to]
        /\ UNCHANGED <<vendor, handle, given, own, serve, faults>>
    BY DEF Moves, Step, StackShape, StackTypeOK
  <1>1. OneAtWork' /\ \A g \in Flows \ {f} : ~Active(g) /\ ~Active(g)'
    BY <1>0 DEF InOrder, OneAtWork, Active, Resting
  <1>2. HandleFree'
    BY <1>0 DEF InOrder, HandleFree
  <1>3. Owned'
    BY <1>0 DEF InOrder, Owned, Living
  <1>4. GivenNow'
    BY <1>0 DEF InOrder, GivenNow
  <1>5. Works'
    <2>1. \A p \in Serves : Living(p)' <=> Living(p)
      BY <1>0 DEF Living
    <2>2. CASE from = "stop"
      BY <2>1, <2>2 DEF Works
    <2>3. CASE from # "stop"
      <3>1. \A g \in Flows : pc[g] = "stop" => pc'[g] = "stop"
        BY <1>0, <2>3
      <3>2. \A g \in Flows : pc'[g] \in Serving => pc[g] \in Serving
        BY <1>0
      <3>3. \A p \in Serves : WorksFor(p, vendor)' <=> WorksFor(p, vendor)
        BY <1>0 DEF WorksFor
      <3> QED
        BY <1>0, <2>1, <3>1, <3>2, <3>3 DEF InOrder, Works
    <2> QED
      BY <2>2, <2>3
  <1>6. Answered'
    BY <1>0 DEF InOrder, Answered, Reachable
  <1> QED
    BY <1>1, <1>2, <1>3, <1>4, <1>5, <1>6 DEF InOrder

LEMMA BootKeeps ==
  ASSUME StackInv, BootStep
  PROVE  Owning' /\ NotRunning' /\ ReadyIsUsable' /\ (orderly' /\ running' => InOrder')
  <1>b. "boot" \in Flows
    BY DEF Flows
  <1>1. CASE StartPg \/ AwaitPg \/ Migrate \/ StartLlama \/ AwaitLlama
    <2>1. PICK from \in {"pg", "pgwait", "migrate", "llama", "llamawait"},
               to \in {"pgwait", "migrate", "llama", "llamawait", "read", "retry"} :
                 Step("boot", from, to)
      BY <1>1 DEF StartPg, AwaitPg, Migrate, StartLlama, AwaitLlama, BootFails
    <2>2. phase' # "Ready"
      BY <1>1 DEF StartPg, AwaitPg, Migrate, StartLlama, AwaitLlama, BootFails
    <2>3. UNCHANGED <<running, vendor, handle, given, own, serve, spawned, faults, orderly>>
      BY <1>1 DEF StartPg, AwaitPg, Migrate, StartLlama, AwaitLlama, bootUnchanged,
         appVars, serveVars
    <2>4. Moves("boot", from, to) /\ Active("boot") /\ from \in BeforeKeep
      BY <2>1, <2>3 DEF Moves, Active, Resting, Step, BeforeKeep
    <2>5. Owning' /\ running
      BY <2>1, <2>4, <1>b, MovesKeeps DEF StackInv
    <2>6. orderly' /\ running' => InOrder'
      BY <2>1, <2>3, <2>4, <1>b, MovesInOrder DEF StackInv, Serving
    <2> QED
      BY <2>2, <2>3, <2>5, <2>6 DEF NotRunning, ReadyIsUsable
  <1>2. CASE Announce
    <2>1. /\ Moves("boot", "announce", "connect") /\ Active("boot")
          /\ UNCHANGED orderly
      BY <1>2 DEF Announce, Moves, Active, Resting, Step, bootUnchanged, appVars, serveVars
    <2>2. Owning' /\ running
      BY <2>1, <1>b, MovesKeeps DEF StackInv
    <2>3. orderly' /\ running' => InOrder'
      BY <2>1, <1>b, MovesInOrder DEF StackInv, Serving, BeforeKeep, Moves
    <2>4. pc'["boot"] = "connect"
      BY <2>1, <1>b DEF Moves, Step, StackInv, StackShape, StackTypeOK
    <2> QED
      BY <2>1, <2>2, <2>3, <2>4 DEF Moves, NotRunning, ReadyIsUsable
  <1>3. CASE Retry
    <2>1. PICK to \in {"pg", "failed"} : Step("boot", "retry", to)
      BY <1>3 DEF Retry
    <2>2. /\ Moves("boot", "retry", to) /\ Active("boot")
          /\ UNCHANGED <<phase, clients>>
      BY <1>3, <2>1 DEF Retry, Moves, Active, Resting, Step, appVars, serveVars
    <2>3. Owning' /\ running
      BY <2>1, <2>2, <1>b, MovesKeeps DEF StackInv
    <2>4. /\ orderly' => orderly
          /\ orderly' /\ to = "pg" => handle = 0
      <3>1. pc'["boot"] = to
        BY <2>1, <1>b DEF Step, StackInv, StackShape, StackTypeOK
      <3>2. CASE orderly' = (orderly /\ handle = 0)
        BY <3>2
      <3>3. CASE Step("boot", "retry", "failed") /\ UNCHANGED orderly
        BY <3>1, <3>3, <1>b DEF Step, StackInv, StackShape, StackTypeOK
      <3> QED
        BY <1>3, <3>2, <3>3 DEF Retry
    <2>5. orderly' /\ running' => InOrder'
      BY <2>1, <2>2, <2>4, <1>b, MovesInOrder DEF StackInv, Serving, BeforeKeep, Moves
    <2>6. ReadyIsUsable'
      BY <2>1, <2>2, <2>4, <1>b
      DEF Moves, Step, StackInv, StackShape, StackTypeOK, ReadyIsUsable
    <2> QED
      BY <2>2, <2>3, <2>5, <2>6 DEF Moves, NotRunning
  <1> QED
    BY <1>1, <1>2, <1>3 DEF BootStep

LEMMA BeginKeeps ==
  ASSUME StackInv, Launch \/ Quit
  PROVE  Owning' /\ NotRunning' /\ ReadyIsUsable' /\ (orderly' /\ running' => InOrder')
  <1>1. CASE Launch
    <2>1. PICK first \in {"pg", "off"} :
            pc' = [f \in Flows |-> IF f = "boot" THEN first ELSE "idle"]
      BY <1>1 DEF Launch
    <2>2. /\ handle = 0 /\ phase = "Starting" /\ running'
          /\ \A f \in Flows : own[f] = 0
          /\ UNCHANGED <<vendor, phase, handle, own, serve, faults>>
          /\ orderly' => \A p \in Serves : ~Living(p)
      BY <1>1 DEF Launch, StackInv, StackShape, NotRunning, Owning, serveVars
    <2>3. Owning' /\ NotRunning' /\ ReadyIsUsable'
      BY <2>1, <2>2 DEF Owning, NotRunning, ReadyIsUsable
    <2>4. OneAtWork' /\ HandleFree' /\ GivenNow' /\ Answered'
      BY <2>1, <2>2 DEF OneAtWork, Active, Resting, HandleFree, GivenNow, Answered, Flows
    <2>5. orderly' => Owned' /\ Works'
      BY <2>2 DEF Owned, Works, Living
    <2> QED
      BY <2>3, <2>4, <2>5 DEF InOrder
  <1>2. CASE Quit
    BY <1>2 DEF Quit, Owning, NotRunning, ReadyIsUsable
  <1> QED
    BY <1>1, <1>2

(* The environment of an online configuration has nothing of the local     *)
(* model in it.                                                            *)
LEMMA OtherLocalModel ==
  ASSUME NEW v \in Configs, v.kind = "online", NEW m \in Models,
         NEW env, EnvWorks(env, v)
  PROVE  EnvWorks(env, [v EXCEPT !.local_model = m])
  <1> DEFINE w == [v EXCEPT !.local_model = m]
  <1>1. w.kind = v.kind /\ w.base_url = v.base_url /\ w.model = v.model
    BY DEF Configs, VendorConfig
  <1>2. Meant(w) = Meant(v)
    BY <1>1 DEF Meant
  <1> QED
    BY <1>2 DEF EnvWorks

LEMMA CommandKeeps ==
  ASSUME StackInv, NEW s \in Switches, Command(s)
  PROVE  Owning' /\ NotRunning' /\ ReadyIsUsable' /\ (orderly' /\ running' => InOrder')
  <1>1. s \in Flows /\ s # "boot"
    BY DesktopAssumption DEF Flows
  <1>2. PICK to \in {"stop", "ok", "err"} : Step(s, "idle", to)
    BY DEF Command, SetVendorConfig, SetLocalModel
  <1>3. /\ UNCHANGED <<running, phase, handle, clients, given, own, serve, faults>>
        /\ orderly' => orderly /\ \A f \in Flows : ~Active(f)
    BY DEF Command, SetVendorConfig, SetLocalModel, NotesOverlap, appVars, taskVars,
       serveVars
  <1>4. pc[s] = "idle" /\ pc' = [pc EXCEPT ![s] = to] /\ pc \in [Flows -> Places]
    BY <1>2 DEF Step, StackInv, StackShape, StackTypeOK
  <1>5. Owning' /\ NotRunning' /\ ReadyIsUsable'
    BY <1>1, <1>3, <1>4
    DEF StackInv, StackShape, Owning, NotRunning, ReadyIsUsable
  <1>6. ASSUME orderly', running'
        PROVE  OneAtWork' /\ HandleFree' /\ Owned' /\ GivenNow' /\ Answered'
    <2>1. InOrder /\ \A f \in Flows : ~Active(f)
      BY <1>3, <1>6 DEF StackInv
    <2>2. \A f \in Flows \ {s} : pc'[f] = pc[f] /\ pc[f] \in Resting
      BY <1>1, <1>4, <2>1 DEF Active
    <2>3. OneAtWork' /\ HandleFree' /\ GivenNow'
      BY <1>1, <1>4, <2>2 DEF OneAtWork, Active, Resting, HandleFree, GivenNow, BeforeKeep
    <2>4. Answered'
      BY <1>1, <1>4, <2>2, "boot" \in Flows DEF Answered, Resting, Flows
    <2>5. Owned'
      BY <1>3, <2>1 DEF InOrder, Owned, Living
    <2> QED
      BY <2>3, <2>4, <2>5
  <1>7. ASSUME orderly', running'
        PROVE  Works'
    <2>1. InOrder /\ \A f \in Flows : ~Active(f)
      BY <1>3, <1>7 DEF StackInv
    <2>2. CASE to = "stop"
      BY <2>2, <1>1, <1>4 DEF Works
    <2>3. CASE to # "stop" /\ SetLocalModel(s)
      <3>1. PICK m \in Models : vendor' = [vendor EXCEPT !.local_model = m]
        BY <2>3 DEF SetLocalModel
      <3>2. vendor \in Configs /\ vendor'.kind = vendor.kind
        BY <3>1 DEF StackInv, StackShape, StackTypeOK, Configs, VendorConfig
      <3>3. to = "ok" => vendor.kind = "online"
        BY <1>4, <1>1, <2>3, <3>2 DEF SetLocalModel, Step, Configs, VendorConfig
      <3>4. \A f \in Flows : pc'[f] \in Serving => vendor.kind = "online"
        BY <1>1, <1>4, <2>1, <2>3, <3>3 DEF Serving, Active, Resting
      <3>5. \A f \in Flows : pc[f] # "stop"
        BY <2>1 DEF Active, Resting
      <3>6. SUFFICES ASSUME vendor.kind = "online", NEW p \in Serves, Living(p)'
                     PROVE  WorksFor(p, vendor)'
        BY <3>2, <3>4 DEF Works
      <3>7. WorksFor(p, vendor)
        BY <1>3, <2>1, <3>5, <3>6 DEF InOrder, Works, Living
      <3> QED
        BY <1>3, <3>1, <3>2, <3>6, <3>7, OtherLocalModel DEF WorksFor
    <2>4. CASE to # "stop" /\ SetVendorConfig(s)
      BY <2>4, <1>1, <1>4 DEF SetVendorConfig, Step
    <2> QED
      BY <2>2, <2>3, <2>4 DEF Command
  <1> QED
    BY <1>5, <1>6, <1>7 DEF InOrder

(* The process of the handle is killed: no other lives.                    *)
LEMMA StopKeeps ==
  ASSUME StackInv, NEW s \in Switches, StopCurrent(s)
  PROVE  Owning' /\ NotRunning' /\ ReadyIsUsable' /\ (orderly' /\ running' => InOrder')
  <1>1. s \in Flows /\ s # "boot" /\ "boot" \in Flows
    BY DesktopAssumption DEF Flows
  <1>2. /\ pc[s] = "stop" /\ pc' = [pc EXCEPT ![s] = "read"] /\ pc \in [Flows -> Places]
        /\ handle' = 0 /\ UNCHANGED <<running, vendor, phase, clients, given, own, faults, orderly>>
        /\ serve' = IF handle = 0 THEN serve ELSE [serve EXCEPT ![handle] = Gone]
    BY DEF StopCurrent, Step, StackInv, StackShape, StackTypeOK, appVars, taskVars
  <1>3. Owning' /\ NotRunning' /\ ReadyIsUsable'
    BY <1>1, <1>2 DEF StackInv, StackShape, Owning, NotRunning, ReadyIsUsable
  <1>4. ASSUME orderly', running'
        PROVE  InOrder'
    <2>1. /\ InOrder /\ \A f \in Flows \ {s} : pc[f] \in Resting /\ pc'[f] = pc[f]
          /\ \A f \in Flows : own[f] = 0
      BY <1>1, <1>2, <1>4
      DEF StackInv, StackShape, InOrder, OneAtWork, Active, Resting, Owning
    <2>2. \A p \in Serves : ~Living(p)'
      <3>1. SUFFICES ASSUME NEW p \in Serves PROVE ~Living(p)'
        OBVIOUS
      <3>2. Living(p) => p = handle
        BY <2>1 DEF InOrder, Owned, Serves
      <3>3. serve \in [Serves -> Processes] /\ 0 \notin Serves
        BY DesktopAssumption DEF StackInv, StackShape, StackTypeOK, Serves
      <3> QED
        BY <1>2, <3>2, <3>3 DEF Living, Gone
    <2>3. OneAtWork' /\ HandleFree' /\ GivenNow' /\ Answered'
      BY <1>1, <1>2, <2>1 DEF OneAtWork, Active, Resting, HandleFree, GivenNow, Answered
    <2> QED
      BY <2>2, <2>3 DEF InOrder, Owned, Works
  <1> QED
    BY <1>3, <1>4

LEMMA AnswerKeeps ==
  ASSUME StackInv, NEW s \in Switches, Answer(s)
  PROVE  Owning' /\ NotRunning' /\ ReadyIsUsable' /\ (orderly' /\ running' => InOrder')
  <1>1. s \in Flows /\ s # "boot"
    BY DesktopAssumption DEF Flows
  <1>2. PICK from \in {"ok", "err"} : Step(s, from, "idle")
    BY DEF Answer
  <1>3. /\ Moves(s, from, "idle") /\ Active(s)
        /\ UNCHANGED <<phase, clients, orderly>>
    BY <1>2 DEF Answer, Moves, Active, Resting, Step, appVars, taskVars, serveVars
  <1>4. Owning' /\ running
    BY <1>1, <1>3, MovesKeeps DEF StackInv
  <1>5. orderly' /\ running' => InOrder'
    BY <1>1, <1>3, MovesInOrder DEF StackInv, Serving, BeforeKeep, Moves
  <1>6. ReadyIsUsable'
    BY <1>1, <1>3 DEF Moves, Step, StackInv, StackShape, StackTypeOK, ReadyIsUsable
  <1> QED
    BY <1>3, <1>4, <1>5, <1>6 DEF Moves, NotRunning

LEMMA ReadKeeps ==
  ASSUME StackInv, NEW f \in Flows, ReadVendor(f)
  PROVE  Owning' /\ NotRunning' /\ ReadyIsUsable' /\ (orderly' /\ running' => InOrder')
  <1>1. /\ pc[f] = "read" /\ pc' = [pc EXCEPT ![f] = "spawn"] /\ pc \in [Flows -> Places]
        /\ given' = [given EXCEPT ![f] = to_serve_env(vendor, KeyringKey)]
        /\ given \in [Flows -> EnvsOrNone]
        /\ UNCHANGED <<running, vendor, phase, handle, clients, own, serve, faults, orderly>>
    BY DEF ReadVendor, Step, StackInv, StackShape, StackTypeOK, appVars, serveVars
  <1>2. running
    BY <1>1 DEF StackInv, StackShape, NotRunning
  <1>3. Owning' /\ NotRunning' /\ ReadyIsUsable'
    BY <1>1, <1>2 DEF StackInv, StackShape, Owning, NotRunning, ReadyIsUsable
  <1>4. ASSUME orderly', running'
        PROVE  InOrder'
    <2>1. /\ InOrder /\ \A g \in Flows \ {f} : pc[g] \in Resting /\ pc'[g] = pc[g]
          /\ \A g \in Flows : own[g] = 0
      BY <1>1, <1>4
      DEF StackInv, StackShape, InOrder, OneAtWork, Active, Resting, Owning
    <2>2. handle = 0
      BY <1>1, <2>1 DEF InOrder, HandleFree, BeforeKeep
    <2>3. \A p \in Serves : ~Living(p)'
      BY <1>1, <2>1, <2>2, DesktopAssumption DEF InOrder, Owned, Living, Serves
    <2>4. OneAtWork' /\ HandleFree' /\ GivenNow'
      BY <1>1, <2>1, <2>2 DEF OneAtWork, Active, Resting, HandleFree, GivenNow
    <2>5. Answered'
      BY <1>1, <2>1, "boot" \in Flows DEF Answered, Resting, Flows
    <2> QED
      BY <2>3, <2>4, <2>5 DEF InOrder, Owned, Works
  <1> QED
    BY <1>3, <1>4

(* A serve could not be started, or the time to wait for one is up.        *)
LEMMA FailsKeeps ==
  ASSUME StackInv, NEW f \in Flows, NEW from \in {"spawn", "wait"}, NEW shown \in {"Serve", phase},
         ServeFails(f, from, shown),
         UNCHANGED <<running, vendor, handle, clients, own, serve, spawned, faults, orderly>>,
         given' = [given EXCEPT ![f] = EnvOf({})] \/ UNCHANGED given
  PROVE  Owning' /\ NotRunning' /\ ReadyIsUsable' /\ (orderly' /\ running' => InOrder')
  <1>1. PICK to \in {"retry", "err"} : Step(f, from, to) /\ (f = "boot" => phase' # "Ready")
        /\ (phase' = "Ready" => phase = "Ready")
    BY DEF ServeFails, BootFails
  <1>2. /\ pc[f] = from /\ pc' = [pc EXCEPT ![f] = to] /\ pc \in [Flows -> Places]
        /\ given \in [Flows -> EnvsOrNone]
    BY <1>1 DEF Step, StackInv, StackShape, StackTypeOK
  <1>3. running
    BY <1>2 DEF StackInv, StackShape, NotRunning
  <1>4. Owning' /\ NotRunning'
    BY <1>2, <1>3 DEF StackInv, StackShape, Owning, NotRunning
  <1>5. ReadyIsUsable'
    BY <1>1, <1>2 DEF StackInv, ReadyIsUsable
  <1>6. ASSUME orderly', running'
        PROVE  InOrder'
    <2>1. InOrder /\ \A g \in Flows \ {f} : pc[g] \in Resting /\ pc'[g] = pc[g]
      BY <1>2, <1>6 DEF StackInv, InOrder, OneAtWork, Active, Resting
    <2>2. OneAtWork' /\ HandleFree'
      BY <1>2, <2>1 DEF InOrder, OneAtWork, Active, Resting, HandleFree, BeforeKeep
    <2>3. GivenNow'
      BY <1>2, <2>1 DEF InOrder, GivenNow, Resting
    <2>4. Owned'
      BY <2>1 DEF InOrder, Owned, Living
    <2>5. Answered'
      BY <1>2, <2>1, "boot" \in Flows DEF Answered, Resting, Flows
    <2>6. Works'
      <3>1. CASE from = "wait"
        <4>1. \A g \in Flows : pc[g] # "stop"
          BY <1>2, <2>1, <3>1 DEF Resting
        <4>2. \A g \in Flows : pc'[g] \in Serving => pc[g] \in Serving
          BY <1>2 DEF Serving
        <4> QED
          BY <2>1, <4>1, <4>2 DEF InOrder, Works, Living, WorksFor
      <3>2. CASE from = "spawn"
        <4>1. handle = 0 /\ \A g \in Flows : own[g] = 0
          BY <1>2, <2>1, <3>2
          DEF StackInv, StackShape, InOrder, HandleFree, BeforeKeep, Owning, Resting
        <4>2. \A p \in Serves : ~Living(p)'
          BY <2>1, <4>1, DesktopAssumption DEF InOrder, Owned, Living, Serves
        <4> QED
          BY <4>2 DEF Works
      <3> QED
        BY <3>1, <3>2
    <2> QED
      BY <2>1, <2>2, <2>3, <2>4, <2>5, <2>6 DEF InOrder
  <1> QED
    BY <1>4, <1>5, <1>6

LEMMA SpawnKeeps ==
  ASSUME StackInv, NEW f \in Flows, Spawn(f)
  PROVE  Owning' /\ NotRunning' /\ ReadyIsUsable' /\ (orderly' /\ running' => InOrder')
  <1>1. CASE ServeFails(f, "spawn", "Serve") /\ UNCHANGED <<serve, spawned, own>>
    BY <1>1, FailsKeeps DEF Spawn, appVars
  <1>2. CASE /\ spawned < MaxServes
             /\ Step(f, "spawn", "keep")
             /\ phase' = "Serve"
             /\ serve' = [serve EXCEPT ![spawned + 1] = Process("starting", given[f])]
             /\ own' = [own EXCEPT ![f] = spawned + 1]
    <2>1. /\ pc[f] = "spawn" /\ pc' = [pc EXCEPT ![f] = "keep"] /\ pc \in [Flows -> Places]
          /\ given' = [given EXCEPT ![f] = EnvOf({})] /\ given \in [Flows -> EnvsOrNone]
          /\ own \in [Flows -> {0} \cup Serves] /\ serve \in [Serves -> Processes]
          /\ spawned + 1 \in Serves /\ spawned + 1 # 0
          /\ UNCHANGED <<running, vendor, handle, clients, faults, orderly>>
      BY <1>2, DesktopAssumption
      DEF Spawn, Step, StackInv, StackShape, StackTypeOK, appVars, Serves
    <2>2. Owning' /\ NotRunning' /\ ReadyIsUsable'
      BY <1>2, <2>1 DEF StackInv, StackShape, Owning, NotRunning, ReadyIsUsable
    <2>3. ASSUME orderly', running'
          PROVE  InOrder'
      <3>1. InOrder /\ \A g \in Flows \ {f} : pc[g] \in Resting /\ pc'[g] = pc[g]
        BY <2>1, <2>3 DEF StackInv, InOrder, OneAtWork, Active, Resting
      <3>2. handle = 0 /\ \A g \in Flows : own[g] = 0
        BY <2>1, <3>1
        DEF StackInv, StackShape, InOrder, HandleFree, BeforeKeep, Owning, Resting
      <3>3. \A p \in Serves : ~Living(p)
        BY <3>1, <3>2, DesktopAssumption DEF InOrder, Owned, Serves
      <3>4. \A p \in Serves : Living(p)' => p = spawned + 1
        BY <1>2, <2>1, <3>3 DEF Living
      <3>5. serve'[spawned + 1].env = given[f] /\ own'[f] = spawned + 1 /\ pc'[f] = "keep"
        BY <1>2, <2>1 DEF Process
      <3>6. OneAtWork' /\ HandleFree' /\ GivenNow'
        BY <2>1, <3>1, <3>2 DEF OneAtWork, Active, Resting, HandleFree, GivenNow
      <3>7. Answered'
        BY <2>1, <3>1, "boot" \in Flows DEF Answered, Resting, Flows
      <3>8. Owned'
        BY <3>4, <3>5 DEF Owned
      <3>9. EnvWorks(given[f], vendor)
        BY <2>1, <3>1, ServeEnvWorks DEF InOrder, GivenNow, StackInv, StackShape, StackTypeOK
      <3>10. Works'
        BY <2>1, <3>4, <3>5, <3>9 DEF Works, WorksFor
      <3> QED
        BY <3>6, <3>7, <3>8, <3>10 DEF InOrder
    <2> QED
      BY <2>2, <2>3
  <1> QED
    BY <1>1, <1>2 DEF Spawn

LEMMA KeepKeeps ==
  ASSUME StackInv, NEW f \in Flows, KeepHandle(f)
  PROVE  Owning' /\ NotRunning' /\ ReadyIsUsable' /\ (orderly' /\ running' => InOrder')
  <1>1. /\ pc[f] = "keep" /\ pc' = [pc EXCEPT ![f] = "wait"] /\ pc \in [Flows -> Places]
        /\ handle' = own[f] /\ own' = [own EXCEPT ![f] = 0]
        /\ own \in [Flows -> {0} \cup Serves]
        /\ UNCHANGED <<running, vendor, phase, clients, given, serve, faults, orderly>>
    BY DEF KeepHandle, Step, StackInv, StackShape, StackTypeOK, appVars, serveVars
  <1>2. running
    BY <1>1 DEF StackInv, StackShape, NotRunning
  <1>3. Owning' /\ NotRunning' /\ ReadyIsUsable'
    BY <1>1, <1>2 DEF StackInv, StackShape, Owning, NotRunning, ReadyIsUsable
  <1>4. ASSUME orderly', running'
        PROVE  InOrder'
    <2>1. InOrder /\ \A g \in Flows \ {f} : pc[g] \in Resting /\ pc'[g] = pc[g]
      BY <1>1, <1>4 DEF StackInv, InOrder, OneAtWork, Active, Resting
    <2>2. handle = 0 /\ \A g \in Flows \ {f} : own[g] = 0
      BY <1>1, <2>1
      DEF StackInv, StackShape, InOrder, HandleFree, BeforeKeep, Owning, Resting
    <2>3. \A p \in Serves : Living(p) => p = own[f]
      BY <2>1, <2>2, DesktopAssumption DEF InOrder, Owned, Serves
    <2>4. OneAtWork' /\ HandleFree' /\ GivenNow'
      BY <1>1, <2>1 DEF OneAtWork, Active, Resting, HandleFree, BeforeKeep, GivenNow
    <2>5. Answered'
      BY <1>1, <2>1, "boot" \in Flows DEF Answered, Resting, Flows
    <2>6. Owned'
      BY <1>1, <2>3 DEF Owned, Living
    <2>7. \A p \in Serves : Living(p) => WorksFor(p, vendor)
      BY <1>1, <2>1 DEF InOrder, Works, Serving, Resting
    <2>8. Works'
      BY <1>1, <2>7 DEF Works, Living, WorksFor
    <2> QED
      BY <2>4, <2>5, <2>6, <2>8 DEF InOrder
  <1> QED
    BY <1>3, <1>4

LEMMA AwaitKeeps ==
  ASSUME StackInv, NEW f \in Flows, AwaitServe(f)
  PROVE  Owning' /\ NotRunning' /\ ReadyIsUsable' /\ (orderly' /\ running' => InOrder')
  <1>1. UNCHANGED <<running, vendor, handle, clients, given, own, serve, spawned, faults, orderly>>
    BY DEF AwaitServe, appVars, taskVars, serveVars
  <1>2. CASE ServeFails(f, "wait", phase)
    BY <1>1, <1>2, FailsKeeps
  <1>3. CASE Reachable /\ phase' = "Serve"
             /\ Step(f, "wait", IF f = "boot" THEN "announce" ELSE "connect")
    <2>1. PICK to \in {"announce", "connect"} : Step(f, "wait", to) /\ Moves(f, "wait", to)
      BY <1>1, <1>3 DEF Moves
    <2>2. Active(f)
      BY <2>1 DEF Step, Active, Resting
    <2>3. Owning' /\ running
      BY <2>1, MovesKeeps DEF StackInv
    <2>4. orderly' /\ running' => InOrder'
      BY <1>1, <1>3, <2>1, <2>2, MovesInOrder DEF StackInv, Serving, BeforeKeep
    <2> QED
      BY <1>1, <1>3, <2>3, <2>4 DEF NotRunning, ReadyIsUsable
  <1> QED
    BY <1>2, <1>3 DEF AwaitServe

LEMMA ConnectKeeps ==
  ASSUME StackInv, NEW f \in Flows, Connect(f)
  PROVE  Owning' /\ NotRunning' /\ ReadyIsUsable' /\ (orderly' /\ running' => InOrder')
  <1>1. PICK to \in {"done", "ok"} : Step(f, "connect", to) /\ (f = "boot" <=> to = "done")
    BY DEF Connect
  <1>2. /\ Moves(f, "connect", to) /\ Active(f)
        /\ UNCHANGED <<phase, orderly>>
    BY <1>1 DEF Connect, Moves, Active, Resting, Step, appVars, taskVars, serveVars
  <1>3. Owning' /\ running
    BY <1>1, <1>2, MovesKeeps DEF StackInv
  <1>4. orderly' /\ running' => InOrder'
    BY <1>1, <1>2, MovesInOrder DEF StackInv, Serving, BeforeKeep, Moves
  <1>5. ReadyIsUsable'
    <2>1. SUFFICES ASSUME orderly', faults' = 0, phase' = "Ready"
                   PROVE  clients' \/ pc'["boot"] = "connect"
      BY DEF ReadyIsUsable
    <2>2. clients \/ pc["boot"] = "connect"
      BY <1>2, <2>1 DEF StackInv, ReadyIsUsable, Moves
    <2>3. clients' = (clients \/ AddressTaken)
      BY DEF Connect
    <2>4. CASE f = "boot"
      <3>1. pc["boot"] = "connect" /\ faults = 0
        BY <1>1, <1>2, <2>1, <2>4 DEF Step, Moves
      <3>2. Reachable
        BY <1>2, <1>3, <2>1, <3>1 DEF StackInv, InOrder, Answered
      <3> QED
        BY <2>3, <3>2 DEF Reachable, AddressTaken
    <2>5. CASE f # "boot"
      <3>1. pc'["boot"] = pc["boot"]
        BY <1>1, <2>5, "boot" \in Flows DEF Step, StackInv, StackShape, StackTypeOK, Flows
      <3> QED
        BY <2>2, <2>3, <3>1
    <2> QED
      BY <2>4, <2>5
  <1> QED
    BY <1>2, <1>3, <1>4, <1>5 DEF Moves, NotRunning

LEMMA ProcessKeeps ==
  ASSUME StackInv, NEW p \in Serves, Listen(p) \/ Fail(p)
  PROVE  Owning' /\ NotRunning' /\ ReadyIsUsable' /\ (orderly' /\ running' => InOrder')
  <1>1. /\ UNCHANGED <<running, vendor, phase, handle, clients, pc, given, own, orderly>>
        /\ serve \in [Serves -> Processes]
        /\ faults \in Nat
    BY DEF Listen, Fail, processUnchanged, appVars, taskVars, StackInv, StackShape, StackTypeOK
  <1>2. PICK became \in {Gone, Process("serving", serve[p].env), Process("mute", serve[p].env)} :
          serve' = [serve EXCEPT ![p] = became]
    BY DEF Listen, Fail
  <1>3. Living(p) /\ (became = Gone \/ became.env = serve[p].env)
    BY <1>2 DEF Listen, Fail, Living, Process
  <1>4. \A q \in Serves : Living(q)' => Living(q) /\ serve'[q].env = serve[q].env
    BY <1>1, <1>2, <1>3 DEF Living, Gone
  <1>5. faults' = 0 => faults = 0 /\ serve[p].state = "starting"
    BY <1>1 DEF Listen, Fail
  <1>6. faults' = 0 /\ Reachable => Reachable'
    BY <1>1, <1>2, <1>5 DEF Reachable
  <1>7. Owning' /\ NotRunning' /\ ReadyIsUsable'
    BY <1>1, <1>5 DEF StackInv, StackShape, Owning, NotRunning, ReadyIsUsable
  <1>8. ASSUME InOrder
        PROVE  InOrder'
    <2>1. OneAtWork' /\ HandleFree' /\ GivenNow'
      BY <1>1, <1>8 DEF InOrder, OneAtWork, Active, HandleFree, GivenNow
    <2>2. Answered'
      BY <1>1, <1>5, <1>6, <1>8 DEF InOrder, Answered
    <2>3. Owned'
      BY <1>1, <1>4, <1>8 DEF InOrder, Owned
    <2>4. Works'
      BY <1>1, <1>4, <1>8 DEF InOrder, Works, WorksFor
    <2> QED
      BY <2>1, <2>2, <2>3, <2>4 DEF InOrder
  <1> QED
    BY <1>1, <1>7, <1>8 DEF StackInv

LEMMA StackInvInit == Init => StackInv
  <1> SUFFICES ASSUME Init PROVE StackInv
    OBVIOUS
  <1>1. StackInit
    BY DEF Init
  <1>2. StackTypeOK
    BY <1>1, InitTypes
  <1>3. Owning /\ NotRunning /\ ReadyIsUsable /\ ~running
    BY <1>1 DEF StackInit, Owning, NotRunning, ReadyIsUsable
  <1> QED
    BY <1>2, <1>3 DEF StackInv, StackShape

LEMMA StackStepKeeps ==
  ASSUME StackInv, Quit \/ StackWork
  PROVE  StackInv'
  <1>1. StackTypeOK'
    BY StackTypesKept DEF StackInv, StackShape
  <1>2. Owning' /\ NotRunning' /\ ReadyIsUsable' /\ (orderly' /\ running' => InOrder')
    <2>1. CASE Launch \/ Quit
      BY <2>1, BeginKeeps
    <2>2. CASE BootStep
      BY <2>2, BootKeeps
    <2>3. ASSUME NEW f \in Flows, StartStep(f)
          PROVE  Owning' /\ NotRunning' /\ ReadyIsUsable' /\ (orderly' /\ running' => InOrder')
      BY <2>3, ReadKeeps, SpawnKeeps, KeepKeeps, AwaitKeeps, ConnectKeeps DEF StartStep
    <2>4. ASSUME NEW s \in Switches, Command(s) \/ StopCurrent(s) \/ Answer(s)
          PROVE  Owning' /\ NotRunning' /\ ReadyIsUsable' /\ (orderly' /\ running' => InOrder')
      BY <2>4, CommandKeeps, StopKeeps, AnswerKeeps
    <2>5. CASE ProcessStep
      BY <2>5, ProcessKeeps DEF ProcessStep
    <2> QED
      BY <2>1, <2>2, <2>3, <2>4, <2>5 DEF StackWork, SwitchStep, Flows
  <1> QED
    BY <1>1, <1>2 DEF StackInv, StackShape

LEMMA StackNextKeeps == StackInv /\ [Next]_vars => StackInv'
  <1> SUFFICES ASSUME StackInv, [Next]_vars PROVE StackInv'
    OBVIOUS
  <1>1. CASE Quit \/ StackWork
    BY <1>1, StackStepKeeps
  <1>2. CASE UNCHANGED stackVars
    <2>1. StackTypeOK' /\ Owning' /\ NotRunning' /\ ReadyIsUsable'
      BY <1>2 DEF stackVars, StackInv, StackShape, StackTypeOK, Owning, NotRunning,
         ReadyIsUsable
    <2>2. InOrder => InOrder'
      BY <1>2 DEF stackVars, InOrder, OneAtWork, Active, HandleFree, Owned, Living, GivenNow,
         Works, WorksFor, Answered, Reachable
    <2> QED
      BY <1>2, <2>1, <2>2 DEF stackVars, StackInv, StackShape
  <1>3. ASSUME NEW t \in Streams, Send(t) \/ RunAgent(t) \/ StreamStep(t)
        PROVE  UNCHANGED stackVars
    BY <1>3 DEF Send, RunAgent, StreamStep, Open, Refused, Receive, Emit, BreakOff,
       Finish, Break, Ends
  <1>4. CASE Stop \/ OpenPage \/ LeavePage \/ EditSession \/ \E s \in Sessions : StopAgent(s)
    BY <1>4, <1>2 DEF Stop, OpenPage, LeavePage, EditSession, StopAgent
  <1>5. CASE UNCHANGED vars
    BY <1>5, <1>2 DEF vars
  <1> QED
    BY <1>1, <1>2, <1>3, <1>4, <1>5 DEF Next, QuitAll, StackStep, StackWork

LEMMA StackInvariant == Spec => []StackInv
  BY StackInvInit, StackNextKeeps, PTL DEF Spec

(***************************************************************************)
(* stop_current finds the serve that lives: in an orderly run no serve     *)
(* escapes the handle (commands/connection.rs, bootstrap/serve.rs).        *)
(***************************************************************************)
THEOREM ServeStaysOwned == Spec => []OwnedWhenOrderly
  <1>1. StackInv => OwnedWhenOrderly
    BY DEF StackInv, InOrder, Owned, OwnedWhenOrderly
  <1> QED
    BY <1>1, StackInvariant, PTL

(***************************************************************************)
(* A command that answers Ok in an orderly run has switched both clients   *)
(* of serve to the configuration in force, whatever the vendors, models    *)
(* and key (to_serve_env, CoreConfig::from_map, build_llm).                *)
(***************************************************************************)
THEOREM SwitchSwitches == Spec => []OrderlySwitchTakesEffect
  <1>1. StackInv => OrderlySwitchTakesEffect
    <2>1. SUFFICES ASSUME StackInv, orderly, NEW s \in Switches, pc[s] = "ok",
                          NEW p \in Serves, serve[p].state = "serving"
                   PROVE  WorksFor(p, vendor)
      BY DEF OrderlySwitchTakesEffect, SwitchTakesEffect
    <2>2. s \in Flows
      BY DEF Flows
    <2>3. InOrder
      BY <2>1, <2>2 DEF StackInv, StackShape, NotRunning
    <2>4. \A f \in Flows : pc[f] # "stop"
      BY <2>1, <2>2, <2>3 DEF InOrder, OneAtWork, Active, Resting
    <2> QED
      BY <2>1, <2>2, <2>3, <2>4 DEF InOrder, Works, Serving, Living
  <1> QED
    BY <1>1, StackInvariant, PTL

(***************************************************************************)
(* Ready is announced for a stack whose clients exist or are about to      *)
(* (bootstrap/mod.rs announces it before it connects).                     *)
(***************************************************************************)
THEOREM ReadyHasClients == Spec => []ReadyIsUsable
  <1>1. StackInv => ReadyIsUsable
    BY DEF StackInv
  <1> QED
    BY <1>1, StackInvariant, PTL

(***************************************************************************)
(* Every variable keeps its type.                                          *)
(***************************************************************************)
THEOREM DesktopTypes == Spec => []TypeOK
  <1>1. StackInv /\ StreamInv => TypeOK
    BY DEF StackInv, StackShape, StreamInv, TypeOK
  <1> QED
    BY <1>1, StackInvariant, StreamInvariant, PTL

=============================================================================
