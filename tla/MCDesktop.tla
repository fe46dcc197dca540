------------------------------ MODULE MCDesktop ------------------------------
(***************************************************************************)
(* Instances of Desktop for TLC: a local and an online configuration.      *)
(***************************************************************************)
EXTENDS Desktop, FiniteSets

MCDefault == [kind |-> "local", base_url |-> Absent, local_model |-> "nes-tab.gguf",
              model |-> Absent]
MCOnline == [kind |-> "online", base_url |-> "https://api.deepseek.com/v1",
             local_model |-> "nes-tab.gguf", model |-> Absent]
MCVendors == {MCDefault, MCOnline}

(***************************************************************************)
(* Bound of the runs.  The stack by itself is explored through all its     *)
(* attempts and restarts; the chat page and its streams in the first run   *)
(* of the application, once the first attempt is done: two streams before  *)
(* any command, beside a serve that does not fail if there are two, and    *)
(* agents of one of the two sessions, which are alike; and one chat of the *)
(* page's first session across a command.                                  *)
(***************************************************************************)
Used == {t \in Streams : task[t] # "none"}
InTurn == "t2" \in Used => "t1" \in Used

StackAlone == Used = {} /\ ~page.open
FirstAttemptDone == starts = 1 /\ pc["boot"] = "done" /\ attempt = 1
BeforeAnyCommand ==
  /\ spawned = 1
  /\ \A s \in Switches : pc[s] = "idle"
  /\ Cardinality(Used) <= 1 \/ faults = 0
  /\ \A t \in Used : kind[t] = "agent" => session[t] = FirstSession
OneChat ==
  /\ spawned <= 2 /\ faults = 0
  /\ Cardinality(Used) <= 1
  /\ \A t \in Used : kind[t] = "chat" /\ session[t] = FirstSession

Scope == InTurn /\ (StackAlone \/ (FirstAttemptDone /\ (BeforeAnyCommand \/ OneChat)))

=============================================================================
