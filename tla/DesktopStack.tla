---------------------------- MODULE DesktopStack ----------------------------
(***************************************************************************)
(* The processes the desktop application starts and the two kinds of task  *)
(* that start them: the bootstrap task of one application run (bootstrap/, *)
(* PostgreSQL, then llama-server, then aidea serve, with a bounded number  *)
(* of attempts), and the commands that change the model backend and        *)
(* restart aidea serve (commands/connection.rs, commands/model.rs).        *)
(*                                                                         *)
(* The tasks run on threads of one runtime and meet in AppState, whose     *)
(* fields have a lock each; an action here is what a task does between two *)
(* locks or awaits.  Every program is started as a process of its own and  *)
(* found again by its address only: a probe of the address answers for     *)
(* whichever process holds it, and no process ends with the application.   *)
(***************************************************************************)
EXTENDS Naturals, CoreConfig

CONSTANTS
  Switches,    \* commands that change the backend, as many as may overlap
  Urls,        \* addresses of online vendors
  Models,      \* names of local models
  Names,       \* names of online models
  Vendors,     \* what the settings page saves
  Default,     \* the VendorConfig of AppState::new and of an empty store
  KeyringKey,  \* what the keyring holds under online_api_key
  Attempts,    \* bootstrap_stack_with_retry's attempts
  MaxServes,   \* bound of the model: serve processes ever spawned
  MaxFaults,   \* bound of the model: serve processes that fail while they serve
  MaxStarts    \* bound of the model: runs of the application

Configs == VendorConfig(Urls, Models, Names)
Serves == 1..MaxServes
Flows == {"boot"} \cup Switches

Envs == {to_serve_env(v, KeyringKey) : v \in Configs}

ASSUME DesktopAssumption ==
  /\ Vendors \subseteq Configs
  /\ Default \in Configs
  /\ Attempts \in Nat
  /\ MaxServes \in Nat
  /\ MaxFaults \in Nat
  /\ MaxStarts \in Nat
  /\ "boot" \notin Switches

VARIABLES
  starts,   \* how many times the application was started
  running,  \* whether it runs
  vendor,   \* AppState.vendor
  phase,    \* BootstrapHandles.phase
  handle,   \* BootstrapHandles.serve: a process, 0 for None
  clients,  \* whether AppState.grpc holds clients
  pc,       \* where each task is
  attempt,  \* which attempt the bootstrap task is at
  given,    \* the environment a task is about to start serve with
  own,      \* the process a task has spawned and not yet stored
  serve,    \* the serve processes
  spawned,  \* how many of them were ever spawned
  faults,   \* how many of them failed while they served
  orderly   \* history: neither a process of an earlier run, nor a second
            \* attempt, nor two tasks at once had a part in this run

appVars == <<starts, running>>
taskVars == <<attempt, given, own>>
serveVars == <<serve, spawned, faults>>
stackVars == <<starts, running, vendor, phase, handle, clients, pc, attempt,
               given, own, serve, spawned, faults, orderly>>

Unborn == [state |-> "unborn", env |-> EnvOf({})]
Gone == [state |-> "gone", env |-> EnvOf({})]
Process(state, env) == [state |-> state, env |-> env]

Living(p) == serve[p].state \in {"starting", "serving", "mute"}

(* A probe of GRPC_ADDR that is answered; one serve at most holds it.      *)
Reachable == \E p \in Serves : serve[p].state = "serving"
AddressTaken == \E p \in Serves : serve[p].state \in {"serving", "mute"}

Resting == {"off", "idle", "done", "failed"}
Active(f) == pc[f] \notin Resting

Step(f, from, to) == pc[f] = from /\ pc' = [pc EXCEPT ![f] = to]

StackInit ==
  /\ starts = 0
  /\ running = FALSE
  /\ vendor = Default
  /\ phase = "Starting"
  /\ handle = 0
  /\ clients = FALSE
  /\ pc = [f \in Flows |-> "off"]
  /\ attempt = 0
  /\ given = [f \in Flows |-> EnvOf({})]
  /\ own = [f \in Flows |-> 0]
  /\ serve = [p \in Serves |-> Unborn]
  /\ spawned = 0
  /\ faults = 0
  /\ orderly = TRUE

-----------------------------------------------------------------------------
(* The application                                                         *)

(* The setup hook: what set_auto_bootstrap has stored is read, whatever it *)
(* is; the configuration that set_vendor_config has stored is not.         *)
Launch ==
  /\ ~running
  /\ starts < MaxStarts
  /\ starts' = starts + 1
  /\ running' = TRUE
  /\ \E first \in {"pg", "off"} :
       pc' = [f \in Flows |-> IF f = "boot" THEN first ELSE "idle"]
  /\ attempt' = 1
  /\ orderly' = (\A p \in Serves : ~Living(p))
  /\ UNCHANGED <<vendor, phase, handle, clients, given, own, serveVars>>

(***************************************************************************)
(* The application exits.  Its tasks and its memory go, and AppState::new  *)
(* makes the latter anew; the processes it started stay.                   *)
(***************************************************************************)
Quit ==
  /\ running
  /\ running' = FALSE
  /\ vendor' = Default
  /\ phase' = "Starting"
  /\ handle' = 0
  /\ clients' = FALSE
  /\ pc' = [f \in Flows |-> "off"]
  /\ attempt' = 0
  /\ given' = [f \in Flows |-> EnvOf({})]
  /\ own' = [f \in Flows |-> 0]
  /\ UNCHANGED <<starts, serveVars, orderly>>

-----------------------------------------------------------------------------
(* The bootstrap task                                                      *)

bootUnchanged == <<appVars, vendor, handle, clients, given, own,
                   serveVars, orderly>>

(* Every failure of a mandatory part ends the attempt.                     *)
BootFails(from) == Step("boot", from, "retry") /\ phase' = "Error"

(***************************************************************************)
(* init_and_start, up to a server that answers: one that answers already   *)
(* is used as it is; otherwise initdb, unless there is a data directory,   *)
(* and pg_ctl, either of which may fail.                                   *)
(***************************************************************************)
StartPg ==
  /\ \/ Step("boot", "pg", "migrate") /\ phase' = "Starting"
     \/ Step("boot", "pg", "pgwait") /\ phase' = "Starting"
     \/ BootFails("pg")
  /\ UNCHANGED <<bootUnchanged, attempt>>

(* wait_pg_ready.                                                          *)
AwaitPg ==
  /\ \/ Step("boot", "pgwait", "migrate") /\ phase' = "Starting"
     \/ BootFails("pgwait")
  /\ UNCHANGED <<bootUnchanged, attempt>>

(* ensure_db_and_role and apply_migrations: what psql answers is ignored,  *)
(* a missing directory of migrations is not.                               *)
Migrate ==
  /\ \/ Step("boot", "migrate", "llama") /\ phase' = "Starting"
     \/ BootFails("migrate")
  /\ UNCHANGED <<bootUnchanged, attempt>>

(* llamacpp::start: a server that answers is used as it is; missing        *)
(* weights, a failure and a server that never answers are tolerated.       *)
StartLlama ==
  /\ Step("boot", "llama", "llamawait") \/ Step("boot", "llama", "read")
  /\ phase' = "Starting"
  /\ UNCHANGED <<bootUnchanged, attempt>>

AwaitLlama ==
  /\ Step("boot", "llamawait", "read")
  /\ phase' = "Starting"
  /\ UNCHANGED <<bootUnchanged, attempt>>

(* Ready is announced, and the one attempt to connect follows.             *)
Announce ==
  /\ Step("boot", "announce", "connect")
  /\ phase' = "Ready"
  /\ UNCHANGED <<bootUnchanged, attempt>>

(* bootstrap_stack_with_retry, after the pause that follows a failure.     *)
Retry_NotCounted ==
  /\ Step("boot", "retry", "pg")
  /\ orderly' = (orderly /\ handle = 0)
  /\ UNCHANGED <<appVars, vendor, phase, handle, clients, taskVars, serveVars>>
Retry ==
  /\ \/ /\ attempt < Attempts
        /\ Step("boot", "retry", "pg")
        /\ attempt' = attempt + 1
        /\ orderly' = (orderly /\ handle = 0)
     \/ /\ attempt >= Attempts
        /\ Step("boot", "retry", "failed")
        /\ UNCHANGED <<attempt, orderly>>
  /\ UNCHANGED <<appVars, vendor, phase, handle, clients, given, own,
                 serveVars>>

-----------------------------------------------------------------------------
(* The commands that change the backend                                    *)

(* History: a command that starts while another task is at work.           *)
NotesOverlap == orderly' = (orderly /\ \A f \in Flows : ~Active(f))

(* set_vendor_config, which changes nothing when the save fails.           *)
SetVendorConfig(s) ==
  /\ vendor' \in Vendors
  /\ Step(s, "idle", "stop")
  /\ NotesOverlap
  /\ UNCHANGED <<appVars, phase, handle, clients, taskVars, serveVars>>

(* set_local_model, whose save comes after the change and may fail.  Only  *)
(* a local backend needs serve again.                                      *)
SetLocalModel(s) ==
  /\ \E m \in Models : vendor' = [vendor EXCEPT !.local_model = m]
  /\ \/ Step(s, "idle", IF vendor.kind = "local" THEN "stop" ELSE "ok")
     \/ Step(s, "idle", "err")
  /\ NotesOverlap
  /\ UNCHANGED <<appVars, phase, handle, clients, taskVars, serveVars>>

(* stop_current: the process of the handle is killed under the lock.       *)
StopCurrent(s) ==
  /\ Step(s, "stop", "read")
  /\ serve' = IF handle = 0 THEN serve ELSE [serve EXCEPT ![handle] = Gone]
  /\ handle' = 0
  /\ UNCHANGED <<appVars, vendor, phase, clients, taskVars, spawned,
                 faults, orderly>>

(* The command answers the page, Ok or with an error.                      *)
Answer(s) ==
  /\ Step(s, "ok", "idle") \/ Step(s, "err", "idle")
  /\ UNCHANGED <<appVars, vendor, phase, handle, clients, taskVars, serveVars,
                 orderly>>

-----------------------------------------------------------------------------
(* start_with_vendor, for the bootstrap and for the commands               *)

(* The environment is made of the configuration read now.                  *)
ReadVendor(f) ==
  /\ Step(f, "read", "spawn")
  /\ given' = [given EXCEPT ![f] = to_serve_env(vendor, KeyringKey)]
  /\ UNCHANGED <<appVars, vendor, phase, handle, clients, attempt, own,
                 serveVars, orderly>>

(* start_with_env fails: the bootstrap ends its attempt with Error, a      *)
(* command leaves the phase where it is.                                   *)
ServeFails(f, from, shown) ==
  IF f = "boot" THEN BootFails(from) ELSE Step(f, from, "err") /\ phase' = shown

Spawn(f) ==
  /\ \/ /\ spawned < MaxServes
        /\ Step(f, "spawn", "keep")
        /\ phase' = "Serve"
        /\ spawned' = spawned + 1
        /\ serve' = [serve EXCEPT ![spawned + 1] = Process("starting", given[f])]
        /\ own' = [own EXCEPT ![f] = spawned + 1]
     \/ /\ ServeFails(f, "spawn", "Serve")
        /\ UNCHANGED <<serve, spawned, own>>
  /\ given' = [given EXCEPT ![f] = EnvOf({})]
  /\ UNCHANGED <<appVars, vendor, handle, clients, attempt, faults, orderly>>

(* The handle is stored, over whatever was stored before.                  *)
KeepHandle(f) ==
  /\ Step(f, "keep", "wait")
  /\ handle' = own[f]
  /\ own' = [own EXCEPT ![f] = 0]
  /\ UNCHANGED <<appVars, vendor, phase, clients, attempt, given,
                 serveVars, orderly>>

(***************************************************************************)
(* wait_until_ready asks the address until it is answered or time is up.   *)
(* The time is looked at between two questions only: one to a serve that   *)
(* is mute has no limit, and the task waits until that serve ends.         *)
(***************************************************************************)
AwaitServe_OneLook(f) ==
  /\ Step(f, "wait", IF f = "boot" THEN "announce" ELSE "connect")
  /\ phase' = "Serve"
  /\ UNCHANGED <<appVars, vendor, handle, clients, taskVars, serveVars,
                 orderly>>
AwaitServe(f) ==
  /\ \/ /\ Reachable
        /\ Step(f, "wait", IF f = "boot" THEN "announce" ELSE "connect")
        /\ phase' = "Serve"
     \/ /\ ~AddressTaken
        /\ ServeFails(f, "wait", phase)
  /\ UNCHANGED <<appVars, vendor, handle, clients, taskVars, serveVars,
                 orderly>>

(* ensure_connected, for which a connection is enough.  The task is done   *)
(* whether or not it connected.                                            *)
Connect(f) ==
  /\ Step(f, "connect", IF f = "boot" THEN "done" ELSE "ok")
  /\ clients' = (clients \/ AddressTaken)
  /\ UNCHANGED <<appVars, vendor, phase, handle, taskVars, serveVars,
                 orderly>>

-----------------------------------------------------------------------------
(* The processes                                                           *)

processUnchanged == <<appVars, vendor, phase, handle, clients, pc,
                      taskVars, spawned, orderly>>

(* A serve that starts listens, or exits because the address is taken or   *)
(* for a reason of its own.                                                *)
Listen(p) ==
  /\ serve[p].state = "starting"
  /\ \/ /\ ~AddressTaken
        /\ serve' = [serve EXCEPT ![p] = Process("serving", serve[p].env)]
     \/ serve' = [serve EXCEPT ![p] = Gone]
  /\ UNCHANGED <<processUnchanged, faults>>

(* One that serves exits, or blocks on the pipe of its output, which       *)
(* nobody reads.                                                           *)
Fail(p) ==
  /\ serve[p].state = "serving"
  /\ faults < MaxFaults
  /\ faults' = faults + 1
  /\ serve' \in {[serve EXCEPT ![p] = Gone],
                [serve EXCEPT ![p] = Process("mute", serve[p].env)]}
  /\ UNCHANGED processUnchanged

-----------------------------------------------------------------------------
BootStep ==
  \/ StartPg \/ AwaitPg \/ Migrate \/ StartLlama \/ AwaitLlama
  \/ Announce \/ Retry

StartStep(f) ==
  ReadVendor(f) \/ Spawn(f) \/ KeepHandle(f) \/ AwaitServe(f) \/ Connect(f)

SwitchStep(s) ==
  StopCurrent(s) \/ Answer(s) \/ StartStep(s)

(* The user begins a command.                                              *)
Command(s) == SetVendorConfig(s) \/ SetLocalModel(s)

ProcessStep == \E p \in Serves : Listen(p) \/ Fail(p)

StackNext ==
  \/ Launch \/ Quit
  \/ BootStep \/ StartStep("boot")
  \/ \E s \in Switches : Command(s) \/ SwitchStep(s)
  \/ ProcessStep

-----------------------------------------------------------------------------
Places == {"off", "idle", "done", "failed", "pg", "pgwait", "migrate", "llama",
           "llamawait", "read", "spawn", "keep", "wait", "announce", "connect",
           "retry", "stop", "ok", "err"}
Phases == {"Starting", "Serve", "Ready", "Error"}
EnvsOrNone == Envs \cup {EnvOf({})}
Processes == [state : {"unborn", "starting", "serving", "mute", "gone"}, env : EnvsOrNone]

(* The values of the stack's variables.                                    *)
StackTypeOK ==
  /\ starts \in 0..MaxStarts
  /\ running \in BOOLEAN
  /\ vendor \in Configs
  /\ phase \in Phases
  /\ handle \in {0} \cup Serves
  /\ clients \in BOOLEAN
  /\ pc \in [Flows -> Places]
  /\ attempt \in Nat
  /\ given \in [Flows -> EnvsOrNone]
  /\ own \in [Flows -> {0} \cup Serves]
  /\ serve \in [Serves -> Processes]
  /\ spawned \in 0..MaxServes
  /\ faults \in 0..MaxFaults
  /\ orderly \in BOOLEAN

=============================================================================
