-------------------------------- MODULE Quest --------------------------------
(***************************************************************************)
(* One autonomous Quest (quest.rs): the goal is decomposed into subtasks,  *)
(* each subtask is driven by the ReAct loop of planner.rs, whose tool runs *)
(* pass the six-bit boundary, the approval gate and the self-healing       *)
(* executor (self_heal.rs) before they reach the base executor, and whose  *)
(* observations the validator turns into a verdict.                        *)
(*                                                                         *)
(* The whole quest is one sequential task.  What varies is what it waits   *)
(* for: the language model may plan any tool or fail at each call, a       *)
(* command may fail, and the number of parsed subtasks is the model's.     *)
(* pc names the await the task is at.                                      *)
(***************************************************************************)
EXTENDS Naturals, Sequences, FiniteSets, Governance

CONSTANTS
  Tools,           \* names of tools the language model may plan
  Perms,           \* bits of the principal the quest acts for
  AutoCommit,      \* QuestConfig::auto_commit
  EngineeringTools,\* whether the base executor is ShellTool
  MaxSubtasks,     \* QuestConfig::max_subtasks
  MaxSteps,        \* QuestConfig::max_steps, the planner's loop bound
  ValidatorSteps,  \* BasicValidator::max_steps, set apart from MaxSteps
  MaxRepair,       \* QuestConfig::max_repair_attempts
  MaxRetries,      \* QuestConfig::subtask_max_retries
  MaxParsed        \* bound of the model: subtasks in a decomposition

ASSUME BudgetAssumption ==
  /\ MaxSubtasks \in Nat
  /\ MaxSteps \in Nat
  /\ ValidatorSteps \in Nat
  /\ MaxRepair \in Nat
  /\ MaxRetries \in Nat
  /\ MaxParsed \in Nat \ {0}

ASSUME PolicyAssumption ==
  /\ Perms \subseteq PermBits
  /\ AutoCommit \in BOOLEAN
  /\ EngineeringTools \in BOOLEAN

VARIABLES
  pc,          \* where the task is
  status,      \* the SubTaskStatus of each subtask of the decomposition
  cur,         \* the subtask being executed, 0 before the first
  attempt,     \* attempts of cur that have failed
  step,        \* steps of the ReAct loop completed in this attempt
  tool,        \* the tool the current step planned
  repairs,     \* patched re-runs of the tool in this step
  obs,         \* the observation of the current step
  outcome,     \* what execute_subtask returned
  successes,   \* the report's tallies
  failures,
  pending,     \* the approvals collected
  llm_calls,   \* the counters of metrics.rs the quest moves
  tool_calls,
  denials,
  audit_events,
  runs,        \* history: runs of the base executor
  executed,    \* history: the tools among them
  riskyGrants, \* history: granted actions of a risky class
  edits        \* history: edits handed to the host

loopVars == <<step, tool, repairs, obs>>
history == <<runs, executed, riskyGrants, edits>>
metrics == <<llm_calls, tool_calls, denials, audit_events>>
tallies == <<successes, failures>>
vars == <<pc, status, cur, attempt, step, tool, repairs, obs, outcome,
          successes, failures, pending, llm_calls, tool_calls, denials,
          audit_events, runs, executed, riskyGrants, edits>>

SubTaskStatus == {"Pending", "Running", "Success", "Failed", "Skipped"}

(***************************************************************************)
(* An observation is told apart by three things: whether it is terminal,   *)
(* whether its text is exactly "task finished", and whether it came from   *)
(* a run the boundary authorized.                                          *)
(***************************************************************************)
Observations == [terminal : BOOLEAN, finished : BOOLEAN, authorized : BOOLEAN]

Neutral == [terminal |-> FALSE, finished |-> FALSE, authorized |-> TRUE]
Denied  == [terminal |-> FALSE, finished |-> FALSE, authorized |-> FALSE]
Finish  == [terminal |-> TRUE, finished |-> TRUE, authorized |-> TRUE]
Output  == [terminal |-> TRUE, finished |-> FALSE, authorized |-> TRUE]

(* The names ShellTool maps to a command, exactly as it spells them.       *)
ShellCommands ==
  {"sh", "shell", "git", "cargo", "cargo_build", "build", "cargo_check",
   "check", "cargo_test", "test"}

SpawnsCommand(t) == EngineeringTools /\ t \in ShellCommands

(***************************************************************************)
(* What the base executor may return.  BasicToolExecutor never fails and   *)
(* only "finish" is terminal; ShellTool makes every successful command     *)
(* terminal, with whatever the command printed as its text.                *)
(***************************************************************************)
BaseObservations(t) ==
  CASE SpawnsCommand(t)                  -> {Output, Finish}
    [] ~SpawnsCommand(t) /\ t = "finish" -> {Finish}
    [] OTHER                             -> {Neutral}

BaseMayFail(t) == SpawnsCommand(t)

Init ==
  /\ pc = "decompose"
  /\ status = <<>>
  /\ cur = 0
  /\ attempt = 0
  /\ step = 0
  /\ tool = "none"
  /\ repairs = 0
  /\ obs = Neutral
  /\ outcome = "none"
  /\ successes = 0
  /\ failures = 0
  /\ pending = <<>>
  /\ llm_calls = 0
  /\ tool_calls = 0
  /\ denials = 0
  /\ audit_events = 0
  /\ runs = 0
  /\ executed = {}
  /\ riskyGrants = 0
  /\ edits = 0

-----------------------------------------------------------------------------
(* Quest::run                                                              *)

(***************************************************************************)
(* Decomposition and the subtask budget: the parser always yields at least *)
(* one subtask (the goal itself when the model fails or numbers nothing),  *)
(* and those over the budget are marked before anything runs.              *)
(***************************************************************************)
OverBudget(i) == i > MaxSubtasks

Decompose ==
  /\ pc = "decompose"
  /\ \E n \in 1..MaxParsed :
       status' = [i \in 1..n |-> IF OverBudget(i) THEN "Skipped" ELSE "Pending"]
  /\ pc' = "select"
  /\ UNCHANGED <<cur, attempt, loopVars, outcome, tallies, pending, metrics,
                 history>>

(* The loop passes over the subtasks marked as skipped.                    *)
Admitted(i) == status[i] # "Skipped"

(* The next subtask the budget admits starts its first attempt.            *)
SelectSubtask ==
  /\ pc = "select"
  /\ cur < Len(status)
  /\ Admitted(cur + 1)
  /\ cur' = cur + 1
  /\ status' = [status EXCEPT ![cur + 1] = "Running"]
  /\ attempt' = 0
  /\ step' = 0
  /\ pc' = "think"
  /\ UNCHANGED <<tool, repairs, obs, outcome, tallies, pending, metrics,
                 history>>

NothingLeft_ButSkipped == cur = Len(status)
NothingLeft == \A i \in 1..Len(status) : i > cur => ~Admitted(i)

(* No subtask is left to run: the report is returned.                      *)
Report ==
  /\ pc = "select"
  /\ NothingLeft
  /\ pc' = "done"
  /\ UNCHANGED <<status, cur, attempt, loopVars, outcome, tallies, pending,
                 metrics, history>>

(* execute_subtask returned Ok(true).                                      *)
SubtaskSucceeds ==
  /\ pc = "returned"
  /\ outcome = "finished"
  /\ status' = [status EXCEPT ![cur] = "Success"]
  /\ successes' = successes + 1
  /\ pc' = "select"
  /\ UNCHANGED <<cur, attempt, loopVars, outcome, failures, pending, metrics,
                 history>>

RetryAllowed_OffByOne == attempt <= MaxRetries
RetryAllowed == attempt < MaxRetries

RetrySubtask_TalliesFailure ==
  /\ pc = "returned"
  /\ outcome # "finished"
  /\ RetryAllowed
  /\ attempt' = attempt + 1
  /\ failures' = failures + 1
  /\ step' = 0
  /\ pc' = "think"
  /\ UNCHANGED <<status, cur, tool, repairs, obs, outcome, successes, pending,
                 metrics, history>>

(* It returned Ok(false) or Err, and a further attempt is allowed.         *)
RetrySubtask ==
  /\ pc = "returned"
  /\ outcome # "finished"
  /\ RetryAllowed
  /\ attempt' = attempt + 1
  /\ step' = 0
  /\ pc' = "think"
  /\ UNCHANGED <<status, cur, tool, repairs, obs, outcome, tallies, pending,
                 metrics, history>>

(* The same with every attempt spent: the subtask is marked and left.      *)
SubtaskFails ==
  /\ pc = "returned"
  /\ outcome # "finished"
  /\ ~RetryAllowed
  /\ attempt' = attempt + 1
  /\ status' = [status EXCEPT ![cur] = "Failed"]
  /\ failures' = failures + 1
  /\ pc' = "select"
  /\ UNCHANGED <<cur, loopVars, outcome, successes, pending, metrics, history>>

-----------------------------------------------------------------------------
(* Planner::run                                                            *)

(* execute_subtask returns o to Quest::run.                                *)
Return(o) == pc' = "returned" /\ outcome' = o

(* The loop bound is reached with no verdict: the answer stays empty.      *)
StepsSpent ==
  /\ pc = "think"
  /\ step >= MaxSteps
  /\ Return("unfinished")
  /\ UNCHANGED <<status, cur, attempt, loopVars, tallies, pending, metrics,
                 history>>

(* Llm::think, counted before it is awaited; its error ends the attempt.   *)
Think ==
  /\ pc = "think"
  /\ step < MaxSteps
  /\ llm_calls' = llm_calls + 1
  /\ repairs' = 0
  /\ \/ pc' = "plan" /\ UNCHANGED outcome
     \/ Return("error")
  /\ UNCHANGED <<status, cur, attempt, step, tool, obs, tallies, pending,
                 tool_calls, denials, audit_events, history>>

(* Llm::plan_action: any tool, or an error that ends the attempt.          *)
PlanAction ==
  /\ pc = "plan"
  /\ \/ pc' = "authorize" /\ tool' \in Tools /\ UNCHANGED outcome
     \/ Return("error") /\ UNCHANGED tool
  /\ UNCHANGED <<status, cur, attempt, step, repairs, obs, tallies, pending,
                 metrics, history>>

(* authorize_and_record, granted: audited when the tool is privileged.     *)
Authorize ==
  /\ pc = "authorize"
  /\ Permitted(Perms, tool)
  /\ tool_calls' = tool_calls + 1
  /\ audit_events' = IF Privileged(tool) THEN audit_events + 1 ELSE audit_events
  /\ riskyGrants' = IF Risky(tool) THEN riskyGrants + 1 ELSE riskyGrants
  /\ pc' = "gate"
  /\ UNCHANGED <<status, cur, attempt, loopVars, outcome, tallies, pending,
                 llm_calls, denials, runs, executed, edits>>

(* authorize_and_record, denied: the loop goes on with a denial to read.   *)
Refuse ==
  /\ pc = "authorize"
  /\ ~Permitted(Perms, tool)
  /\ denials' = denials + 1
  /\ audit_events' = audit_events + 1
  /\ obs' = Denied
  /\ pc' = "observe"
  /\ UNCHANGED <<status, cur, attempt, step, tool, repairs, outcome, tallies,
                 pending, llm_calls, tool_calls, history>>

-----------------------------------------------------------------------------
(* QuestToolExecutor::run and SelfHeal::run                                *)

Deferred_OnlyExecute(t) == "Execute" \in ActionPermission(t) /\ ~AutoCommit
Deferred(t) == Risky(t) /\ ~AutoCommit

Approval == [tool |-> tool, subtask |-> cur]

Collected_LatestOnly == <<Approval>>
Collected == Append(pending, Approval)

(* The gate collects a risky action instead of running it.                 *)
DeferAction ==
  /\ pc = "gate"
  /\ Deferred(tool)
  /\ pending' = Collected
  /\ obs' = Neutral
  /\ pc' = "observe"
  /\ UNCHANGED <<status, cur, attempt, step, tool, repairs, outcome, tallies,
                 metrics, history>>

(* Every other action goes to the self-healing executor.                   *)
PassGate ==
  /\ pc = "gate"
  /\ ~Deferred(tool)
  /\ pc' = "run"
  /\ UNCHANGED <<status, cur, attempt, loopVars, outcome, tallies, pending,
                 metrics, history>>

BreakerTripped_OffByOne == repairs > MaxRepair
BreakerTripped == repairs >= MaxRepair

(***************************************************************************)
(* A run of the base executor, the first or a patched one.  A failure goes *)
(* to repair until the breaker trips, whose error ends the attempt.        *)
(***************************************************************************)
RunTool ==
  /\ pc = "run"
  /\ runs' = runs + 1
  /\ executed' = executed \cup {tool}
  /\ \/ /\ obs' \in BaseObservations(tool)
        /\ pc' = "observe"
        /\ UNCHANGED outcome
     \/ /\ BaseMayFail(tool)
        /\ ~BreakerTripped
        /\ pc' = "repair"
        /\ UNCHANGED <<obs, outcome>>
     \/ /\ BaseMayFail(tool)
        /\ BreakerTripped
        /\ Return("error")
        /\ UNCHANGED obs
  /\ UNCHANGED <<status, cur, attempt, step, tool, repairs, tallies, pending,
                 metrics, riskyGrants, edits>>

SuggestPatch_MayReplan ==
  /\ pc = "repair"
  /\ pc' = "run" /\ repairs' = repairs + 1 /\ tool' \in Tools
  /\ UNCHANGED <<status, cur, attempt, step, obs, outcome, tallies, pending,
                 metrics, history>>

(* suggest_patch: the same tool with a new argument, or the model's error. *)
SuggestPatch ==
  /\ pc = "repair"
  /\ \/ pc' = "run" /\ repairs' = repairs + 1 /\ UNCHANGED outcome
     \/ Return("error") /\ UNCHANGED repairs
  /\ UNCHANGED <<status, cur, attempt, step, tool, obs, tallies, pending,
                 metrics, history>>

-----------------------------------------------------------------------------
(* The end of a step: the edit, then the validator's verdict.              *)

(* BasicValidator::validate on the step just made, numbered from one.      *)
Verdict ==
  CASE obs.terminal                                  -> "Done"
    [] ~obs.terminal /\ step + 1 >= ValidatorSteps   -> "BudgetExhausted"
    [] OTHER                                         -> "Continue"

(* An authorized "modify", spelled exactly so, hands its edit to the host, *)
(* whose answer is ignored.                                                *)
ApplyEdit ==
  edits' = IF obs.authorized /\ tool = "modify" THEN edits + 1 ELSE edits

Observe ==
  /\ pc = "observe"
  /\ ApplyEdit
  /\ \/ /\ Verdict = "Continue"
        /\ step' = step + 1
        /\ pc' = "think"
        /\ UNCHANGED outcome
     \/ /\ Verdict = "Done"
        /\ Return(IF obs.finished THEN "finished" ELSE "unfinished")
        /\ UNCHANGED step
     \/ /\ Verdict = "BudgetExhausted"
        /\ Return("unfinished")
        /\ UNCHANGED step
  /\ UNCHANGED <<status, cur, attempt, tool, repairs, obs, tallies, pending,
                 metrics, runs, executed, riskyGrants>>

-----------------------------------------------------------------------------
Next ==
  \/ Decompose \/ SelectSubtask \/ Report
  \/ SubtaskSucceeds \/ RetrySubtask \/ SubtaskFails
  \/ StepsSpent \/ Think \/ PlanAction \/ Authorize \/ Refuse
  \/ DeferAction \/ PassGate \/ RunTool \/ SuggestPatch \/ Observe

(***************************************************************************)
(* The runtime polls the task until it returns, and every await it is at   *)
(* is assumed to come back: each request to a model has a timeout, a host  *)
(* edit is local, and a command is assumed to exit.                        *)
(***************************************************************************)
Spec == Init /\ [][Next]_vars /\ WF_vars(Next)


-----------------------------------------------------------------------------
(* Properties                                                              *)

TypeOK ==
  /\ pc \in {"decompose", "select", "think", "plan", "authorize", "gate",
             "run", "repair", "observe", "returned", "done"}
  /\ status \in Seq(SubTaskStatus)
  /\ cur \in 0..Len(status)
  /\ attempt \in Nat
  /\ step \in Nat
  /\ tool \in Tools \cup {"none"}
  /\ repairs \in 0..MaxRepair
  /\ obs \in Observations
  /\ outcome \in {"none", "finished", "unfinished", "error"}
  /\ successes \in Nat
  /\ failures \in Nat
  /\ pending \in Seq([tool : Tools, subtask : Nat])
  /\ llm_calls \in Nat
  /\ tool_calls \in Nat
  /\ denials \in Nat
  /\ audit_events \in Nat
  /\ runs \in Nat
  /\ executed \in SUBSET Tools
  /\ riskyGrants \in Nat
  /\ edits \in Nat

(***************************************************************************)
(* A tool that reached the base executor, at the first try or as a patched *)
(* re-run the boundary never sees, was permitted to the principal and,     *)
(* being risky, ran only because auto_commit is on; and the host was       *)
(* handed edits only when the principal may modify.                        *)
(***************************************************************************)
EffectsGoverned ==
  /\ \A t \in executed : Permitted(Perms, t) /\ (Risky(t) => AutoCommit)
  /\ edits > 0 => "Modify" \in Perms

(***************************************************************************)
(* No granted risky action is lost between the boundary and the report:    *)
(* with auto_commit off each of them is one pending approval, across all   *)
(* subtasks and attempts, and with it on none is ever collected.           *)
(***************************************************************************)
ApprovalsAccountForGrants ==
  Len(pending) = IF AutoCommit THEN 0
                 ELSE riskyGrants - (IF pc = "gate" /\ Risky(tool) THEN 1 ELSE 0)

(***************************************************************************)
(* The breaker: one authorization pays for the first run and MaxRepair     *)
(* patched ones, however the failures are spread, and a deferred action    *)
(* for none.                                                               *)
(***************************************************************************)
RunsCoveredByGrants ==
  runs <= (MaxRepair + 1) * (tool_calls - Len(pending))

(* The indices of the subtasks with status s.                              *)
WithStatus(s) == {i \in 1..Len(status) : status[i] = s}

(* The tallies of the report are those of its subtasks, in every state.    *)
TalliesMatchStatuses ==
  /\ successes = Cardinality(WithStatus("Success"))
  /\ failures = Cardinality(WithStatus("Failed"))

(***************************************************************************)
(* The loop over subtasks: those before cur are settled, cur is the only   *)
(* one that may be running, and those after it are untouched, exactly the  *)
(* ones over the budget being skipped; the report tallies them.            *)
(***************************************************************************)
SubtasksInOrder ==
  /\ \A i \in 1..Len(status) :
       /\ i < cur => status[i] \in {"Success", "Failed"}
       /\ i > cur => status[i] \in {"Pending", "Skipped"}
       /\ status[i] = "Skipped" <=> i > MaxSubtasks
       /\ status[i] = "Running" <=>
            i = cur /\ pc \notin {"select", "done", "decompose"}
  /\ pc = "done" => WithStatus("Pending") = {}
  /\ TalliesMatchStatuses

(***************************************************************************)
(* The Doom-loop budget: the steps of a whole quest are bounded by the     *)
(* subtask budget, the attempts of each and the smaller of the planner's   *)
(* and the validator's step bounds (which still lets one step be made).    *)
(***************************************************************************)
StepsPerAttempt ==
  IF ValidatorSteps = 0 THEN IF MaxSteps = 0 THEN 0 ELSE 1
  ELSE IF ValidatorSteps < MaxSteps THEN ValidatorSteps ELSE MaxSteps

WorkBounded ==
  llm_calls <= MaxSubtasks * (MaxRetries + 1) * StepsPerAttempt

(* The quest returns its report.                                           *)
QuestReturns == <>(pc = "done")

(***************************************************************************)
(* The governed-actions contract, with the ticket open from the boundary   *)
(* to the observation and its tries counted down by the patched re-runs.   *)
(***************************************************************************)
Contract == INSTANCE GovernedActions WITH
  MaxTries <- MaxRepair + 1,
  ticket   <- IF pc \in {"gate", "run", "repair"} THEN {tool} ELSE {},
  tries    <- IF pc \in {"gate", "run"} THEN MaxRepair + 1 - repairs
              ELSE IF pc = "repair" THEN MaxRepair - repairs
              ELSE 0,
  effects  <- executed,
  deferred <- Len(pending),
  denials  <- denials

(* Every behaviour of a quest is one the contract allows.                  *)
ImplementsContract == Contract!Spec

=============================================================================
