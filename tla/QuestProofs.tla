----------------------------- MODULE QuestProofs -----------------------------
(***************************************************************************)
(* Proofs about Quest, for every set of tools, principal and budget.       *)
(*                                                                         *)
(* The inductive invariants carry along the pipeline of a tool run what    *)
(* the boundary decided: which actions past it are permitted, which past   *)
(* the gate may run, and how many runs the open ticket has been used for;  *)
(* and along the subtasks how each of them stands to the current one, and  *)
(* how many attempts are over with what they may have asked.               *)
(***************************************************************************)
EXTENDS Quest, SequenceTheorems, FiniteSetTheorems, TLAPS

(* A list with one entry replaced by another of the type keeps its type.   *)
LEMMA Relabel ==
  ASSUME NEW S, NEW s \in Seq(S), NEW i \in 1..Len(s), NEW e \in S
  PROVE  /\ [s EXCEPT ![i] = e] \in Seq(S)
         /\ Len([s EXCEPT ![i] = e]) = Len(s)
  BY ExceptSeq

(* The base executor returns observations.                                 *)
LEMMA BaseTyped == \A t : BaseObservations(t) \subseteq Observations
<1>1. {Neutral, Finish, Output} \subseteq Observations
  BY DEF Observations, Neutral, Finish, Output
<1>2. \A t : BaseObservations(t) \subseteq {Neutral, Finish, Output}
  BY DEF BaseObservations
<1> QED
  BY <1>1, <1>2

(* Where cur and repairs stand at each await.                              *)
Position ==
  /\ pc = "decompose" => cur = 0
  /\ pc \notin {"decompose", "select", "done"} => cur \in 1..Len(status)
  /\ pc = "repair" => repairs < MaxRepair
  /\ pc \in {"authorize", "gate", "run", "repair", "observe"} => tool \in Tools

Typed == TypeOK /\ Position

(* The types and positions hold together, each needing the other.          *)
LEMMA TypedAlways == Spec => []Typed
<1> USE BudgetAssumption, PolicyAssumption
        DEF Typed, Position, TypeOK, SubTaskStatus, Observations, Neutral, Denied, Finish,
            Output, loopVars, history, tallies, metrics
<1>1. Init => Typed
  BY DEF Init
<1>2. Typed /\ [Next]_vars => Typed'
  <2> SUFFICES ASSUME Typed, [Next]_vars
               PROVE  Typed'
    OBVIOUS
  <2>1. CASE Decompose
    <3>1. PICK n \in 1..MaxParsed :
            status' = [i \in 1..n |-> IF OverBudget(i) THEN "Skipped" ELSE "Pending"]
      BY <2>1 DEF Decompose
    <3>2. status' \in Seq(SubTaskStatus)
      BY <3>1, \A i \in 1..n : (IF OverBudget(i) THEN "Skipped" ELSE "Pending") \in SubTaskStatus
    <3> QED
      BY <2>1, <3>2 DEF Decompose
  <2>2. CASE SelectSubtask
    BY <2>2, Relabel DEF SelectSubtask
  <2>3. CASE Report
    BY <2>3 DEF Report
  <2>4. CASE SubtaskSucceeds
    BY <2>4, Relabel DEF SubtaskSucceeds
  <2>5. CASE RetrySubtask
    BY <2>5 DEF RetrySubtask
  <2>6. CASE SubtaskFails
    BY <2>6, Relabel DEF SubtaskFails
  <2>7. CASE StepsSpent
    BY <2>7 DEF StepsSpent, Return
  <2>8. CASE Think
    BY <2>8 DEF Think, Return
  <2>9. CASE PlanAction
    BY <2>9 DEF PlanAction, Return
  <2>10. CASE Authorize
    BY <2>10 DEF Authorize
  <2>11. CASE Refuse
    BY <2>11 DEF Refuse
  <2>12. CASE DeferAction
    BY <2>12 DEF DeferAction, Collected, Approval
  <2>13. CASE PassGate
    BY <2>13 DEF PassGate
  <2>14. CASE RunTool
    BY <2>14, BaseTyped DEF RunTool, Return, BreakerTripped
  <2>15. CASE SuggestPatch
    BY <2>15 DEF SuggestPatch, Return, BreakerTripped
  <2>16. CASE Observe
    BY <2>16 DEF Observe, ApplyEdit, Return
  <2>17. CASE UNCHANGED vars
    BY <2>17 DEF vars
  <2> QED
    BY <2>1, <2>2, <2>3, <2>4, <2>5, <2>6, <2>7, <2>8, <2>9, <2>10, <2>11,
       <2>12, <2>13, <2>14, <2>15, <2>16, <2>17 DEF Next
<1> QED
  BY <1>1, <1>2, PTL DEF Spec

(* Every variable of a quest keeps its type: in particular the repairs of  *)
(* a step stay within the breaker's bound and cur within the report.       *)
THEOREM TypeCorrect == Spec => []TypeOK
BY TypedAlways, PTL DEF Typed

-----------------------------------------------------------------------------
(* The boundary                                                            *)

(* "modify" is in lower case and governed by the Modify bit.               *)
LEMMA ModifyGoverned ==
  ASSUME NEW perms, Permitted(perms, "modify")
  PROVE  "Modify" \in perms
<1>1. Lowercase("modify") = "modify"
  BY DEF Lowercase, Spellings
<1>2. "modify" \in GovernedNames["Modify"] /\ "Modify" \in PermBits
  BY DEF GovernedNames, PermBits
<1>3. "Modify" \in ActionPermission("modify")
  BY <1>1, <1>2 DEF ActionPermission
<1> QED
  BY <1>3 DEF Permitted

(* What the boundary and the gate decided stays true of the tool while it  *)
(* travels to the base executor, to repair and back.                       *)
Licensed ==
  /\ pc \in {"gate", "run", "repair"} => Permitted(Perms, tool)
  /\ pc \in {"run", "repair"} => ~Deferred(tool)
  /\ pc = "observe" /\ obs.authorized => Permitted(Perms, tool)
  /\ EffectsGoverned

(* It is inductive: each await hands its licence to the next.              *)
LEMMA LicensedAlways == Spec => []Licensed
<1> USE DEF Licensed, EffectsGoverned, Deferred, loopVars, history, tallies, metrics
<1>1. Init => Licensed
  BY DEF Init
<1>2. TypeOK /\ Licensed /\ [Next]_vars => Licensed'
  <2> SUFFICES ASSUME TypeOK, Licensed, [Next]_vars
               PROVE  Licensed'
    OBVIOUS
  <2> USE DEF TypeOK
  <2>1. CASE Decompose \/ SelectSubtask \/ Report
    BY <2>1 DEF Decompose, SelectSubtask, Report
  <2>2. CASE SubtaskSucceeds \/ RetrySubtask \/ SubtaskFails
    BY <2>2 DEF SubtaskSucceeds, RetrySubtask, SubtaskFails
  <2>3. CASE StepsSpent \/ Think \/ PlanAction
    BY <2>3 DEF StepsSpent, Think, PlanAction, Return
  <2>4. CASE Authorize
    BY <2>4 DEF Authorize
  <2>5. CASE Refuse
    BY <2>5 DEF Refuse, Denied
  <2>6. CASE DeferAction
    BY <2>6 DEF DeferAction
  <2>7. CASE PassGate
    BY <2>7 DEF PassGate
  <2>8. CASE RunTool
    BY <2>8 DEF RunTool, Return
  <2>9. CASE SuggestPatch
    BY <2>9 DEF SuggestPatch, Return
  <2>10. CASE Observe
    <3>1. edits' > 0 => "Modify" \in Perms
      BY <2>10, ModifyGoverned DEF Observe, ApplyEdit
    <3> QED
      BY <2>10, <3>1 DEF Observe, Return
  <2>11. CASE UNCHANGED vars
    BY <2>11 DEF vars
  <2> QED
    BY <2>1, <2>2, <2>3, <2>4, <2>5, <2>6, <2>7, <2>8, <2>9, <2>10, <2>11 DEF Next
<1> QED
  BY <1>1, <1>2, TypeCorrect, PTL DEF Spec

(* No tool runs and no edit is made beyond the principal's bits and the    *)
(* auto_commit policy, whatever is planned, repaired or retried.           *)
THEOREM Governed == Spec => []EffectsGoverned
BY LicensedAlways, PTL DEF Licensed

-----------------------------------------------------------------------------
(* The contract                                                            *)

(* The contract classifies tools as the quest does.                        *)
LEMMA SameClasses ==
  ASSUME NEW t
  PROVE  /\ Contract!Permitted(Perms, t) <=> Permitted(Perms, t)
         /\ Contract!Risky(t) <=> Risky(t)
<1>1. Contract!ActionPermission(t) = ActionPermission(t)
  BY DEF Contract!ActionPermission, ActionPermission, Contract!Lowercase, Lowercase,
         Contract!Spellings, Spellings, Contract!GovernedNames, GovernedNames,
         Contract!PermBits, PermBits
<1> QED
  BY <1>1 DEF Contract!Permitted, Permitted, Contract!Risky, Risky

(* What the mapped steps start from: a fresh ticket has all its tries.     *)
FreshTicket == pc \in {"plan", "authorize", "gate"} => repairs = 0

(* Every quest is a behaviour of the governed-actions contract: a step at  *)
(* the boundary, the gate or the base executor is a step of the contract,  *)
(* and every other step is invisible to it.                                *)
THEOREM Implements == Spec => ImplementsContract
<1> USE BudgetAssumption DEF Typed, TypeOK, Position, Licensed, FreshTicket,
        loopVars, history, tallies, metrics
<1>1. Init => Contract!Init
  BY DEF Init, Contract!Init
<1>2. Init => FreshTicket
  BY DEF Init
<1>3. Typed /\ FreshTicket /\ [Next]_vars => FreshTicket'
  BY DEF Next, vars, Decompose, SelectSubtask, Report, SubtaskSucceeds, RetrySubtask,
         SubtaskFails, StepsSpent, Think, PlanAction, Authorize, Refuse,
         DeferAction, PassGate, RunTool, SuggestPatch, Observe, Return
<1>4. Typed /\ Licensed /\ FreshTicket /\ [Next]_vars
        => [Contract!Next]_(Contract!vars)
  <2> SUFFICES ASSUME Typed, Licensed, FreshTicket, [Next]_vars
               PROVE  [Contract!Next]_(Contract!vars)
    OBVIOUS
  <2>1. CASE Decompose \/ SelectSubtask \/ Report
    BY <2>1 DEF Decompose, SelectSubtask, Report, Contract!vars
  <2>2. CASE SubtaskSucceeds \/ RetrySubtask \/ SubtaskFails
    BY <2>2 DEF SubtaskSucceeds, RetrySubtask, SubtaskFails, Contract!vars
  <2>3. CASE StepsSpent \/ Think \/ PlanAction
    BY <2>3 DEF StepsSpent, Think, PlanAction, Return, Contract!vars
  <2>4. CASE Authorize
    <3>1. Contract!Grant(tool)
      BY <2>4, SameClasses DEF Authorize, Contract!Grant
    <3> QED
      BY <2>4, <3>1 DEF Contract!Next, Authorize
  <2>5. CASE Refuse
    <3>1. Contract!Deny(tool)
      BY <2>5, SameClasses DEF Refuse, Contract!Deny
    <3> QED
      BY <2>5, <3>1 DEF Contract!Next, Refuse
  <2>6. CASE DeferAction
    <3>1. Contract!Defer(tool)
      BY <2>6, SameClasses
         DEF DeferAction, Deferred, Collected, Approval, Contract!Defer
    <3> QED
      BY <2>6, <3>1 DEF Contract!Next, DeferAction
  <2>7. CASE PassGate
    BY <2>7 DEF PassGate, Contract!vars
  <2>8. CASE RunTool
    <3>1. Contract!Perform(tool)
      BY <2>8, SameClasses
         DEF RunTool, Deferred, BreakerTripped, Return, Contract!Perform
    <3> QED
      BY <2>8, <3>1 DEF Contract!Next, RunTool
  <2>9. CASE SuggestPatch
    <3>1. CASE pc' = "run"
      BY <2>9, <3>1 DEF SuggestPatch, Return, Contract!vars
    <3>2. CASE pc' = "returned"
      BY <2>9, <3>2 DEF SuggestPatch, Return, Contract!Next, Contract!GiveUp
    <3> QED
      BY <2>9, <3>1, <3>2 DEF SuggestPatch, Return
  <2>10. CASE Observe
    BY <2>10 DEF Observe, Return, Contract!vars
  <2>11. CASE UNCHANGED vars
    BY <2>11 DEF vars, Contract!vars
  <2> QED
    BY <2>1, <2>2, <2>3, <2>4, <2>5, <2>6, <2>7, <2>8, <2>9, <2>10, <2>11 DEF Next
<1> QED
  BY <1>1, <1>2, <1>3, <1>4, TypedAlways, LicensedAlways, PTL
     DEF Spec, ImplementsContract, Contract!Spec

-----------------------------------------------------------------------------
(* The gate and the breaker                                                *)

(* Whether the open ticket is of an action still to be deferred, and how   *)
(* many runs it has been used for.                                         *)
AtGate == pc = "gate" /\ Risky(tool)
TicketOpen == pc \in {"gate", "run", "repair"}
Used == (IF pc \in {"run", "repair"} THEN repairs ELSE 0)
          + (IF pc = "repair" THEN 1 ELSE 0)

GateAccount ==
  /\ ~AutoCommit => riskyGrants = Len(pending) + (IF AtGate THEN 1 ELSE 0)
  /\ AutoCommit => Len(pending) = 0
  /\ pc \in {"run", "repair"} => ~Deferred(tool)

(* Every granted risky action of the whole quest is in the report when the *)
(* gate is closed, and nothing is when it is open.                         *)
THEOREM ApprovalsAccounted == Spec => []ApprovalsAccountForGrants
<1> USE DEF GateAccount, AtGate, Deferred, loopVars, history, tallies, metrics
<1>1. Init => GateAccount
  BY DEF Init
<1>2. TypeOK /\ GateAccount /\ [Next]_vars => GateAccount'
  <2> SUFFICES ASSUME TypeOK, GateAccount, [Next]_vars
               PROVE  GateAccount'
    OBVIOUS
  <2> USE DEF TypeOK
  <2>1. CASE Decompose \/ SelectSubtask \/ Report
    BY <2>1 DEF Decompose, SelectSubtask, Report
  <2>2. CASE SubtaskSucceeds \/ RetrySubtask \/ SubtaskFails
    BY <2>2 DEF SubtaskSucceeds, RetrySubtask, SubtaskFails
  <2>3. CASE StepsSpent \/ Think \/ PlanAction \/ Refuse
    BY <2>3 DEF StepsSpent, Think, PlanAction, Refuse, Return
  <2>4. CASE Authorize
    BY <2>4 DEF Authorize
  <2>5. CASE DeferAction
    BY <2>5 DEF DeferAction, Collected
  <2>6. CASE PassGate
    BY <2>6 DEF PassGate
  <2>7. CASE RunTool
    BY <2>7 DEF RunTool, Return
  <2>8. CASE SuggestPatch
    BY <2>8 DEF SuggestPatch, Return
  <2>9. CASE Observe
    BY <2>9 DEF Observe, Return
  <2>10. CASE UNCHANGED vars
    BY <2>10 DEF vars
  <2> QED
    BY <2>1, <2>2, <2>3, <2>4, <2>5, <2>6, <2>7, <2>8, <2>9, <2>10 DEF Next
<1>3. TypeOK /\ GateAccount => ApprovalsAccountForGrants
  BY DEF TypeOK, ApprovalsAccountForGrants
<1> QED
  BY <1>1, <1>2, <1>3, TypeCorrect, PTL DEF Spec

(* One more grant is worth MaxRepair + 1 more runs.                        *)
LEMMA OneMoreGrant ==
  ASSUME NEW k \in Nat, NEW g \in Int
  PROVE  k * g \in Int /\ k * (g + 1) = k * g + k
  OBVIOUS

(* The account of runs after a step that leaves the closed grants alone,   *)
(* and after one that closes the open ticket.                              *)
LEMMA AccountStep ==
  ASSUME NEW k \in Nat, NEW g \in Int, NEW h \in Int, NEW r \in Int,
         NEW q \in Int, NEW u \in Int, NEW v \in Int,
         r <= k * g + u,
         \/ h = g /\ q - r <= v - u
         \/ h = g + 1 /\ v = 0 /\ q - r <= k - u
  PROVE  q <= k * h + v
<1> DEFINE p == k * g
<1>1. p \in Int /\ k * (g + 1) = p + k
  BY OneMoreGrant
<1> HIDE DEF p
<1>2. CASE h = g /\ q - r <= v - u
  <2>1. r <= p + u /\ k * h = p
    BY <1>2 DEF p
  <2> QED
    BY <1>1, <1>2, <2>1
<1>3. CASE h = g + 1 /\ v = 0 /\ q - r <= k - u
  <2>1. r <= p + u /\ k * h = p + k
    BY <1>1, <1>3 DEF p
  <2> QED
    BY <1>1, <1>3, <2>1
<1> QED
  BY <1>2, <1>3

(* The grants whose ticket is closed and was not a deferral.               *)
Closed == tool_calls - Len(pending) - (IF TicketOpen THEN 1 ELSE 0)

RunAccount ==
  /\ Closed >= 0
  /\ pc \in {"plan", "authorize", "gate"} => repairs = 0
  /\ runs <= (MaxRepair + 1) * Closed + Used

(* What a step does to the account, the two ways AccountStep tells apart.  *)
AccountMove ==
  \/ Closed' = Closed /\ runs' - runs <= Used' - Used
  \/ Closed' = Closed + 1 /\ Used' = 0 /\ runs' - runs <= MaxRepair + 1 - Used

LEMMA EveryStepMoves ==
  ASSUME Typed, RunAccount, [Next]_vars
  PROVE  /\ AccountMove
         /\ Closed' >= 0
         /\ (pc \in {"plan", "authorize", "gate"} => repairs = 0)'
         /\ Closed \in Int /\ Closed' \in Int /\ Used \in Int /\ Used' \in Int
         /\ runs \in Int /\ runs' \in Int
<1>0. Closed >= 0 /\ (pc \in {"plan", "authorize", "gate"} => repairs = 0)
  BY DEF RunAccount
<1> USE <1>0, BudgetAssumption
        DEF AccountMove, Closed, Used, TicketOpen, Typed, TypeOK, Position,
            loopVars, history, tallies, metrics
<1>1. CASE Decompose
  BY <1>1 DEF Decompose
<1>2. CASE SelectSubtask
  BY <1>2 DEF SelectSubtask
<1>3. CASE Report
  BY <1>3 DEF Report
<1>4. CASE SubtaskSucceeds
  BY <1>4 DEF SubtaskSucceeds
<1>5. CASE RetrySubtask
  BY <1>5 DEF RetrySubtask
<1>6. CASE SubtaskFails
  BY <1>6 DEF SubtaskFails
<1>7. CASE StepsSpent
  BY <1>7 DEF StepsSpent, Return
<1>8. CASE Think
  BY <1>8 DEF Think, Return
<1>9. CASE PlanAction
  BY <1>9 DEF PlanAction, Return
<1>10. CASE Refuse
  BY <1>10 DEF Refuse
<1>11. CASE Authorize
  BY <1>11 DEF Authorize
<1>12. CASE DeferAction
  BY <1>12 DEF DeferAction, Collected, Approval
<1>13. CASE PassGate
  BY <1>13 DEF PassGate
<1>14. CASE RunTool
  BY <1>14 DEF RunTool, Return, BreakerTripped
<1>15. CASE SuggestPatch
  BY <1>15 DEF SuggestPatch, Return
<1>16. CASE Observe
  BY <1>16 DEF Observe, Return
<1>17. CASE UNCHANGED vars
  BY <1>17 DEF vars
<1> QED
  BY <1>1, <1>2, <1>3, <1>4, <1>5, <1>6, <1>7, <1>8, <1>9, <1>10, <1>11,
     <1>12, <1>13, <1>14, <1>15, <1>16, <1>17 DEF Next

(* However failures are spread over steps, attempts and subtasks, the base *)
(* executor runs at most MaxRepair + 1 times for each granted action, and  *)
(* not at all for a deferred one.                                          *)
THEOREM BreakerHolds == Spec => []RunsCoveredByGrants
<1>1. Init => RunAccount
  BY BudgetAssumption DEF Init, RunAccount, Closed, Used, TicketOpen
<1>2. Typed /\ RunAccount /\ [Next]_vars => RunAccount'
  <2> SUFFICES ASSUME Typed, RunAccount, [Next]_vars
               PROVE  RunAccount'
    OBVIOUS
  <2>1. runs' <= (MaxRepair + 1) * Closed' + Used'
    BY EveryStepMoves, AccountStep, BudgetAssumption,
       MaxRepair + 1 \in Nat DEF RunAccount, AccountMove
  <2> QED
    BY <2>1, EveryStepMoves DEF RunAccount
<1>3. Typed /\ RunAccount => RunsCoveredByGrants
  <2> SUFFICES ASSUME Typed, RunAccount
               PROVE  RunsCoveredByGrants
    OBVIOUS
  <2> DEFINE g == tool_calls - Len(pending)
  <2>1. /\ Closed \in Int /\ Used \in Int /\ runs \in Int
        /\ \/ g = Closed /\ Used = 0
           \/ g = Closed + 1 /\ Used <= MaxRepair + 1
    BY BudgetAssumption DEF Closed, Used, TicketOpen, Typed, TypeOK, Position
  <2>2. g \in Int
    BY DEF Typed, TypeOK
  <2> HIDE DEF g
  <2>3. runs <= (MaxRepair + 1) * g + 0
    BY <2>1, <2>2, AccountStep, BudgetAssumption, MaxRepair + 1 \in Nat
       DEF RunAccount
  <2> QED
    BY <2>1, <2>2, <2>3, BudgetAssumption DEF g, RunsCoveredByGrants
<1> QED
  BY <1>1, <1>2, <1>3, TypedAlways, PTL DEF Spec

-----------------------------------------------------------------------------
(* The order of the subtasks and the tallies of the report                 *)

(* The indices at which the list s holds e.                                *)
At(s, e) == {i \in 1..Len(s) : s[i] = e}

(* A list holds each value finitely often.                                 *)
LEMMA AtFinite ==
  ASSUME NEW S, NEW s \in Seq(S), NEW e
  PROVE  IsFiniteSet(At(s, e)) /\ Cardinality(At(s, e)) \in Nat
<1>1. IsFiniteSet(1..Len(s))
  BY FS_Interval, Len(s) \in Nat
<1>2. IsFiniteSet(At(s, e))
  BY <1>1, FS_Subset DEF At
<1> QED
  BY <1>2, FS_CardinalityType

(* A status given to a subtask that had another adds one to those with it. *)
LEMMA StatusGained ==
  ASSUME NEW s \in Seq(SubTaskStatus), NEW i \in 1..Len(s), NEW t,
         NEW e \in SubTaskStatus, t = [s EXCEPT ![i] = e], s[i] # e
  PROVE  Cardinality(At(t, e)) = Cardinality(At(s, e)) + 1
<1>1. Len(t) = Len(s) /\ \A j \in 1..Len(s) : t[j] = IF j = i THEN e ELSE s[j]
  BY Relabel
<1>2. At(t, e) = At(s, e) \cup {i} /\ i \notin At(s, e)
  BY <1>1 DEF At
<1> QED
  BY <1>2, AtFinite, FS_AddElement

(* Between two subtasks the last one started is settled, and before the    *)
(* decomposition there are none.                                           *)
Settled ==
  /\ pc = "decompose" => status = <<>>
  /\ pc \in {"select", "done"} /\ cur > 0 => status[cur] \in {"Success", "Failed"}

(* The part of SubtasksInOrder about one subtask.                          *)
InOrder(i) ==
  /\ i < cur => status[i] \in {"Success", "Failed"}
  /\ i > cur => status[i] \in {"Pending", "Skipped"}
  /\ status[i] = "Skipped" <=> i > MaxSubtasks
  /\ status[i] = "Running" <=> i = cur /\ pc \notin {"select", "done", "decompose"}

Ordered == Settled /\ \A i \in 1..Len(status) : InOrder(i)

(* The tallies only move with the status they count.                       *)
LEMMA TalliesKept ==
  ASSUME Typed, Ordered, TalliesMatchStatuses, [Next]_vars
  PROVE  TalliesMatchStatuses'
<1> USE DEF TalliesMatchStatuses, tallies
<1>0. /\ \A e : WithStatus(e) = At(status, e)
      /\ \A e : WithStatus(e)' = At(status', e)
      /\ status \in Seq(SubTaskStatus)
  BY DEF WithStatus, At, Typed, TypeOK
<1>1. CASE Decompose
  <2>1. PICK n \in 1..MaxParsed :
          status' = [i \in 1..n |-> IF OverBudget(i) THEN "Skipped" ELSE "Pending"]
    BY <1>1 DEF Decompose
  <2>2. n \in Nat
    BY <2>1, BudgetAssumption
  <2>3. Len(status') = n
    BY <2>1, <2>2
  <2>4. At(status', "Success") = {} /\ At(status', "Failed") = {}
    BY <2>1, <2>3 DEF At
  <2>5. At(status, "Success") = {} /\ At(status, "Failed") = {}
    BY <1>1 DEF Decompose, Ordered, Settled, At
  <2> QED
    BY <1>0, <1>1, <2>4, <2>5 DEF Decompose
<1>2. CASE SelectSubtask
  <2>1. cur + 1 \in 1..Len(status)
    BY <1>2 DEF SelectSubtask, Typed, TypeOK
  <2>2. status[cur + 1] \in {"Pending", "Skipped"}
    BY <2>1 DEF Ordered, InOrder, Typed, TypeOK
  <2>3. status' = [status EXCEPT ![cur + 1] = "Running"] /\ "Running" \in SubTaskStatus
    BY <1>2 DEF SelectSubtask, SubTaskStatus
  <2>4. status[cur + 1] # "Success" /\ status[cur + 1] # "Failed"
    BY <2>2
  <2>5. /\ Len(status') = Len(status)
        /\ \A i \in 1..Len(status) :
             status'[i] = IF i = cur + 1 THEN "Running" ELSE status[i]
    BY <1>0, <2>1, <2>3, Relabel
  <2>6. At(status', "Success") = At(status, "Success")
    BY <2>1, <2>4, <2>5 DEF At
  <2>7. At(status', "Failed") = At(status, "Failed")
    BY <2>1, <2>4, <2>5 DEF At
  <2> QED
    BY <1>0, <1>2, <2>6, <2>7 DEF SelectSubtask
<1>3. CASE SubtaskSucceeds
  <2>1. cur \in 1..Len(status) /\ status[cur] = "Running"
        /\ status[cur] # "Success" /\ status[cur] # "Failed"
    BY <1>3 DEF SubtaskSucceeds, Typed, Position, Ordered, InOrder
  <2>2. status' = [status EXCEPT ![cur] = "Success"] /\ "Success" \in SubTaskStatus
    BY <1>3 DEF SubtaskSucceeds, SubTaskStatus
  <2>3. Cardinality(At(status', "Success")) = Cardinality(At(status, "Success")) + 1
    BY <1>0, <2>1, <2>2, StatusGained, Zenon
  <2>4. /\ Len(status') = Len(status)
        /\ \A i \in 1..Len(status) :
             status'[i] = IF i = cur THEN "Success" ELSE status[i]
    BY <1>0, <2>1, <2>2, Relabel
  <2>5. At(status', "Failed") = At(status, "Failed")
    BY <2>1, <2>4 DEF At
  <2> QED
    BY <1>0, <1>3, <2>3, <2>5 DEF SubtaskSucceeds
<1>4. CASE SubtaskFails
  <2>1. cur \in 1..Len(status) /\ status[cur] = "Running"
        /\ status[cur] # "Failed" /\ status[cur] # "Success"
    BY <1>4 DEF SubtaskFails, Typed, Position, Ordered, InOrder
  <2>2. status' = [status EXCEPT ![cur] = "Failed"] /\ "Failed" \in SubTaskStatus
    BY <1>4 DEF SubtaskFails, SubTaskStatus
  <2>3. Cardinality(At(status', "Failed")) = Cardinality(At(status, "Failed")) + 1
    BY <1>0, <2>1, <2>2, StatusGained, Zenon
  <2>4. /\ Len(status') = Len(status)
        /\ \A i \in 1..Len(status) :
             status'[i] = IF i = cur THEN "Failed" ELSE status[i]
    BY <1>0, <2>1, <2>2, Relabel
  <2>5. At(status', "Success") = At(status, "Success")
    BY <2>1, <2>4 DEF At
  <2> QED
    BY <1>0, <1>4, <2>3, <2>5 DEF SubtaskFails
<1>5. CASE UNCHANGED <<status, successes, failures>>
  BY <1>0, <1>5
<1> QED
  BY <1>1, <1>2, <1>3, <1>4, <1>5
     DEF Next, vars, Report, RetrySubtask, StepsSpent, Think, PlanAction, Authorize,
         Refuse, DeferAction, PassGate, RunTool, SuggestPatch, Observe

(* Each step keeps the subtasks in order.                                  *)
LEMMA OrderKept ==
  ASSUME Typed, Ordered, [Next]_vars
  PROVE  Ordered'
<1> USE DEF Ordered, Settled, InOrder, Typed, Position
<1>0. status \in Seq(SubTaskStatus) /\ cur \in 0..Len(status) /\ Len(status) \in Nat
  BY DEF TypeOK
<1>1. CASE Decompose
  <2>1. PICK n \in 1..MaxParsed :
          status' = [i \in 1..n |-> IF OverBudget(i) THEN "Skipped" ELSE "Pending"]
    BY <1>1 DEF Decompose
  <2>2. n \in Nat
    BY <2>1, BudgetAssumption
  <2>3. Len(status') = n
    BY <2>1, <2>2
  <2>4. cur' = 0 /\ pc' = "select"
    BY <1>1 DEF Decompose
  <2> QED
    BY <2>1, <2>3, <2>4 DEF OverBudget
<1>2. CASE SelectSubtask
  <2>1. cur + 1 \in 1..Len(status)
    BY <1>0, <1>2 DEF SelectSubtask
  <2>2. /\ Len(status') = Len(status)
        /\ \A i \in 1..Len(status) :
             status'[i] = IF i = cur + 1 THEN "Running" ELSE status[i]
    BY <1>0, <1>2, <2>1, Relabel DEF SelectSubtask, SubTaskStatus
  <2>3. pc = "select" /\ pc' = "think" /\ cur' = cur + 1 /\ status[cur + 1] # "Skipped"
    BY <1>2 DEF SelectSubtask, Admitted
  <2> QED
    BY <1>0, <2>1, <2>2, <2>3
<1>3. CASE Report
  BY <1>3 DEF Report
<1>4. CASE SubtaskSucceeds
  <2>1. cur \in 1..Len(status)
    BY <1>4 DEF SubtaskSucceeds
  <2>2. /\ Len(status') = Len(status)
        /\ \A i \in 1..Len(status) :
             status'[i] = IF i = cur THEN "Success" ELSE status[i]
    BY <1>0, <1>4, <2>1, Relabel DEF SubtaskSucceeds, SubTaskStatus
  <2>3. pc = "returned" /\ pc' = "select" /\ cur' = cur
    BY <1>4 DEF SubtaskSucceeds
  <2> QED
    BY <1>0, <2>1, <2>2, <2>3
<1>5. CASE SubtaskFails
  <2>1. cur \in 1..Len(status)
    BY <1>5 DEF SubtaskFails
  <2>2. /\ Len(status') = Len(status)
        /\ \A i \in 1..Len(status) :
             status'[i] = IF i = cur THEN "Failed" ELSE status[i]
    BY <1>0, <1>5, <2>1, Relabel DEF SubtaskFails, SubTaskStatus
  <2>3. pc = "returned" /\ pc' = "select" /\ cur' = cur
    BY <1>5 DEF SubtaskFails
  <2> QED
    BY <1>0, <2>1, <2>2, <2>3
<1>6. CASE /\ UNCHANGED <<status, cur>>
           /\ \/ {pc, pc'} \cap {"decompose", "select", "done"} = {}
              \/ pc' = pc
  BY <1>6
<1> QED
  BY <1>1, <1>2, <1>3, <1>4, <1>5, <1>6
     DEF Next, vars, RetrySubtask, StepsSpent, Think, PlanAction, Authorize,
         Refuse, DeferAction, PassGate, RunTool, SuggestPatch, Observe, Return

(* Order and tallies hold together, each needing the other.                *)
LEMMA OrderedAlways == Spec => [](Ordered /\ TalliesMatchStatuses)
<1>1. Init => Ordered /\ TalliesMatchStatuses
  <2> SUFFICES ASSUME Init
               PROVE  Ordered /\ TalliesMatchStatuses
    OBVIOUS
  <2>1. \A e : WithStatus(e) = {}
    BY DEF Init, WithStatus
  <2>2. TalliesMatchStatuses
    BY <2>1, FS_EmptySet DEF Init, TalliesMatchStatuses
  <2> QED
    BY <2>2 DEF Init, Ordered, Settled
<1>2. Typed /\ Ordered /\ TalliesMatchStatuses /\ [Next]_vars
        => (Ordered /\ TalliesMatchStatuses)'
  BY OrderKept, TalliesKept
<1> QED
  BY <1>1, <1>2, TypedAlways, PTL DEF Spec

(* The report is only returned when no subtask is left pending.            *)
ReportComplete == pc = "done" => WithStatus("Pending") = {}

(* Subtasks run one after the other in the order of the decomposition,     *)
(* the budget decides which are skipped, and the tallies of the report     *)
(* count the statuses it lists, whatever is retried or fails.              *)
THEOREM OrderAlways == Spec => []SubtasksInOrder
<1>1. Init => ReportComplete
  BY DEF Init, ReportComplete
<1>2. Typed /\ Ordered /\ ReportComplete /\ [Next]_vars => ReportComplete'
  <2> SUFFICES ASSUME Typed, Ordered, ReportComplete, [Next]_vars, pc' = "done"
               PROVE  WithStatus("Pending")' = {}
    BY DEF ReportComplete
  <2>1. CASE Report
    <3>1. pc = "select" /\ NothingLeft /\ status' = status
      BY <2>1 DEF Report
    <3>2. ASSUME NEW i \in 1..Len(status)
          PROVE  status[i] # "Pending"
      <4>0. cur \in Nat /\ i \in Nat
        BY DEF Typed, TypeOK
      <4>1. CASE i > cur
        BY <3>1, <4>1 DEF Ordered, InOrder, NothingLeft, Admitted
      <4>2. CASE i < cur
        BY <4>2 DEF Ordered, InOrder
      <4>3. CASE i = cur
        BY <3>1, <4>0, <4>3 DEF Ordered, Settled
      <4> QED
        BY <4>0, <4>1, <4>2, <4>3
    <3> QED
      BY <3>1, <3>2 DEF WithStatus
  <2>2. CASE UNCHANGED vars
    BY <2>2 DEF vars, ReportComplete, WithStatus
  <2> QED
    BY <2>1, <2>2
       DEF Next, vars, Decompose, SelectSubtask, SubtaskSucceeds, RetrySubtask,
           SubtaskFails, StepsSpent, Think, PlanAction, Authorize, Refuse,
           DeferAction, PassGate, RunTool, SuggestPatch, Observe, Return
<1>3. Ordered /\ TalliesMatchStatuses /\ ReportComplete => SubtasksInOrder
  BY DEF Ordered, InOrder, ReportComplete, SubtasksInOrder
<1> QED
  BY <1>1, <1>2, <1>3, TypedAlways, OrderedAlways, PTL DEF Spec

-----------------------------------------------------------------------------
(* The budget of a quest                                                   *)

(* The attempts that are over: those of the subtasks before cur, those of  *)
(* cur that failed, and the one that just returned.                        *)
Tries == MaxRetries + 1
Idle == pc \in {"decompose", "select", "done"}
Over ==
  IF Idle THEN cur * Tries
  ELSE IF pc = "returned" THEN (cur - 1) * Tries + attempt + 1
  ELSE (cur - 1) * Tries + attempt

(* The steps the attempt under way has asked the model for.                *)
Asked ==
  IF Idle \/ pc = "returned" THEN 0
  ELSE IF pc = "think" THEN step
  ELSE step + 1

(* The validator lets the first step be made whatever its bound, and stops *)
(* the attempt before a step it would count beyond it.                     *)
LoopBounded ==
  /\ pc \notin {"decompose", "select", "returned", "done"} =>
       step = 0 \/ step < ValidatorSteps
  /\ pc = "think" => step <= MaxSteps
  /\ ~Idle /\ pc \notin {"think", "returned"} => step < MaxSteps

WorkAccount ==
  /\ LoopBounded
  /\ ~Idle => attempt <= MaxRetries
  /\ llm_calls <= StepsPerAttempt * Over + Asked

(* A step asks within the attempt, ends it, or passes to a later one.      *)
WorkMove ==
  \/ Over' = Over /\ llm_calls' - llm_calls <= Asked' - Asked
  \/ Over' = Over + 1 /\ Asked' = 0 /\ llm_calls' - llm_calls <= StepsPerAttempt - Asked
  \/ Over' >= Over /\ Asked' = 0 /\ Asked = 0 /\ llm_calls' = llm_calls

LEMMA StepsPerAttemptType == StepsPerAttempt \in Nat
  BY BudgetAssumption DEF StepsPerAttempt

(* The subtask that runs is one the budget admits.                         *)
LEMMA CurAdmitted ==
  ASSUME Typed, Ordered
  PROVE  cur <= MaxSubtasks
<1>1. CASE cur = 0
  BY <1>1, BudgetAssumption
<1>2. CASE cur # 0
  <2>1. cur \in 1..Len(status) /\ InOrder(cur)
    BY <1>2 DEF Typed, TypeOK, Ordered
  <2>2. status[cur] # "Skipped"
    BY <1>2, <2>1 DEF Ordered, Settled, InOrder, Typed, Position
  <2> QED
    BY <2>1, <2>2, BudgetAssumption DEF InOrder
<1> QED
  BY <1>1, <1>2

(* One more subtask is worth Tries more attempts.                          *)
LEMMA OneMoreSubtask ==
  ASSUME NEW c \in Nat
  PROVE  /\ c * Tries \in Int /\ (c - 1) * Tries \in Int
         /\ (c - 1) * Tries + Tries = c * Tries
<1>1. Tries \in Int
  BY BudgetAssumption DEF Tries
<1> HIDE DEF Tries
<1> QED
  BY <1>1

(* The numbers of the account are integers and a step leaves enough of the *)
(* attempt's steps.                                                        *)
LEMMA WorkTyped ==
  ASSUME Typed, LoopBounded
  PROVE  /\ Over \in Int /\ Asked \in Nat /\ llm_calls \in Nat
         /\ Asked <= StepsPerAttempt
<1>1. cur \in Nat /\ attempt \in Nat /\ step \in Nat /\ llm_calls \in Nat
  BY DEF Typed, TypeOK
<1>2. cur * Tries \in Int /\ (cur - 1) * Tries \in Int
  BY <1>1, OneMoreSubtask
<1>3. Over \in Int
  BY <1>1, <1>2 DEF Over
<1>4. Asked \in Nat
  BY <1>1 DEF Asked
<1>5. Asked <= StepsPerAttempt
  BY <1>1, BudgetAssumption DEF Asked, LoopBounded, StepsPerAttempt, Idle
<1> QED
  BY <1>1, <1>3, <1>4, <1>5

(* Every step keeps the loop within its bounds.                            *)
LEMMA LoopKept ==
  ASSUME Typed, LoopBounded, [Next]_vars
  PROVE  LoopBounded'
<1> USE BudgetAssumption DEF LoopBounded, Idle, loopVars
<1>0. step \in Nat /\ attempt \in Nat
  BY DEF Typed, TypeOK
<1>1. CASE SelectSubtask \/ RetrySubtask
  BY <1>0, <1>1 DEF SelectSubtask, RetrySubtask
<1>2. CASE Decompose \/ Report \/ SubtaskSucceeds \/ SubtaskFails \/ StepsSpent
  BY <1>0, <1>2 DEF Decompose, Report, SubtaskSucceeds, SubtaskFails, StepsSpent, Return
<1>3. CASE Think
  BY <1>0, <1>3 DEF Think, Return
<1>4. CASE Observe
  BY <1>0, <1>4 DEF Observe, Verdict, Return
<1>5. CASE PlanAction \/ Authorize \/ Refuse \/ DeferAction \/ PassGate
  BY <1>0, <1>5 DEF PlanAction, Authorize, Refuse, DeferAction, PassGate, Return
<1>6. CASE RunTool \/ SuggestPatch
  BY <1>0, <1>6 DEF RunTool, SuggestPatch, Return
<1>7. CASE UNCHANGED vars
  BY <1>7 DEF vars
<1> QED
  BY <1>1, <1>2, <1>3, <1>4, <1>5, <1>6, <1>7 DEF Next

(* Every step moves the account one of the three ways, and no attempt is   *)
(* started after the last one allowed.                                     *)
LEMMA EveryStepAsks ==
  ASSUME Typed, LoopBounded, ~Idle => attempt <= MaxRetries, [Next]_vars
  PROVE  WorkMove /\ (~Idle => attempt <= MaxRetries)'
<1> DEFINE base == (cur - 1) * Tries
           full == cur * Tries
<1>1. /\ cur \in Nat /\ attempt \in Nat /\ step \in Nat /\ llm_calls \in Nat
      /\ MaxRetries \in Nat /\ StepsPerAttempt \in Nat
  BY BudgetAssumption, StepsPerAttemptType DEF Typed, TypeOK
<1>2. /\ base \in Int /\ full \in Int /\ base + MaxRetries + 1 = full
      /\ cur' = cur => (cur' - 1) * Tries = base /\ cur' * Tries = full
      /\ cur' = cur + 1 => (cur' - 1) * Tries = full
  <2>1. base \in Int /\ full \in Int /\ base + Tries = full
    BY <1>1, OneMoreSubtask
  <2>2. cur + 1 - 1 = cur
    BY <1>1
  <2> QED
    BY <1>1, <2>1, <2>2 DEF Tries
<1>3. Asked <= StepsPerAttempt
  BY WorkTyped
<1>4. Over = IF Idle THEN full
             ELSE IF pc = "returned" THEN base + attempt + 1
             ELSE base + attempt
  BY DEF Over
<1>5. CASE Decompose \/ Report
  BY <1>1, <1>2, <1>5 DEF WorkMove, Over, Asked, Idle, Decompose, Report, metrics
<1> HIDE DEF base, full
<1> USE DEF WorkMove, Asked, Idle, loopVars, metrics
<1>6. CASE SelectSubtask
  <2>1. Over' = full
    BY <1>1, <1>2, <1>6 DEF SelectSubtask, Over
  <2> QED
    BY <1>1, <1>2, <1>4, <1>6, <2>1 DEF SelectSubtask
<1>7. CASE SubtaskSucceeds
  <2>1. Over' = full
    BY <1>1, <1>2, <1>7 DEF SubtaskSucceeds, Over
  <2> QED
    BY <1>1, <1>2, <1>4, <1>7, <2>1 DEF SubtaskSucceeds
<1>8. CASE RetrySubtask
  <2>1. Over' = base + attempt'
    BY <1>1, <1>2, <1>8 DEF RetrySubtask, Over
  <2> QED
    BY <1>1, <1>2, <1>4, <1>8, <2>1 DEF RetrySubtask, RetryAllowed
<1>9. CASE SubtaskFails
  <2>1. Over' = full
    BY <1>1, <1>2, <1>9 DEF SubtaskFails, Over
  <2> QED
    BY <1>1, <1>2, <1>4, <1>9, <2>1 DEF SubtaskFails, RetryAllowed
<1>10. CASE /\ cur' = cur /\ attempt' = attempt
            /\ pc \notin {"decompose", "select", "done", "returned"}
            /\ pc' \notin {"decompose", "select", "done"}
            /\ \/ pc' = "returned" /\ llm_calls' - llm_calls <= StepsPerAttempt - Asked
               \/ pc' # "returned" /\ llm_calls' - llm_calls <= Asked' - Asked
  <2>1. Over' = IF pc' = "returned" THEN base + attempt + 1 ELSE base + attempt
    BY <1>2, <1>10 DEF Over
  <2> QED
    BY <1>1, <1>2, <1>4, <1>10, <2>1
<1>11. CASE UNCHANGED vars
  <2>1. Over' = Over
    BY <1>11 DEF Over, vars
  <2> QED
    BY <1>1, <1>11, <2>1 DEF vars
<1>12. CASE StepsSpent
  BY <1>1, <1>3, <1>10, <1>12 DEF StepsSpent, Return
<1>13. CASE Think
  BY <1>1, <1>3, <1>10, <1>13, BudgetAssumption
     DEF Think, Return, LoopBounded, StepsPerAttempt
<1>14. CASE PlanAction \/ Authorize \/ Refuse \/ DeferAction \/ PassGate
  BY <1>1, <1>3, <1>10, <1>14
     DEF PlanAction, Authorize, Refuse, DeferAction, PassGate, Return
<1>15. CASE RunTool \/ SuggestPatch
  BY <1>1, <1>3, <1>10, <1>15 DEF RunTool, SuggestPatch, Return
<1>16. CASE Observe
  BY <1>1, <1>3, <1>10, <1>16 DEF Observe, Return
<1> QED
  BY <1>5, <1>6, <1>7, <1>8, <1>9, <1>11, <1>12, <1>13, <1>14, <1>15, <1>16 DEF Next

(* A larger number of attempts that are over covers at least as many       *)
(* requests.                                                               *)
LEMMA MoreAttempts ==
  ASSUME NEW k \in Nat, NEW g \in Int, NEW h \in Int, g <= h
  PROVE  k * g \in Int /\ k * h \in Int /\ k * g <= k * h
<1>1. h - g \in Nat /\ k * (h - g) \in Nat
  OBVIOUS
<1>2. k * h = k * g + k * (h - g)
  OBVIOUS
<1> QED
  BY <1>1, <1>2

(* However the model plans, fails and retries, a quest asks it for no more *)
(* steps than its three budgets allow together.                            *)
THEOREM WorkStaysBounded == Spec => []WorkBounded
<1>1. Init => WorkAccount
  <2> SUFFICES ASSUME Init
               PROVE  WorkAccount
    OBVIOUS
  <2>1. Over = 0 /\ Asked = 0 /\ llm_calls = 0 /\ Idle
    BY OneMoreSubtask, BudgetAssumption DEF Init, Over, Asked, Idle, Tries
  <2> QED
    BY <2>1, StepsPerAttemptType DEF Init, WorkAccount, LoopBounded, Idle
<1>2. Typed /\ WorkAccount /\ [Next]_vars /\ Typed' => WorkAccount'
  <2> SUFFICES ASSUME Typed, WorkAccount, [Next]_vars, Typed'
               PROVE  WorkAccount'
    OBVIOUS
  <2>1. LoopBounded /\ LoopBounded'
    BY LoopKept DEF WorkAccount
  <2>2. WorkMove /\ (~Idle => attempt <= MaxRetries)'
    BY EveryStepAsks DEF WorkAccount
  <2>3. /\ Over \in Int /\ Asked \in Int /\ llm_calls \in Int
        /\ Over' \in Int /\ Asked' \in Int /\ llm_calls' \in Int
    <3>1. /\ cur' \in Nat /\ attempt' \in Nat /\ step' \in Nat
          /\ llm_calls' \in Int
      BY DEF Typed, TypeOK
    <3>2. cur' * Tries \in Int /\ (cur' - 1) * Tries \in Int
      BY <3>1, OneMoreSubtask
    <3>3. Over' \in Int
      BY <3>1, <3>2 DEF Over
    <3>4. Asked' \in Int
      BY <3>1 DEF Asked
    <3> QED
      BY <2>1, <3>1, <3>3, <3>4, WorkTyped
  <2>4. llm_calls' <= StepsPerAttempt * Over' + Asked'
    <3>1. llm_calls <= StepsPerAttempt * Over + Asked
      BY DEF WorkAccount
    <3>2. CASE Over' >= Over /\ Asked' = 0 /\ Asked = 0 /\ llm_calls' = llm_calls
      <4>1. /\ StepsPerAttempt * Over \in Int /\ StepsPerAttempt * Over' \in Int
            /\ StepsPerAttempt * Over <= StepsPerAttempt * Over'
        BY <2>3, <3>2, MoreAttempts, StepsPerAttemptType
      <4> QED
        BY <2>3, <3>1, <3>2, <4>1
    <3> QED
      BY <2>2, <2>3, <3>1, <3>2, AccountStep, StepsPerAttemptType DEF WorkMove
  <2> QED
    BY <2>1, <2>2, <2>4 DEF WorkAccount
<1>3. Typed /\ Ordered /\ WorkAccount => WorkBounded
  <2> SUFFICES ASSUME Typed, Ordered, WorkAccount
               PROVE  WorkBounded
    OBVIOUS
  <2> DEFINE all == MaxSubtasks * Tries
             k == StepsPerAttempt
  <2>1. /\ cur \in Nat /\ attempt \in Nat /\ MaxRetries \in Nat
        /\ MaxSubtasks \in Nat /\ Tries \in Nat /\ Tries = MaxRetries + 1
    BY BudgetAssumption DEF Typed, TypeOK, Tries
  <2>2. cur * Tries <= all /\ all \in Int /\ cur * Tries \in Int
    <3>1. cur <= MaxSubtasks
      BY CurAdmitted
    <3>2. Tries * cur <= Tries * MaxSubtasks /\ Tries * cur \in Int
      BY <2>1, <3>1, MoreAttempts
    <3>3. Tries * cur = cur * Tries /\ Tries * MaxSubtasks = all
      BY <2>1
    <3> QED
      BY <2>1, <3>2, <3>3
  <2>3. /\ Over \in Int /\ Asked \in Int /\ llm_calls \in Int /\ Asked <= k
        /\ k \in Nat
    BY WorkTyped, StepsPerAttemptType DEF WorkAccount
  <2>4. (Asked = 0 /\ Over <= all) \/ Over + 1 <= all
    <3>1. /\ (cur - 1) * Tries \in Int /\ (cur - 1) * Tries + Tries = cur * Tries
      BY <2>1, OneMoreSubtask
    <3>2. ~Idle => attempt <= MaxRetries
      BY DEF WorkAccount
    <3> HIDE DEF all
    <3>3. CASE Idle
      BY <2>2, <3>3 DEF Over, Asked
    <3>4. CASE ~Idle /\ pc = "returned"
      BY <2>1, <2>2, <3>1, <3>2, <3>4 DEF Over, Asked
    <3>5. CASE ~Idle /\ pc # "returned"
      BY <2>1, <2>2, <3>1, <3>2, <3>5 DEF Over
    <3> QED
      BY <3>3, <3>4, <3>5
  <2>5. llm_calls <= k * Over + Asked
    BY DEF WorkAccount
  <2>6. /\ k * Over \in Int /\ k * (Over + 1) = k * Over + k /\ k * all \in Int
        /\ Over <= all => k * Over <= k * all
        /\ Over + 1 <= all => k * (Over + 1) <= k * all
    BY <2>2, <2>3, OneMoreGrant, MoreAttempts
  <2>7. llm_calls <= k * all
    <3> HIDE DEF all, k
    <3> QED
      BY <2>3, <2>4, <2>5, <2>6
  <2>8. k * all = all * k
    BY <2>2, <2>3
  <2> QED
    BY <2>7, <2>8 DEF WorkBounded, Tries
<1> QED
  BY <1>1, <1>2, <1>3, TypedAlways, OrderedAlways, PTL DEF Spec

=============================================================================
