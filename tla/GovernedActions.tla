--------------------------- MODULE GovernedActions ---------------------------
(***************************************************************************)
(* What the decision core promises of any agent it drives: a tool takes    *)
(* effect only under a ticket, a ticket is issued only for an action the   *)
(* principal may perform, a risky action without auto_commit ends as a     *)
(* request for approval, and one ticket pays for a bounded number of       *)
(* tries.  It says nothing of goals, steps, retries or reports.            *)
(***************************************************************************)
EXTENDS Naturals, Governance

CONSTANTS
  Tools,        \* names of tools a language model may plan
  Perms,        \* bits of the principal the agent acts for
  AutoCommit,   \* whether risky actions may run without approval
  MaxTries      \* tries one ticket pays for

VARIABLES
  ticket,       \* the set holding the one action in progress, {} when none
  tries,        \* tries left on the ticket
  effects,      \* tools that ran at least once
  deferred,     \* how many approvals were requested
  denials       \* how many actions were refused

vars == <<ticket, tries, effects, deferred, denials>>

Init ==
  /\ ticket = {}
  /\ tries = 0
  /\ effects = {}
  /\ deferred = 0
  /\ denials = 0

(* The boundary check passes: one action is in progress.                   *)
Grant(tool) ==
  /\ ticket = {}
  /\ Permitted(Perms, tool)
  /\ ticket' = {tool}
  /\ tries' = MaxTries
  /\ UNCHANGED <<effects, deferred, denials>>

(* The boundary check fails: nothing happens but the refusal.              *)
Deny(tool) ==
  /\ ticket = {}
  /\ ~Permitted(Perms, tool)
  /\ denials' = denials + 1
  /\ UNCHANGED <<ticket, tries, effects, deferred>>

(* A risky action goes to the human instead of running.                    *)
Defer(tool) ==
  /\ ticket = {tool}
  /\ Risky(tool)
  /\ ~AutoCommit
  /\ deferred' = deferred + 1
  /\ ticket' = {}
  /\ tries' = 0
  /\ UNCHANGED <<effects, denials>>

(* A try of the action, which may leave the ticket open for a further one. *)
Perform(tool) ==
  /\ ticket = {tool}
  /\ tries > 0
  /\ Risky(tool) => AutoCommit
  /\ effects' = effects \cup {tool}
  /\ \/ ticket' = ticket /\ tries' = tries - 1
     \/ ticket' = {} /\ tries' = 0
  /\ UNCHANGED <<deferred, denials>>

(* The action is given up, its last try having failed.                     *)
GiveUp ==
  /\ ticket # {}
  /\ ticket' = {}
  /\ tries' = 0
  /\ UNCHANGED <<effects, deferred, denials>>

Next ==
  \/ \E tool \in Tools :
       Grant(tool) \/ Deny(tool) \/ Defer(tool) \/ Perform(tool)
  \/ GiveUp

Spec == Init /\ [][Next]_vars

-----------------------------------------------------------------------------
(* Whatever ran was permitted, and risky only when auto_commit allows it.  *)
OnlyGovernedEffects ==
  \A tool \in effects :
    /\ Permitted(Perms, tool)
    /\ Risky(tool) => AutoCommit

=============================================================================
