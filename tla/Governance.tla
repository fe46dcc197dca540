----------------------------- MODULE Governance -----------------------------
(***************************************************************************)
(* The six-bit authority every component shares: the permission bits of    *)
(* permissions.rs, the classification of tool names of principal.rs, and   *)
(* the classes of action that the approval gate of quest.rs defers.        *)
(*                                                                         *)
(* A mask is the set of bits it has, so PermissionSet::has is membership,  *)
(* contains is \subseteq, and the u32 arithmetic of the code never shows.  *)
(* Option<Permission> is a set of at most one bit.                         *)
(***************************************************************************)

PermBits == {"Read", "Generate", "Modify", "Execute", "Commit", "Audit"}

(***************************************************************************)
(* The match arms of action_permission: the names each bit governs.  No    *)
(* tool name is governed by the Audit bit.                                 *)
(***************************************************************************)
GovernedNames ==
  [Read     |-> {"read", "read_document", "readfile", "read_file"},
   Generate |-> {"generate", "chat", "complete", "nes", "ghost", "draft"},
   Modify   |-> {"modify", "edit", "write", "apply", "apply_edit"},
   Execute  |-> {"execute", "run", "shell", "command", "exec"},
   Commit   |-> {"commit"},
   Audit    |-> {}]

(***************************************************************************)
(* to_ascii_lowercase on the mixed-case spellings a model may plan; every  *)
(* other name the specifications use is in lower case already.             *)
(***************************************************************************)
Spellings == [Modify |-> "modify", Commit |-> "commit", Shell |-> "shell"]

Lowercase(tool) == IF tool \in DOMAIN Spellings THEN Spellings[tool] ELSE tool

(* action_permission: the bit that governs a tool, {} for None.            *)
ActionPermission(tool) ==
  {bit \in PermBits : Lowercase(tool) \in GovernedNames[bit]}

Privileged(tool) == ActionPermission(tool) # {}

(* check_permission on the bit of a tool; a tool without one is allowed.   *)
Permitted(perms, tool) == ActionPermission(tool) \subseteq perms

(* The classes of action QuestToolExecutor defers when auto_commit is off. *)
Risky(tool) == ActionPermission(tool) \cap {"Execute", "Commit"} # {}

=============================================================================
