---------------------------- MODULE MCAuditChain ----------------------------
(***************************************************************************)
(* Instances of AuditChain for TLC.                                        *)
(***************************************************************************)
EXTENDS AuditChain

(* Two callers of one tenant, a third of the tenant log_audit writes to.   *)
MCTenantOf ==
  [c \in Callers |-> IF c \in {"planner", "server"} THEN "acme" ELSE DefaultTenant]

=============================================================================
