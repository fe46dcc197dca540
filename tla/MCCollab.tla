------------------------------ MODULE MCCollab ------------------------------
(***************************************************************************)
(* The instance of Collab for TLC.  Comments and locks share the page's    *)
(* file and the user's patience, and nothing else: the run explores them   *)
(* one after the other.  An impatient user begins one comment; to the      *)
(* database two commands of the page differ in nothing from one of the     *)
(* page and one of somebody else.                                          *)
(***************************************************************************)
EXTENDS Collab, TLC

NoLocks == locks = {} /\ page.lock = "none" /\ \A c \in Calls : op[c] \notin LockOps
Scope == (adds = 0 \/ NoLocks) /\ (patient \/ adds <= 1)

CallsAlike == Permutations(Calls)

=============================================================================
