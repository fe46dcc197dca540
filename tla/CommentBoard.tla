---------------------------- MODULE CommentBoard ----------------------------
(***************************************************************************)
(* What a CommentStore (collab.rs) promises the people who review code     *)
(* with it: a comment has an id of its own among the comments of all       *)
(* tenants, what it says never changes, and it is at most marked resolved, *)
(* once.                                                                   *)
(***************************************************************************)
CONSTANTS Ids, Tenants, Files, Texts

VARIABLE comments  \* the comments, by id; an id that is free has none

None == [tenant |-> "none"]
Comment(tenant, file, text, resolved) ==
  [tenant |-> tenant, file |-> file, text |-> text, resolved |-> resolved]

Init == comments = [id \in Ids |-> None]

add(id, tenant, file, text) ==
  /\ comments[id] = None
  /\ comments' = [comments EXCEPT ![id] = Comment(tenant, file, text, FALSE)]

resolve(id) ==
  /\ comments[id] # None
  /\ comments' =
       [comments EXCEPT ![id] = Comment(@.tenant, @.file, @.text, TRUE)]

Next ==
  \E id \in Ids :
    \/ \E t \in Tenants, f \in Files, x \in Texts : add(id, t, f, x)
    \/ resolve(id)

Spec == Init /\ [][Next]_comments

=============================================================================
