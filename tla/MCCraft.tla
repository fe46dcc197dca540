------------------------------- MODULE MCCraft -------------------------------
(***************************************************************************)
(* Instances of Craft for TLC: two edits of one document, the second of    *)
(* which needs what the first one writes and may be confirmed again, a     *)
(* command and a commit.                                                   *)
(***************************************************************************)
EXTENDS Craft

MCEdits ==
  [first  |-> [kind |-> "FileEdit", uri |-> "a.rs", old |-> <<"x">>, new |-> <<"y", "x">>],
   second |-> [kind |-> "FileEdit", uri |-> "a.rs", old |-> <<"y">>, new |-> <<>>],
   command |-> [kind |-> "RunCommand", uri |-> "sh", old |-> <<>>, new |-> <<>>],
   commit |-> [kind |-> "Commit", uri |-> "vcs", old |-> <<>>, new |-> <<>>]]

MCEdit == [p \in Proposals |-> MCEdits[p]]

MCMaxConfirms == [p \in Proposals |-> IF p = "second" THEN 2 ELSE 1]

MCSeedText == [d \in Seeded |-> <<"x">>]

=============================================================================
