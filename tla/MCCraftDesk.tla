----------------------------- MODULE MCCraftDesk -----------------------------
(***************************************************************************)
(* Instances of CraftDesk for TLC: an edit that appends, one that replaces *)
(* the first line of a file, and a commit.                                 *)
(***************************************************************************)
EXTENDS CraftDesk

MCAppend == [kind |-> "FileEdit", uri |-> "a.rs", old |-> <<>>, new |-> <<"added">>]
MCReplace == [kind |-> "FileEdit", uri |-> "a.rs", old |-> <<"line">>, new |-> <<"line", "fixed">>]
MCCommit == [kind |-> "Commit", uri |-> "vcs", old |-> <<>>, new |-> <<>>]

MCEdits == {MCAppend, MCReplace, MCCommit}
MCFileEdits == {MCAppend, MCReplace}

MCWords == {"line", "rest", "added", "fixed", Saved}

MCDiskText == [f \in Files |-> <<"line", "rest">>]

=============================================================================
