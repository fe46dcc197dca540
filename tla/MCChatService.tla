---------------------------- MODULE MCChatService ----------------------------
(***************************************************************************)
(* An instance of ChatService for TLC: as many chats of one session as     *)
(* overfill its window, one of which may be refused, and a completion.     *)
(***************************************************************************)
EXTENDS ChatService

MCChats == {"c1", "c2", "c3", "c4", "c5"}
MCRequests == MCChats \cup {"nes"}
MCRpc == [r \in MCRequests |-> IF r = "nes" THEN "nes_complete" ELSE "chat"]
MCSessionOf == [r \in MCRequests |-> IF r \in MCChats THEN "s1" ELSE "s2"]
MCPermsOf == [dev |-> {"Read", "Generate"}, viewer |-> {"Read"}]
MCCallersOf == [r \in MCRequests |-> IF r = "c1" THEN {"dev", "viewer", Nobody} ELSE {"dev"}]

=============================================================================
