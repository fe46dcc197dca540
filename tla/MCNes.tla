-------------------------------- MODULE MCNes --------------------------------
(***************************************************************************)
(* The instance of Nes and NesBatch for TLC.  The tasks of a batch ask the *)
(* backend directly and share nothing with the calls of NesClient, so that *)
(* either the calls are explored or a batch, whichever begins first; what  *)
(* the calls would have asked for does not matter to a batch.              *)
(***************************************************************************)
EXTENDS Nes, NesBatch

serviceVars == <<vars, batchVars>>

NoBatch == BatchInit
NoCall ==
  \A c \in Calls : pc[c] = "idle" /\ ask[c] = CHOOSE context \in Contexts : TRUE

Serves(step) == step /\ NoBatch /\ UNCHANGED batchVars
Batches(step) == step /\ NoCall /\ UNCHANGED vars

ServiceInit == Init /\ BatchInit

ServiceNext ==
  \/ \E c \in Calls :
       \/ Serves(Hit(c)) \/ Serves(Miss(c)) \/ Serves(Drop(c))
       \/ Serves(Answered(c)) \/ Serves(Fails(c)) \/ Serves(Wake(c)) \/ Serves(Degrade(c))
  \/ Batches(Spawn) \/ Batches(AllSpawned) \/ Batches(Join) \/ Batches(Return)
  \/ Batches(Abandon)
  \/ \E i \in Item : Batches(Finish(i))

ServiceSpec ==
  /\ ServiceInit /\ [][ServiceNext]_serviceVars
  /\ \A c \in Calls : WF_serviceVars(Serves(Resume(c)))
  /\ WF_serviceVars(Batches(Run))
  /\ \A i \in Item : WF_serviceVars(Batches(Finish(i)))

=============================================================================
