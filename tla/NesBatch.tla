------------------------------- MODULE NesBatch -------------------------------
(***************************************************************************)
(* Batch completion (run_batch of ollama.rs).  The caller's task takes a   *)
(* permit of a semaphore for each item, waiting for one when there is      *)
(* none, spawns a task that holds it for the item, and then awaits the     *)
(* tasks in the order of the items.  The tasks ask the backend directly:   *)
(* the cache and the rules of NesClient::complete have no part in it, and  *)
(* an item's task may return the backend's error.                          *)
(***************************************************************************)
EXTENDS Integers, Sequences, FiniteSets

CONSTANTS
  Items,      \* how many items the batch has
  Concurrency \* run_batch's concurrency

ASSUME BatchAssumption == Items \in Nat /\ Concurrency \in Nat

VARIABLES
  caller,  \* where the task of run_batch is
  spawned, \* items it has spawned a task for, in order
  task,    \* the task of each item
  permits, \* permits the semaphore has left
  out      \* what run_batch has collected

batchVars == <<caller, spawned, task, permits, out>>

Item == 1..Items

Results == {"ok", "err"}
Tasks == {"none", "running"} \cup Results

(* run_batch never takes a concurrency of zero.                            *)
Width == IF Concurrency = 0 THEN 1 ELSE Concurrency

BatchInit ==
  /\ caller = "spawning"
  /\ spawned = 0
  /\ task = [i \in Item |-> "none"]
  /\ permits = Width
  /\ out = <<>>

Returned(i) == task[i] \in Results

-----------------------------------------------------------------------------
(* The next item: its permit is taken before its task exists.              *)
Spawn ==
  /\ caller = "spawning"
  /\ spawned < Items
  /\ permits > 0
  /\ permits' = permits - 1
  /\ spawned' = spawned + 1
  /\ task' = [task EXCEPT ![spawned + 1] = "running"]
  /\ UNCHANGED <<caller, out>>

(* The backend answers or fails, and the task gives its permit back.       *)
Finish(i) ==
  /\ task[i] = "running"
  /\ \E r \in Results : task' = [task EXCEPT ![i] = r]
  /\ permits' = permits + 1
  /\ UNCHANGED <<caller, spawned, out>>

(* Every item has its task: run_batch turns to their handles.              *)
AllSpawned ==
  /\ caller = "spawning"
  /\ spawned = Items
  /\ caller' = "joining"
  /\ UNCHANGED <<spawned, task, permits, out>>

(* The handle the caller waits for.                                        *)
Awaited_OnlyOk(i) == i = Len(out) + 1 /\ task[i] = "ok"
Awaited(i) == i = Len(out) + 1 /\ Returned(i)

Join ==
  /\ caller = "joining"
  /\ Len(out) < Items
  /\ \E i \in Item : Awaited(i) /\ out' = Append(out, <<i, task[i]>>)
  /\ UNCHANGED <<caller, spawned, task, permits>>

Return ==
  /\ caller = "joining"
  /\ Len(out) = Items
  /\ caller' = "returned"
  /\ UNCHANGED <<spawned, task, permits, out>>

(* The caller of run_batch goes away: the tasks it spawned run on.         *)
Abandon ==
  /\ caller \in {"spawning", "joining"}
  /\ caller' = "gone"
  /\ UNCHANGED <<spawned, task, permits, out>>

Run == Spawn \/ AllSpawned \/ Join \/ Return

BatchNext == Run \/ Abandon \/ \E i \in Item : Finish(i)

(***************************************************************************)
(* The runtime polls run_batch and every task, and each request of the     *)
(* backend has a timeout and a bounded number of retries (Nes.tla).        *)
(***************************************************************************)
BatchSpec ==
  /\ BatchInit /\ [][BatchNext]_batchVars
  /\ WF_batchVars(Run)
  /\ \A i \in Item : WF_batchVars(Finish(i))

-----------------------------------------------------------------------------
(* Properties                                                              *)

BatchTypeOK ==
  /\ caller \in {"spawning", "joining", "returned", "gone"}
  /\ spawned \in 0..Items
  /\ task \in [Item -> Tasks]
  /\ permits \in 0..Width
  /\ out \in Seq(Item \X Results)

Running == {i \in Item : task[i] = "running"}

(***************************************************************************)
(* At most Width requests are at the model at once, those of a batch whose *)
(* caller has gone included, and no permit is lost, whichever way a task   *)
(* ends: the permits left and the running tasks make up the semaphore.     *)
(***************************************************************************)
PermitsConserved == permits + Cardinality(Running) = Width

(***************************************************************************)
(* The results are in the order of the items, whichever task was first to  *)
(* return, and each is what the task of its item returned.                 *)
(***************************************************************************)
ResultsInOrder ==
  /\ \A i \in 1..Len(out) : out[i] = <<i, task[i]>> /\ Returned(i)
  /\ caller = "returned" => Len(out) = Items

(* A batch that has spawned its first task returns, unless its caller goes *)
(* away: the wait for a permit and the wait for a handle both end.         *)
BatchReturns == spawned > 0 ~> caller \in {"returned", "gone"}

=============================================================================
