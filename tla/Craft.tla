-------------------------------- MODULE Craft --------------------------------
(***************************************************************************)
(* Craft mode (craft.rs): the agent proposes edits, the user reviews them, *)
(* alone or as the batch of a CraftSession, and the engine applies what is *)
(* confirmed through the host.                                             *)
(*                                                                         *)
(* confirm is async and borrows its proposal exclusively: while it awaits  *)
(* the audit record no other operation touches that proposal, but other    *)
(* proposals, and the documents, go on.  confirm_all borrows the whole     *)
(* session.  The host is CliHost, whose apply_edit is atomic under a lock. *)
(***************************************************************************)
EXTENDS Naturals, Sequences, FiniteSets, TextEdits

CONSTANTS
  Proposals,   \* identities of the proposals
  Edit,        \* kind, uri, old and new text of each proposal
  Perms,       \* bits of the engine's principal
  Seeded,      \* documents the host holds at the start
  SeedText,    \* their text
  Fragments,   \* what texts are made of
  Typed,       \* the fragments the user types
  MaxConfirms, \* bound of the model: confirmations of each proposal
  MaxTyped     \* bound of the model: fragments typed into a document

Kinds == {"FileEdit", "RunCommand", "Commit"}

(* EditKind::required_permission.                                          *)
RequiredPermission ==
  [FileEdit |-> "Modify", RunCommand |-> "Execute", Commit |-> "Commit"]

Text == Seq(Fragments)

ASSUME CraftAssumption ==
  /\ DOMAIN Edit = Proposals
  /\ \A p \in Proposals :
       /\ DOMAIN Edit[p] = {"kind", "uri", "old", "new"}
       /\ Edit[p].kind \in Kinds
       /\ Edit[p].old \in Text
       /\ Edit[p].new \in Text
  /\ SeedText \in [Seeded -> Text]
  /\ Typed \subseteq Fragments

ASSUME BoundAssumption ==
  MaxConfirms \in [Proposals -> Nat] /\ MaxTyped \in Nat

VARIABLES
  docs,       \* CliHost's document store
  session,    \* CraftSession.proposals
  state,      \* CraftState of each proposal, "none" before it is proposed
  stage,      \* where its confirm is
  batching,   \* whether confirm_all is running
  results,    \* what confirm_all has collected
  granted,    \* audit events with granted: true, of each proposal
  refused,    \* audit events with granted: false
  tool_calls, \* the counters of metrics.rs
  denials,
  applied,    \* history: effects each proposal has had
  before,     \* history: applied when confirm_all was called
  typed       \* history: what the user typed, and where

engine == <<granted, refused, tool_calls, denials>>
batch == <<session, batching, results, before>>
vars == <<docs, session, state, stage, batching, results, granted, refused,
          tool_calls, denials, applied, before, typed>>

States == {"none", "Suggestion", "PendingConfirm", "Applied", "Rejected"}
Stages == {"idle", "granted", "refused"}

Init ==
  /\ docs = SeedText
  /\ session = <<>>
  /\ state = [p \in Proposals |-> "none"]
  /\ stage = [p \in Proposals |-> "idle"]
  /\ batching = FALSE
  /\ results = <<>>
  /\ granted = [p \in Proposals |-> 0]
  /\ refused = [p \in Proposals |-> 0]
  /\ tool_calls = 0
  /\ denials = 0
  /\ applied = [p \in Proposals |-> 0]
  /\ before = [p \in Proposals |-> 0]
  /\ typed = {}

InSession(p) == \E i \in 1..Len(session) : session[i] = p

(* Nobody borrows the proposal, or any proposal of the session.            *)
Free(p) == stage[p] = "idle" /\ ~(batching /\ InSession(p))
SessionFree ==
  /\ ~batching
  /\ \A i \in 1..Len(session) : stage[session[i]] = "idle"

(* confirm may be called once more within the bound of the model.          *)
MayConfirm(p) == granted[p] + refused[p] < MaxConfirms[p]

-----------------------------------------------------------------------------
(* The review                                                              *)

Propose(p) ==
  /\ state[p] = "none"
  /\ state' = [state EXCEPT ![p] = "Suggestion"]
  /\ UNCHANGED <<docs, stage, engine, batch, applied, typed>>

(* CraftSession::add.                                                      *)
Add(p) ==
  /\ state[p] # "none"
  /\ Free(p) /\ SessionFree
  /\ ~InSession(p)
  /\ session' = Append(session, p)
  /\ UNCHANGED <<docs, state, stage, batching, results, before, engine,
                 applied, typed>>

MarkPending(p) ==
  /\ state[p] = "Suggestion"
  /\ Free(p)
  /\ state' = [state EXCEPT ![p] = "PendingConfirm"]
  /\ UNCHANGED <<docs, stage, engine, batch, applied, typed>>

(* CraftEngine::reject's condition.                                        *)
Rejectable_Any(p) == state[p] # "none"
Rejectable(p) == state[p] \notin {"none", "Applied"}

Reject(p) ==
  /\ Rejectable(p)
  /\ Free(p)
  /\ state' = [state EXCEPT ![p] = "Rejected"]
  /\ UNCHANGED <<docs, stage, engine, batch, applied, typed>>

RejectAll ==
  /\ SessionFree
  /\ session # <<>>
  /\ state' = [p \in Proposals |->
                 IF InSession(p) /\ Rejectable(p) THEN "Rejected" ELSE state[p]]
  /\ UNCHANGED <<docs, stage, engine, batch, applied, typed>>

-----------------------------------------------------------------------------
(* The engine                                                              *)

(* check_permission on the bit of the proposal's kind.                     *)
Authorized(p) == RequiredPermission[Edit[p].kind] \in Perms

(* confirm up to its first await: the decision and its audit event.  The   *)
(* state of the proposal is not looked at.                                 *)
Check(p) ==
  /\ state[p] # "none"
  /\ stage[p] = "idle"
  /\ \/ /\ Authorized(p)
        /\ stage' = [stage EXCEPT ![p] = "granted"]
        /\ granted' = [granted EXCEPT ![p] = @ + 1]
        /\ UNCHANGED <<refused, denials>>
     \/ /\ ~Authorized(p)
        /\ stage' = [stage EXCEPT ![p] = "refused"]
        /\ refused' = [refused EXCEPT ![p] = @ + 1]
        /\ denials' = denials + 1
        /\ UNCHANGED granted
  /\ UNCHANGED <<docs, state, tool_calls, batch, applied, typed>>

Confirm(p) == Free(p) /\ MayConfirm(p) /\ Check(p)

(* confirm returns: within confirm_all its result is pushed.               *)
Returns_NewestFirst(p, result) ==
  /\ stage' = [stage EXCEPT ![p] = "idle"]
  /\ results' = IF batching /\ InSession(p) THEN <<result>> \o results ELSE results
  /\ UNCHANGED <<session, batching, before>>
Returns(p, result) ==
  /\ stage' = [stage EXCEPT ![p] = "idle"]
  /\ results' = IF batching /\ InSession(p) THEN Append(results, result) ELSE results
  /\ UNCHANGED <<session, batching, before>>

ReturnRefusal(p) ==
  /\ stage[p] = "refused"
  /\ Returns(p, "err")
  /\ UNCHANGED <<docs, state, engine, applied, typed>>

(* The last lines of confirm.                                              *)
Takes(p) ==
  /\ state' = [state EXCEPT ![p] = "Applied"]
  /\ applied' = [applied EXCEPT ![p] = @ + 1]

(* CliHost::apply_edit on a document that has the old text.                *)
Edited_Whole(text, e, result) == result = e.new
Edited(text, e, result) == ReplacesFirst(text, e.old, e.new, result)

Splices(text, e) ==
  {Splice(text, i, Len(e.old), e.new) : i \in 0..Len(text)} \cup {e.new}

ApplyFileEdit(p) ==
  /\ stage[p] = "granted"
  /\ Edit[p].kind = "FileEdit"
  /\ Edit[p].uri \in Seeded
  /\ Contains(docs[Edit[p].uri], Edit[p].old)
  /\ tool_calls' = tool_calls + 1
  /\ \E result \in Splices(docs[Edit[p].uri], Edit[p]) :
       /\ Edited(docs[Edit[p].uri], Edit[p], result)
       /\ docs' = [docs EXCEPT ![Edit[p].uri] = result]
  /\ Takes(p)
  /\ Returns(p, "ok")
  /\ UNCHANGED <<granted, refused, denials, typed>>

(* DocumentNotFound or EditRejected: confirm returns the error.            *)
HostRejects(p) ==
  /\ stage[p] = "granted"
  /\ Edit[p].kind = "FileEdit"
  /\ Edit[p].uri \in Seeded => ~Contains(docs[Edit[p].uri], Edit[p].old)
  /\ tool_calls' = tool_calls + 1
  /\ Returns(p, "err")
  /\ UNCHANGED <<docs, state, granted, refused, denials, applied, typed>>

(* A command or commit is announced to the host, which will run it.        *)
ApproveCommand(p) ==
  /\ stage[p] = "granted"
  /\ Edit[p].kind \in {"RunCommand", "Commit"}
  /\ tool_calls' = tool_calls + 1
  /\ Takes(p)
  /\ Returns(p, "ok")
  /\ UNCHANGED <<docs, granted, refused, denials, typed>>

-----------------------------------------------------------------------------
(* CraftSession::confirm_all                                               *)

ConfirmAll ==
  /\ SessionFree
  /\ session # <<>>
  /\ \A i \in 1..Len(session) : MayConfirm(session[i])
  /\ batching' = TRUE
  /\ results' = <<>>
  /\ before' = applied
  /\ UNCHANGED <<docs, session, state, stage, engine, applied, typed>>

(* The loop: each proposal of the session, whatever its state.             *)
ConfirmNext ==
  /\ batching
  /\ Len(results) < Len(session)
  /\ Check(session[Len(results) + 1])

(* The loop has ended.                                                     *)
LoopDone == Len(results) = Len(session)

ReturnAll ==
  /\ batching
  /\ LoopDone
  /\ \A i \in 1..Len(session) : stage[session[i]] = "idle"
  /\ batching' = FALSE
  /\ UNCHANGED <<docs, session, state, stage, results, before, engine,
                 applied, typed>>

-----------------------------------------------------------------------------
(* The user types into a document, at any time and anywhere in it.         *)
UserTypes(d, w) ==
  /\ Cardinality({t \in typed : t[1] = d}) < MaxTyped
  /\ <<d, w>> \notin typed
  /\ \E i \in 0..Len(docs[d]) :
       docs' = [docs EXCEPT ![d] = Splice(docs[d], i, 0, <<w>>)]
  /\ typed' = typed \cup {<<d, w>>}
  /\ UNCHANGED <<state, stage, engine, batch, applied>>

Next ==
  \/ \E p \in Proposals :
       \/ Propose(p) \/ Add(p) \/ MarkPending(p) \/ Reject(p) \/ Confirm(p)
       \/ ReturnRefusal(p) \/ ApplyFileEdit(p) \/ HostRejects(p)
       \/ ApproveCommand(p)
  \/ RejectAll \/ ConfirmAll \/ ConfirmNext \/ ReturnAll
  \/ \E d \in Seeded, w \in Typed : UserTypes(d, w)

Spec == Init /\ [][Next]_vars

-----------------------------------------------------------------------------
(* Properties                                                              *)

TypeOK ==
  /\ docs \in [Seeded -> Text]
  /\ session \in Seq(Proposals)
  /\ state \in [Proposals -> States]
  /\ stage \in [Proposals -> Stages]
  /\ batching \in BOOLEAN
  /\ results \in Seq({"ok", "err"})
  /\ Len(results) <= Len(session)
  /\ granted \in [Proposals -> Nat]
  /\ refused \in [Proposals -> Nat]
  /\ tool_calls \in Nat
  /\ denials \in Nat
  /\ applied \in [Proposals -> Nat]
  /\ before \in [Proposals -> Nat]
  /\ typed \subseteq Seeded \X Typed

(***************************************************************************)
(* A proposal reads Applied exactly if it took effect: a late reject, a    *)
(* reject_all, a failed second confirm or a batch that fails half way      *)
(* never leaves one that changed the host looking undone, or the reverse.  *)
(***************************************************************************)
AppliedIffEffect == \A p \in Proposals : state[p] = "Applied" <=> applied[p] > 0

(***************************************************************************)
(* Each effect of a proposal was paid for by a granted audit event of its  *)
(* own, recorded before it, and granted only under the bit of its kind.    *)
(***************************************************************************)
EffectsAuthorized ==
  \A p \in Proposals :
    /\ applied[p] + (IF stage[p] = "granted" THEN 1 ELSE 0) <= granted[p]
    /\ granted[p] > 0 => RequiredPermission[Edit[p].kind] \in Perms

(***************************************************************************)
(* confirm_all tells the truth, in the order of the session, while single  *)
(* confirms and the user change the documents under it: a proposal took    *)
(* effect in this batch if and only if its result is Ok, and none did that *)
(* the loop has not come to.                                               *)
(***************************************************************************)
BatchTruthful ==
  batching =>
    \A i \in 1..Len(session) :
      applied[session[i]] =
        before[session[i]] +
          (IF i <= Len(results) /\ results[i] = "ok" THEN 1 ELSE 0)

(***************************************************************************)
(* What the user typed stays in the document, whatever edits are applied   *)
(* around it and in whatever order, unless an edit names it as old text.   *)
(***************************************************************************)
UserTextKept ==
  \A t \in typed :
    (\A p \in Proposals : Edit[p].uri = t[1] => ~Holds(Edit[p].old, t[2]))
      => Holds(docs[t[1]], t[2])

=============================================================================
