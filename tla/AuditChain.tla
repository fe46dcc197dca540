----------------------------- MODULE AuditChain -----------------------------
(***************************************************************************)
(* The audit table and its writers: PgAuditSink::record (audit.rs), the    *)
(* two ways its callers use it, and the SQL side of 0001, 0003 and         *)
(* 0005_v20.sql that stores the rows, chains them by hash and verifies     *)
(* the chain.                                                              *)
(*                                                                         *)
(* AgentServer::audit spawns a task for each event and goes on; the        *)
(* planner and the chat engine await each record before the next.  Either  *)
(* way a record is two statements, with the other tasks' between them.     *)
(***************************************************************************)
EXTENDS Naturals, Sequences, FiniteSets, Governance

CONSTANTS
  Callers,    \* who emits events: RPC handlers, planners, chat engines
  Inline,     \* the callers that await each record
  TenantOf,   \* the tenant each caller's principal belongs to
  Actions,    \* AuditActions emitted
  SeesRows,   \* whether the sink's database role may SELECT the table
  MaxEvents,  \* bound of the model: events per caller
  MaxHelper   \* bound of the model: rows inserted through log_audit

(* The tenant_id column's default, all log_audit ever stores.              *)
DefaultTenant == "default"

AuditTenants == {TenantOf[c] : c \in Callers} \cup {DefaultTenant}

ASSUME CallerAssumption ==
  /\ Inline \subseteq Callers
  /\ DOMAIN TenantOf = Callers
  /\ Actions \subseteq PermBits
  /\ SeesRows \in BOOLEAN
  /\ MaxEvents \in Nat
  /\ MaxHelper \in Nat

Events == Callers \X (1..MaxEvents)
Tenant(e) == TenantOf[e[1]]

(* The source of a row that no event of the sink accounts for.             *)
FromHelper == <<"log_audit", 0>>

VARIABLES
  issued,       \* events each caller has emitted
  phase,        \* where the record of each event is
  action,       \* the action of each event
  prev,         \* the previous hash its SELECT read
  audit_events, \* the counter of metrics.rs
  rows          \* the audit table, in order of id

auditVars == <<issued, phase, action, prev, audit_events, rows>>

Phases == {"none", "select", "insert", "stored", "dropped", "lost"}
InFlight(e) == phase[e] \in {"select", "insert"}

(***************************************************************************)
(* sha256 of action | perm_bit | tenant_id | prev_hash.  The digest is     *)
(* taken as free of collisions, so that it stands for the list of payloads *)
(* it digests, newest first; <<>> is the empty prev_hash.                  *)
(***************************************************************************)
RowHash(a, t, h) == <<<<a, t>>>> \o h

Hashes == Seq(Actions \X AuditTenants)

(* AuditAction::perm_bit, the value of the bit.                            *)
BitValue == [Read |-> 1, Generate |-> 2, Modify |-> 4,
             Execute |-> 8, Commit |-> 16, Audit |-> 32]

AuditRow(a, t, h, source) ==
  [action |-> a, perm_bit |-> BitValue[a], tenant |-> t, prev_hash |-> h,
   row_hash |-> RowHash(a, t, h), source |-> source]

(* i is the newest of the first n rows that is of tenant t.                *)
NewestAmong(n, i, t) ==
  /\ i \in 1..n
  /\ rows[i].tenant = t
  /\ \A j \in i+1..n : rows[j].tenant # t

NoneAmong(n, t) == \A i \in 1..n : rows[i].tenant # t

(* unwrap_or_default, and coalesce in the trigger: no row is the empty     *)
(* hash.                                                                   *)
NoPrevious == <<>>

(***************************************************************************)
(* SELECT row_hash ... WHERE tenant_id = t ORDER BY id DESC LIMIT 1, read  *)
(* as h.  A role the policies give only INSERT on reads an empty table.    *)
(***************************************************************************)
LatestHash_AnyTenant(t, h) ==
  IF SeesRows /\ rows # <<>> THEN h = rows[Len(rows)].row_hash ELSE h = NoPrevious
LatestHash(t, h) ==
  \/ SeesRows /\ \E i \in 1..Len(rows) :
                    NewestAmong(Len(rows), i, t) /\ h = rows[i].row_hash
  \/ (~SeesRows \/ NoneAmong(Len(rows), t)) /\ h = NoPrevious

(* The hashes a SELECT may read.                                           *)
Readable == {NoPrevious} \cup {rows[i].row_hash : i \in 1..Len(rows)}

AuditInit ==
  /\ issued = [c \in Callers |-> 0]
  /\ phase = [e \in Events |-> "none"]
  /\ action = [e \in Events |-> "none"]
  /\ prev = [e \in Events |-> <<>>]
  /\ audit_events = 0
  /\ rows = <<>>

-----------------------------------------------------------------------------
(* An inline caller is busy until the record of its last event returned.   *)
MayIssue_Spawning(c) == TRUE
MayIssue(c) == c \in Inline => \A n \in 1..issued[c] : ~InFlight(<<c, n>>)

(* AgentServer::audit, Planner::record_audit or ChatEngine::audit: the     *)
(* event is counted, whatever becomes of it, and its record starts.        *)
Issue(c) ==
  /\ issued[c] < MaxEvents
  /\ MayIssue(c)
  /\ issued' = [issued EXCEPT ![c] = @ + 1]
  /\ \E a \in Actions : action' = [action EXCEPT ![<<c, issued[c] + 1>>] = a]
  /\ phase' = [phase EXCEPT ![<<c, issued[c] + 1>>] = "select"]
  /\ audit_events' = audit_events + 1
  /\ UNCHANGED <<prev, rows>>

(* The first statement of record.                                          *)
SelectPrev(e) ==
  /\ phase[e] = "select"
  /\ \E h \in Readable :
       /\ LatestHash(Tenant(e), h)
       /\ prev' = [prev EXCEPT ![e] = h]
  /\ phase' = [phase EXCEPT ![e] = "insert"]
  /\ UNCHANGED <<issued, action, audit_events, rows>>

Stores(e) == rows' = Append(rows, AuditRow(action[e], Tenant(e), prev[e], e))

(* The second statement: the trigger keeps the hashes the client computed. *)
(* Its answer may be lost, and then the event is logged as dropped though  *)
(* its row is there.                                                       *)
InsertEvent_RetriesLostAnswer(e) ==
  /\ phase[e] = "insert"
  /\ Stores(e)
  /\ \E p \in {"stored", "insert"} : phase' = [phase EXCEPT ![e] = p]
  /\ Len(rows) < 6
  /\ UNCHANGED <<issued, action, prev, audit_events>>
InsertEvent(e) ==
  /\ phase[e] = "insert"
  /\ Stores(e)
  /\ \E p \in {"stored", "dropped"} : phase' = [phase EXCEPT ![e] = p]
  /\ UNCHANGED <<issued, action, prev, audit_events>>

(* Either statement fails: the event is logged and dropped, never retried. *)
Drop(e) ==
  /\ InFlight(e)
  /\ phase' = [phase EXCEPT ![e] = "dropped"]
  /\ UNCHANGED <<issued, action, prev, audit_events, rows>>

(* log_audit (0003) leaves tenant and hashes to the defaults and to the    *)
(* BEFORE INSERT trigger, which reads and chains within the statement.     *)
HelperInsert ==
  /\ Cardinality({i \in 1..Len(rows) : rows[i].source = FromHelper}) < MaxHelper
  /\ \E a \in Actions, h \in Readable :
       /\ LatestHash(DefaultTenant, h)
       /\ rows' = Append(rows, AuditRow(a, DefaultTenant, h, FromHelper))
  /\ UNCHANGED <<issued, phase, action, prev, audit_events>>

(* The process stops and starts again: the records in flight, spawned or   *)
(* awaited, are gone without a trace and the counters start from zero.     *)
SinkRestarts ==
  /\ phase' = [e \in Events |-> IF InFlight(e) THEN "lost" ELSE phase[e]]
  /\ audit_events' = 0
  /\ UNCHANGED <<issued, action, prev, rows>>

AuditNext ==
  \/ \E c \in Callers : Issue(c)
  \/ \E e \in Events : SelectPrev(e) \/ InsertEvent(e) \/ Drop(e)
  \/ HelperInsert
  \/ SinkRestarts

AuditSpec == AuditInit /\ [][AuditNext]_auditVars

-----------------------------------------------------------------------------
(* Properties                                                              *)

AuditRows ==
  [action : Actions, perm_bit : Nat, tenant : AuditTenants, prev_hash : Hashes,
   row_hash : Hashes, source : Events \cup {FromHelper}]

AuditTypeOK ==
  /\ issued \in [Callers -> 0..MaxEvents]
  /\ phase \in [Events -> Phases]
  /\ action \in [Events -> Actions \cup {"none"}]
  /\ prev \in [Events -> Hashes]
  /\ audit_events \in Nat
  /\ rows \in Seq(AuditRows)

(* audit_verify_chain on a table: the rows whose hash is not their own.    *)
VerifyChain(table) ==
  {i \in 1..Len(table) :
     table[i].row_hash # RowHash(table[i].action, table[i].tenant, table[i].prev_hash)}

(***************************************************************************)
(* However records interleave, fail or are cut short, the table verifies   *)
(* and every row hangs on the empty hash or on an earlier row of the same  *)
(* tenant: no tenant's chain runs into another's or into a row never       *)
(* stored.                                                                 *)
(***************************************************************************)
ChainRooted ==
  /\ VerifyChain(rows) = {}
  /\ \A i \in 1..Len(rows) :
       rows[i].prev_hash # <<>> =>
         \E j \in 1..i-1 : /\ rows[j].tenant = rows[i].tenant
                           /\ rows[j].row_hash = rows[i].prev_hash

(* The rows an event accounts for.                                         *)
RowsOf(e) == {i \in 1..Len(rows) : rows[i].source = e}

(***************************************************************************)
(* Nothing is recorded twice and nothing reported as stored is missing:    *)
(* an event has a row if it is stored, at most one if it was dropped, and  *)
(* none before its INSERT or if the process lost it.                       *)
(***************************************************************************)
OneRowEach ==
  \A e \in Events :
    /\ \A i, j \in RowsOf(e) : i = j
    /\ phase[e] = "stored" => RowsOf(e) # {}
    /\ phase[e] \in {"none", "select", "insert", "lost"} => RowsOf(e) = {}

(***************************************************************************)
(* The rows of a caller that awaits its records are in the order of its    *)
(* events, through dropped records and restarts; a spawning caller's need  *)
(* not be.                                                                 *)
(***************************************************************************)
InlineInOrder ==
  \A i, j \in 1..Len(rows) :
    /\ i < j
    /\ rows[i].source # FromHelper /\ rows[j].source # FromHelper
    /\ rows[i].source[1] = rows[j].source[1]
    /\ rows[i].source[1] \in Inline
    => rows[i].source[2] < rows[j].source[2]

(* Row i hangs on the newest row of its tenant before it, if there is one. *)
Linked(i) ==
  \/ /\ NoneAmong(i - 1, rows[i].tenant)
     /\ rows[i].prev_hash = <<>>
  \/ \E j \in 1..i-1 : /\ NewestAmong(i - 1, j, rows[i].tenant)
                       /\ rows[i].prev_hash = rows[j].row_hash

(***************************************************************************)
(* 0005_v20.sql: "prev_hash = row_hash of the previous row for the same    *)
(* tenant".  Records that overlap read the same row and both hang on it.   *)
(***************************************************************************)
ChainLinear == \A i \in 1..Len(rows) : Linked(i)

=============================================================================
