----------------------------- MODULE TableProofs -----------------------------
(***************************************************************************)
(* Theorems about the two tables that several processes write: the audit   *)
(* trail (AuditChain), for any number of callers, events and tenants, and  *)
(* the comments (Collab), for any tenants, files and commands under way.   *)
(*                                                                         *)
(* Three facts carry the audit trail: the hash a record has read belongs   *)
(* to a row already stored for its tenant, an event has a row only once    *)
(* its INSERT was tried, and a caller that awaits has at most its last     *)
(* event in flight.  What a commenter was told rests on the comment being  *)
(* in the table when the command's answer is on its way, and on nothing    *)
(* ever overwriting a row; what the page shows rests on the one command    *)
(* that a patient user has under way.                                      *)
(***************************************************************************)
EXTENDS AuditChain, Collab, SequenceTheorems, TLAPS

-----------------------------------------------------------------------------
(* The audit trail                                                         *)

(* One digest more is a digest of the type.                                *)
LEMMA HashTyped ==
  ASSUME NEW a \in Actions, NEW t \in AuditTenants, NEW h \in Hashes
  PROVE  RowHash(a, t, h) \in Hashes /\ RowHash(a, t, h) # <<>>
BY DEF RowHash, Hashes

(* A row built from typed parts is a row of the table.                     *)
LEMMA RowTyped ==
  ASSUME NEW a \in Actions, NEW t \in AuditTenants, NEW h \in Hashes,
         NEW source \in Events \cup {FromHelper}
  PROVE  AuditRow(a, t, h, source) \in AuditRows
<1>1. BitValue[a] \in Nat
  BY CallerAssumption DEF PermBits, BitValue
<1> QED
  BY <1>1, HashTyped DEF AuditRow, AuditRows

(* What a SELECT reads is typed, and roots whatever is chained to it.      *)
LEMMA LatestRooted ==
  ASSUME AuditTypeOK, NEW t, NEW h, LatestHash(t, h)
  PROVE  /\ h \in Hashes
         /\ h # <<>> => \E j \in 1..Len(rows) :
                          rows[j].tenant = t /\ rows[j].row_hash = h
<1>1. NoPrevious = <<>> /\ <<>> \in Hashes
  BY DEF NoPrevious, Hashes
<1>2. ASSUME NEW i \in 1..Len(rows), NewestAmong(Len(rows), i, t), h = rows[i].row_hash
      PROVE  h \in Hashes /\ rows[i].tenant = t
  <2>1. rows[i] \in AuditRows
    BY DEF AuditTypeOK
  <2> QED
    BY <1>2, <2>1 DEF NewestAmong, AuditRows
<1> QED
  BY <1>1, <1>2 DEF LatestHash

(* The tenant of an event is one of the tenants.                           *)
LEMMA TenantTyped == \A e \in Events : e[1] \in Callers /\ Tenant(e) \in AuditTenants
BY DEF Events, Tenant, AuditTenants

-----------------------------------------------------------------------------
(* An event past those issued is untouched, one under way has its action.  *)
Bookkeeping ==
  /\ \A c \in Callers, n \in 1..MaxEvents : n > issued[c] => phase[<<c, n>>] = "none"
  /\ \A e \in Events : phase[e] # "none" => action[e] \in Actions

Typed == AuditTypeOK /\ Bookkeeping

(* The types and the bookkeeping hold together, each needing the other.    *)
LEMMA TypedAlways == AuditSpec => []Typed
<1> USE CallerAssumption DEF Typed, AuditTypeOK, Bookkeeping, Phases
<1>1. AuditInit => Typed
  BY DEF AuditInit, Events, Hashes
<1>2. Typed /\ [AuditNext]_auditVars => Typed'
  <2> SUFFICES ASSUME Typed, [AuditNext]_auditVars
               PROVE  Typed'
    OBVIOUS
  <2>1. ASSUME NEW c \in Callers, Issue(c)
        PROVE  Typed'
    BY <2>1 DEF Issue, Events
  <2>2. ASSUME NEW e \in Events, SelectPrev(e)
        PROVE  Typed'
    <3>1. PICK h : LatestHash(Tenant(e), h) /\ prev' = [prev EXCEPT ![e] = h]
      BY <2>2 DEF SelectPrev
    <3>2. h \in Hashes
      BY <3>1, LatestRooted
    <3> QED
      BY <2>2, <3>1, <3>2 DEF SelectPrev, Events
  <2>3. ASSUME NEW e \in Events, InsertEvent(e)
        PROVE  Typed'
    <3>1. AuditRow(action[e], Tenant(e), prev[e], e) \in AuditRows
      BY <2>3, RowTyped, TenantTyped DEF InsertEvent
    <3> QED
      BY <2>3, <3>1 DEF InsertEvent, Stores, Events
  <2>4. ASSUME NEW e \in Events, Drop(e)
        PROVE  Typed'
    BY <2>4 DEF Drop, InFlight, Events
  <2>5. CASE HelperInsert
    <3>1. PICK a \in Actions, h \in Readable :
            /\ LatestHash(DefaultTenant, h)
            /\ rows' = Append(rows, AuditRow(a, DefaultTenant, h, FromHelper))
      BY <2>5 DEF HelperInsert
    <3>2. AuditRow(a, DefaultTenant, h, FromHelper) \in AuditRows
      BY <3>1, LatestRooted, RowTyped DEF AuditTenants
    <3> QED
      BY <2>5, <3>1, <3>2 DEF HelperInsert
  <2>6. CASE SinkRestarts
    BY <2>6 DEF SinkRestarts, InFlight, Events
  <2>7. CASE UNCHANGED auditVars
    BY <2>7 DEF auditVars
  <2> QED
    BY <2>1, <2>2, <2>3, <2>4, <2>5, <2>6, <2>7 DEF AuditNext
<1> QED
  BY <1>1, <1>2, PTL DEF AuditSpec

(* Every variable of the audit path keeps its type.                        *)
THEOREM AuditTypeCorrect == AuditSpec => []AuditTypeOK
BY TypedAlways, PTL DEF Typed

-----------------------------------------------------------------------------
(* The chain                                                               *)

(* Some stored row of a tenant has this hash.                              *)
Stored(t, h) == \E j \in 1..Len(rows) : rows[j].tenant = t /\ rows[j].row_hash = h

(* A record between its statements has read a hash already stored.         *)
Rooted ==
  /\ ChainRooted
  /\ \A e \in Events : phase[e] = "insert" /\ prev[e] # <<>> => Stored(Tenant(e), prev[e])

(* A row whose previous hash is stored or empty extends a rooted chain,    *)
(* and takes nothing from what is stored.                                  *)
LEMMA RootedAppend ==
  ASSUME AuditTypeOK, ChainRooted,
         NEW a \in Actions, NEW t \in AuditTenants, NEW h \in Hashes,
         NEW source \in Events \cup {FromHelper},
         h # <<>> => Stored(t, h),
         rows' = Append(rows, AuditRow(a, t, h, source))
  PROVE  /\ ChainRooted'
         /\ \A u, g : Stored(u, g) => Stored(u, g)'
<1> DEFINE n == Len(rows)
<1>1. AuditRow(a, t, h, source) \in AuditRows
  BY RowTyped
<1>2. /\ n \in Nat /\ Len(rows') = n + 1
      /\ \A i \in 1..n : rows'[i] = rows[i]
      /\ rows'[n + 1] = AuditRow(a, t, h, source)
  BY <1>1 DEF AuditTypeOK
<1>3. VerifyChain(rows') = {}
  BY <1>2 DEF ChainRooted, VerifyChain, AuditRow
<1>4. \A u, g : Stored(u, g) => Stored(u, g)'
  BY <1>2 DEF Stored
<1>5. ASSUME NEW i \in 1..Len(rows'), rows'[i].prev_hash # <<>>
      PROVE  \E j \in 1..i-1 : /\ rows'[j].tenant = rows'[i].tenant
                               /\ rows'[j].row_hash = rows'[i].prev_hash
  <2>1. CASE i \in 1..n
    <3>1. PICK j \in 1..i-1 : /\ rows[j].tenant = rows[i].tenant
                              /\ rows[j].row_hash = rows[i].prev_hash
      BY <1>2, <1>5, <2>1 DEF ChainRooted
    <3>2. j \in 1..n
      BY <1>2, <2>1
    <3> QED
      BY <1>2, <2>1, <3>1, <3>2
  <2>2. CASE i = n + 1
    <3>1. rows'[i].tenant = t /\ rows'[i].prev_hash = h
      BY <1>2, <2>2 DEF AuditRow
    <3>2. PICK j \in 1..n : rows[j].tenant = t /\ rows[j].row_hash = h
      BY <1>5, <3>1 DEF Stored
    <3> QED
      BY <1>2, <2>2, <3>1, <3>2
  <2> QED
    BY <1>2, <1>5, <2>1, <2>2
<1> QED
  BY <1>3, <1>4, <1>5 DEF ChainRooted

(* The table verifies and no chain leaves its tenant or hangs on a row     *)
(* that is not there, however many records overlap, fail or are cut short. *)
THEOREM ChainAlwaysRooted == AuditSpec => []ChainRooted
<1>1. AuditInit => Rooted
  BY DEF AuditInit, Rooted, ChainRooted, VerifyChain
<1>2. Typed /\ Rooted /\ [AuditNext]_auditVars => Rooted'
  <2> SUFFICES ASSUME Typed, Rooted, [AuditNext]_auditVars
               PROVE  Rooted'
    OBVIOUS
  <2> USE DEF Rooted, Typed, AuditTypeOK
  <2>1. ASSUME UNCHANGED rows
        PROVE  ChainRooted' /\ \A t, h : Stored(t, h)' = Stored(t, h)
    BY <2>1 DEF ChainRooted, VerifyChain, Stored
  <2>2. ASSUME NEW c \in Callers, Issue(c)
        PROVE  Rooted'
    BY <2>1, <2>2 DEF Issue, Events
  <2>3. ASSUME NEW e \in Events, SelectPrev(e)
        PROVE  Rooted'
    <3>1. PICK h : LatestHash(Tenant(e), h) /\ prev' = [prev EXCEPT ![e] = h]
      BY <2>3 DEF SelectPrev
    <3>2. h # <<>> => Stored(Tenant(e), h)
      BY <3>1, LatestRooted DEF Stored
    <3> QED
      BY <2>1, <2>3, <3>1, <3>2 DEF SelectPrev
  <2>4. ASSUME NEW e \in Events, InsertEvent(e)
        PROVE  Rooted'
    <3>1. ChainRooted' /\ \A u, g : Stored(u, g) => Stored(u, g)'
      BY <2>4, RootedAppend, TenantTyped DEF InsertEvent, Stores, Bookkeeping
    <3> QED
      BY <2>4, <3>1 DEF InsertEvent
  <2>5. ASSUME NEW e \in Events, Drop(e)
        PROVE  Rooted'
    BY <2>1, <2>5 DEF Drop
  <2>6. CASE HelperInsert
    <3>1. PICK a \in Actions, h \in Readable :
            /\ LatestHash(DefaultTenant, h)
            /\ rows' = Append(rows, AuditRow(a, DefaultTenant, h, FromHelper))
      BY <2>6 DEF HelperInsert
    <3>2. h \in Hashes /\ (h # <<>> => Stored(DefaultTenant, h))
      BY <3>1, LatestRooted DEF Stored
    <3>3. ChainRooted' /\ \A u, g : Stored(u, g) => Stored(u, g)'
      BY <3>1, <3>2, RootedAppend DEF AuditTenants
    <3> QED
      BY <2>6, <3>3 DEF HelperInsert
  <2>7. CASE SinkRestarts
    BY <2>1, <2>7 DEF SinkRestarts, InFlight
  <2>8. CASE UNCHANGED auditVars
    BY <2>1, <2>8 DEF auditVars
  <2> QED
    BY <2>2, <2>3, <2>4, <2>5, <2>6, <2>7, <2>8 DEF AuditNext
<1> QED
  BY <1>1, <1>2, TypedAlways, PTL DEF Rooted, AuditSpec

-----------------------------------------------------------------------------
(* Exactly-once                                                            *)

(* A row not yet there is of no event the helper could be mistaken for.    *)
LEMMA HelperIsNoEvent == FromHelper \notin Events
BY CallerAssumption DEF FromHelper, Events

(* What one more row does to the rows of each source.                      *)
LEMMA RowsOfAppend ==
  ASSUME AuditTypeOK,
         NEW a \in Actions, NEW t \in AuditTenants, NEW h \in Hashes,
         NEW source \in Events \cup {FromHelper},
         rows' = Append(rows, AuditRow(a, t, h, source))
  PROVE  /\ \A e : e # source => RowsOf(e)' = RowsOf(e)
         /\ RowsOf(source)' = RowsOf(source) \cup {Len(rows) + 1}
<1>1. AuditRow(a, t, h, source) \in AuditRows
  BY RowTyped
<1>2. /\ Len(rows) \in Nat /\ Len(rows') = Len(rows) + 1
      /\ \A i \in 1..Len(rows) : rows'[i] = rows[i]
      /\ rows'[Len(rows) + 1].source = source
  BY <1>1 DEF AuditTypeOK, AuditRow
<1> QED
  BY <1>2 DEF RowsOf

(* An event has a row if it is stored, at most one if dropped, else none.  *)
THEOREM RecordedOnce == AuditSpec => []OneRowEach
<1>1. AuditInit => OneRowEach
  BY DEF AuditInit, OneRowEach, RowsOf
<1>2. Typed /\ OneRowEach /\ [AuditNext]_auditVars => OneRowEach'
  <2> SUFFICES ASSUME Typed, OneRowEach, [AuditNext]_auditVars
               PROVE  OneRowEach'
    OBVIOUS
  <2> USE DEF Typed, AuditTypeOK, OneRowEach
  <2>1. ASSUME UNCHANGED rows
        PROVE  \A e : RowsOf(e)' = RowsOf(e)
    BY <2>1 DEF RowsOf
  <2>2. ASSUME NEW c \in Callers, Issue(c)
        PROVE  OneRowEach'
    <3>1. <<c, issued[c] + 1>> \in Events /\ phase[<<c, issued[c] + 1>>] = "none"
      BY <2>2, CallerAssumption DEF Issue, Events, Bookkeeping
    <3>2. /\ phase'[<<c, issued[c] + 1>>] = "select"
          /\ \A e \in Events : e # <<c, issued[c] + 1>> => phase'[e] = phase[e]
      BY <2>2, <3>1 DEF Issue
    <3>3. \A e : RowsOf(e)' = RowsOf(e)
      BY <2>1, <2>2 DEF Issue
    <3>4. RowsOf(<<c, issued[c] + 1>>) = {}
      BY <3>1
    <3> QED
      BY <3>2, <3>3, <3>4
  <2>3. ASSUME NEW e \in Events, SelectPrev(e)
        PROVE  OneRowEach'
    BY <2>1, <2>3 DEF SelectPrev
  <2>4. ASSUME NEW e \in Events, InsertEvent(e)
        PROVE  OneRowEach'
    <3>1. /\ \A f : f # e => RowsOf(f)' = RowsOf(f)
          /\ RowsOf(e)' = RowsOf(e) \cup {Len(rows) + 1}
      <4>1. action[e] \in Actions /\ prev[e] \in Hashes /\ Tenant(e) \in AuditTenants
        <5>1. e \in Events /\ phase[e] = "insert"
          BY <2>4 DEF InsertEvent
        <5>2. Bookkeeping
          OBVIOUS
        <5> QED
          BY <5>1, <5>2, TenantTyped DEF Bookkeeping
      <4>2. rows' = Append(rows, AuditRow(action[e], Tenant(e), prev[e], e))
        BY <2>4 DEF InsertEvent, Stores
      <4> QED
        BY <4>1, <4>2, RowsOfAppend
    <3>2. RowsOf(e)' = {Len(rows) + 1}
      BY <2>4, <3>1 DEF InsertEvent
    <3>3. \A f \in Events : f # e => phase'[f] = phase[f]
      BY <2>4 DEF InsertEvent
    <3>4. phase'[e] \in {"stored", "dropped"}
      BY <2>4 DEF InsertEvent
    <3>5. \A f \in Events : f # e => RowsOf(f)' = RowsOf(f)
      BY <3>1
    <3>6. ASSUME NEW f \in Events
          PROVE  /\ \A i, j \in RowsOf(f)' : i = j
                 /\ phase'[f] = "stored" => RowsOf(f)' # {}
                 /\ phase'[f] \in {"none", "select", "insert", "lost"} => RowsOf(f)' = {}
      <4>1. CASE f = e
        BY <3>2, <3>4, <4>1
      <4>2. CASE f # e
        BY <3>3, <3>5, <4>2
      <4> QED
        BY <4>1, <4>2
    <3> QED
      BY <3>6
  <2>5. ASSUME NEW e \in Events, Drop(e)
        PROVE  OneRowEach'
    BY <2>1, <2>5 DEF Drop, InFlight
  <2>6. CASE HelperInsert
    <3>1. PICK a \in Actions, h \in Readable :
            /\ LatestHash(DefaultTenant, h)
            /\ rows' = Append(rows, AuditRow(a, DefaultTenant, h, FromHelper))
      BY <2>6 DEF HelperInsert
    <3>2. h \in Hashes /\ DefaultTenant \in AuditTenants
      BY <3>1, LatestRooted DEF AuditTenants
    <3>3. \A e : e # FromHelper => RowsOf(e)' = RowsOf(e)
      BY <3>1, <3>2, RowsOfAppend
    <3>4. \A e \in Events : RowsOf(e)' = RowsOf(e)
      BY <3>3, HelperIsNoEvent
    <3> QED
      BY <2>6, <3>4 DEF HelperInsert
  <2>7. CASE SinkRestarts
    BY <2>1, <2>7 DEF SinkRestarts, InFlight
  <2>8. CASE UNCHANGED auditVars
    BY <2>1, <2>8 DEF auditVars
  <2> QED
    BY <2>2, <2>3, <2>4, <2>5, <2>6, <2>7, <2>8 DEF AuditNext
<1> QED
  BY <1>1, <1>2, TypedAlways, PTL DEF AuditSpec

-----------------------------------------------------------------------------
(* Order                                                                   *)

(* A caller that awaits has only its last event in flight, and its rows    *)
(* are all of events it has issued.                                        *)
Ordered ==
  /\ InlineInOrder
  /\ \A c \in Inline, n \in 1..MaxEvents : InFlight(<<c, n>>) => n = issued[c]

LEMMA OrderedAlways == AuditSpec => []Ordered
<1> USE CallerAssumption
<1>1. AuditInit => Ordered
  BY DEF AuditInit, Ordered, InlineInOrder, InFlight, Events
<1>2. Typed /\ OneRowEach /\ Ordered /\ [AuditNext]_auditVars => Ordered'
  <2> SUFFICES ASSUME Typed, OneRowEach, Ordered, [AuditNext]_auditVars
               PROVE  Ordered'
    OBVIOUS
  <2> USE DEF Typed, AuditTypeOK, Ordered
  <2>1. ASSUME UNCHANGED rows
        PROVE  InlineInOrder'
    BY <2>1 DEF InlineInOrder
  <2>2. ASSUME NEW c \in Callers, Issue(c)
        PROVE  Ordered'
    <3>1. ASSUME NEW d \in Inline, NEW n \in 1..MaxEvents, InFlight(<<d, n>>)'
          PROVE  n = issued'[d]
      <4>1. CASE d = c
        BY <2>2, <3>1, <4>1 DEF Issue, MayIssue, InFlight, Events, Bookkeeping
      <4>2. CASE d # c
        BY <2>2, <3>1, <4>2 DEF Issue, InFlight, Events
      <4> QED
        BY <4>1, <4>2
    <3> QED
      BY <2>1, <2>2, <3>1 DEF Issue
  <2>3. ASSUME NEW e \in Events, SelectPrev(e)
        PROVE  Ordered'
    BY <2>1, <2>3 DEF SelectPrev, InFlight, Events
  <2>4. ASSUME NEW e \in Events, InsertEvent(e)
        PROVE  Ordered'
    <3>1. AuditRow(action[e], Tenant(e), prev[e], e) \in AuditRows
      BY <2>4, RowTyped, TenantTyped DEF InsertEvent, Bookkeeping
    <3>2. /\ Len(rows) \in Nat /\ Len(rows') = Len(rows) + 1
          /\ \A i \in 1..Len(rows) : rows'[i] = rows[i]
          /\ rows'[Len(rows) + 1].source = e
      BY <2>4, <3>1 DEF InsertEvent, Stores, AuditRow
    <3>3. ASSUME NEW i \in 1..Len(rows), rows[i].source # FromHelper,
                 rows[i].source[1] = e[1], e[1] \in Inline
          PROVE  rows[i].source[2] < e[2]
      <4>1. PICK c \in Inline, n \in 1..MaxEvents : e = <<c, n>>
        BY <3>3 DEF Events
      <4>2. PICK m \in 1..MaxEvents : rows[i].source = <<c, m>>
        <5>1. rows[i] \in AuditRows
          <6>1. rows \in Seq(AuditRows)
            OBVIOUS
          <6> QED
            BY <6>1
        <5>2. rows[i].source \in Events
          BY <3>3, <5>1 DEF AuditRows
        <5> HIDE DEF AuditTypeOK, Typed
        <5> QED
          BY <3>3, <4>1, <5>2 DEF Events
      <4>3. n = issued[c]
        BY <2>4, <4>1 DEF InsertEvent, InFlight
      <4>4. m # n
        BY <2>4, <4>1, <4>2 DEF InsertEvent, OneRowEach, RowsOf
      <4>5. phase[<<c, m>>] # "none"
        BY <4>1, <4>2 DEF OneRowEach, RowsOf, Events
      <4>6. m <= issued[c]
        BY <4>1, <4>5 DEF Bookkeeping
      <4> QED
        BY <4>1, <4>2, <4>3, <4>4, <4>6
    <3>4. InlineInOrder'
      <4> SUFFICES ASSUME NEW i \in 1..Len(rows'), NEW j \in 1..Len(rows'), i < j,
                          rows'[i].source # FromHelper, rows'[j].source # FromHelper,
                          rows'[i].source[1] = rows'[j].source[1],
                          rows'[i].source[1] \in Inline
                   PROVE  rows'[i].source[2] < rows'[j].source[2]
        BY DEF InlineInOrder
      <4>1. i \in 1..Len(rows) /\ rows'[i] = rows[i]
        BY <3>2
      <4>2. CASE j \in 1..Len(rows)
        BY <3>2, <4>1, <4>2 DEF InlineInOrder
      <4>3. CASE j = Len(rows) + 1
        BY <3>2, <3>3, <4>1, <4>3
      <4> QED
        BY <3>2, <4>2, <4>3
    <3> QED
      BY <2>4, <3>4 DEF InsertEvent, InFlight, Events
  <2>5. ASSUME NEW e \in Events, Drop(e)
        PROVE  Ordered'
    BY <2>1, <2>5 DEF Drop, InFlight, Events
  <2>6. CASE HelperInsert
    <3>1. PICK a \in Actions, h \in Readable :
            /\ LatestHash(DefaultTenant, h)
            /\ rows' = Append(rows, AuditRow(a, DefaultTenant, h, FromHelper))
      BY <2>6 DEF HelperInsert
    <3>2. AuditRow(a, DefaultTenant, h, FromHelper) \in AuditRows
      BY <3>1, LatestRooted, RowTyped DEF AuditTenants
    <3>3. /\ Len(rows) \in Nat /\ Len(rows') = Len(rows) + 1
          /\ \A i \in 1..Len(rows) : rows'[i] = rows[i]
          /\ rows'[Len(rows) + 1].source = FromHelper
      BY <3>1, <3>2 DEF AuditRow
    <3>4. InlineInOrder'
      <4> SUFFICES ASSUME NEW i \in 1..Len(rows'), NEW j \in 1..Len(rows'), i < j,
                          rows'[i].source # FromHelper, rows'[j].source # FromHelper,
                          rows'[i].source[1] = rows'[j].source[1],
                          rows'[i].source[1] \in Inline
                   PROVE  rows'[i].source[2] < rows'[j].source[2]
        BY DEF InlineInOrder
      <4>1. /\ i \in 1..Len(rows) /\ rows'[i] = rows[i]
            /\ j \in 1..Len(rows) /\ rows'[j] = rows[j]
        <5> HIDE DEF Typed, AuditTypeOK, Ordered
        <5>1. i # Len(rows) + 1 /\ j # Len(rows) + 1
          BY <3>3
        <5> QED
          BY <3>3, <5>1
      <4> HIDE DEF Typed, AuditTypeOK
      <4>2. InlineInOrder
        BY DEF Ordered
      <4> HIDE DEF Ordered
      <4> QED
        BY <4>1, <4>2 DEF InlineInOrder
    <3> QED
      BY <2>6, <3>4 DEF HelperInsert, InFlight
  <2>7. CASE SinkRestarts
    BY <2>1, <2>7 DEF SinkRestarts, InFlight, Events
  <2>8. CASE UNCHANGED auditVars
    BY <2>1, <2>8 DEF auditVars, InFlight
  <2> QED
    BY <2>2, <2>3, <2>4, <2>5, <2>6, <2>7, <2>8 DEF AuditNext
<1> QED
  BY <1>1, <1>2, TypedAlways, RecordedOnce, PTL DEF AuditSpec

(* Whatever is dropped or lost between them, the rows of a planner or a    *)
(* chat engine tell its events in the order they happened.                 *)
THEOREM InlineKeepsOrder == AuditSpec => []InlineInOrder
BY OrderedAlways, PTL DEF Ordered

-----------------------------------------------------------------------------
(* Where the chain does not fork                                           *)

(* One caller at most writes for this tenant, it awaits its records, and   *)
(* its database role may read what it wrote.                               *)
LoneWriter(t) ==
  /\ SeesRows
  /\ t # DefaultTenant
  /\ \A c, d \in Callers : TenantOf[c] = t /\ TenantOf[d] = t => c = d /\ c \in Inline

AwaitedLinear == \A i \in 1..Len(rows) : LoneWriter(rows[i].tenant) => Linked(i)

(* What such a caller has read is still the newest when it inserts.        *)
StillNewest ==
  \A e \in Events :
    phase[e] = "insert" /\ LoneWriter(Tenant(e)) => LatestHash(Tenant(e), prev[e])

(* A row is linked by the rows before it, and by no later one.             *)
LEMMA LinkedAppend ==
  ASSUME NEW table, rows \in Seq(table), NEW row \in table, rows' = Append(rows, row),
         NEW n, n = Len(rows)
  PROVE  /\ n \in Nat /\ Len(rows') = n + 1 /\ rows'[n + 1] = row
         /\ \A i \in 1..n : rows'[i] = rows[i] /\ (Linked(i) => Linked(i)')
         /\ \A t, h : t # row.tenant /\ LatestHash(t, h) => LatestHash(t, h)'
         /\ SeesRows /\ LatestHash(row.tenant, row.prev_hash) => Linked(n + 1)'
<1>1. /\ n \in Nat /\ Len(rows') = n + 1 /\ rows'[n + 1] = row
      /\ \A i \in 1..n : rows'[i] = rows[i]
  OBVIOUS
<1>2. ASSUME NEW i \in 1..n, Linked(i) PROVE Linked(i)'
  <2>1. i \in Nat /\ \A j \in 1..(i - 1) : j \in 1..n
    BY <1>1
  <2> QED BY <1>1, <1>2, <2>1 DEF Linked, NewestAmong, NoneAmong
<1>3. ASSUME NEW t, NEW h, t # row.tenant, LatestHash(t, h)
      PROVE  LatestHash(t, h)'
  <2>1. CASE ~SeesRows /\ h = NoPrevious
    BY <2>1 DEF LatestHash
  <2>2. CASE NoneAmong(n, t) /\ h = NoPrevious
    <3>1. NoneAmong(n + 1, t)' /\ Len(rows') = n + 1
      BY <1>1, <1>3, <2>2 DEF NoneAmong
    <3> QED BY <3>1, <2>2 DEF LatestHash
  <2>3. CASE SeesRows /\ \E i \in 1..n : NewestAmong(n, i, t) /\ h = rows[i].row_hash
    <3>1. PICK i \in 1..n : NewestAmong(n, i, t) /\ h = rows[i].row_hash
      BY <2>3
    <3>2. NewestAmong(n + 1, i, t)' /\ Len(rows') = n + 1
      BY <1>1, <1>3, <3>1 DEF NewestAmong
    <3>3. i \in 1..Len(rows') /\ h = rows'[i].row_hash
      BY <1>1, <3>1
    <3> QED BY <2>3, <3>2, <3>3 DEF LatestHash
  <2> QED BY <1>3, <2>1, <2>2, <2>3 DEF LatestHash
<1>4. ASSUME SeesRows, LatestHash(row.tenant, row.prev_hash)
      PROVE  Linked(n + 1)'
  <2>1. (n + 1) - 1 = n
    BY <1>1
  <2>2. CASE NoneAmong(n, row.tenant) /\ row.prev_hash = NoPrevious
    <3>1. NoneAmong(n, row.tenant)'
      BY <1>1, <2>2 DEF NoneAmong
    <3> QED BY <1>1, <2>1, <2>2, <3>1 DEF Linked, NoneAmong, NoPrevious
  <2>3. CASE \E i \in 1..n : NewestAmong(n, i, row.tenant) /\ row.prev_hash = rows[i].row_hash
    <3>1. PICK i \in 1..n : NewestAmong(n, i, row.tenant) /\ row.prev_hash = rows[i].row_hash
      BY <2>3
    <3>2. \A j \in i+1..n : rows'[j].tenant # row.tenant
      BY <1>1, <3>1 DEF NewestAmong
    <3> QED BY <1>1, <2>1, <3>1, <3>2 DEF Linked, NewestAmong
  <2> QED BY <1>4, <2>2, <2>3 DEF LatestHash
<1> QED BY <1>1, <1>2, <1>3, <1>4

(***************************************************************************)
(* 0005_v20.sql's chain, where the code keeps it: the rows of a tenant     *)
(* that one planner or chat engine writes for each hang on the one before, *)
(* whatever the writers of other tenants do and whatever fails or is lost. *)
(* It is the overlap that forks a chain, and nothing else.                 *)
(***************************************************************************)
THEOREM AwaitedChainLinear == AuditSpec => []AwaitedLinear
<1> DEFINE Inv == AwaitedLinear /\ StillNewest
<1>1. AuditInit => Inv
  BY DEF AuditInit, AwaitedLinear, StillNewest
<1>2. Typed /\ Ordered /\ Inv /\ [AuditNext]_auditVars => Inv'
  <2> SUFFICES ASSUME Typed, Ordered, Inv, [AuditNext]_auditVars
               PROVE  Inv'
    OBVIOUS
  <2>t. /\ rows \in Seq(AuditRows) /\ phase \in [Events -> Phases]
        /\ prev \in [Events -> Hashes]
    BY DEF Typed, AuditTypeOK
  <2>1. ASSUME UNCHANGED rows,
               \A e \in Events : phase'[e] = "insert" =>
                 \/ phase[e] = "insert" /\ prev'[e] = prev[e]
                 \/ LatestHash(Tenant(e), prev'[e])
        PROVE  Inv'
    <3>1. AwaitedLinear'
      BY <2>1 DEF AwaitedLinear, Linked, LoneWriter, NewestAmong, NoneAmong
    <3>2. \A t, h : LatestHash(t, h) => LatestHash(t, h)'
      BY <2>1 DEF LatestHash, NewestAmong, NoneAmong
    <3>3. StillNewest'
      BY <2>1, <3>2 DEF StillNewest, LoneWriter, Tenant
    <3> QED BY <3>1, <3>3
  <2>2. ASSUME NEW c \in Callers, Issue(c)
        PROVE  Inv'
    <3>1. \A e \in Events : phase'[e] = "insert" => phase[e] = "insert"
      BY <2>2, <2>t DEF Issue
    <3> QED BY <2>1, <2>2, <3>1 DEF Issue
  <2>3. ASSUME NEW e \in Events, SelectPrev(e)
        PROVE  Inv'
    <3>1. PICK h : LatestHash(Tenant(e), h) /\ prev' = [prev EXCEPT ![e] = h]
      BY <2>3 DEF SelectPrev
    <3>2. ASSUME NEW f \in Events, phase'[f] = "insert"
          PROVE  \/ phase[f] = "insert" /\ prev'[f] = prev[f]
                 \/ LatestHash(Tenant(f), prev'[f])
      <4>1. CASE f = e
        BY <3>1, <2>t, <4>1
      <4>2. CASE f # e
        BY <2>3, <3>1, <3>2, <2>t, <4>2 DEF SelectPrev
      <4> QED BY <4>1, <4>2
    <3> QED BY <2>1, <2>3, <3>2 DEF SelectPrev
  <2>4. ASSUME NEW e \in Events, InsertEvent(e)
        PROVE  Inv'
    <3> DEFINE row == AuditRow(action[e], Tenant(e), prev[e], e)
    <3>1. row \in AuditRows /\ row.tenant = Tenant(e) /\ row.prev_hash = prev[e]
      <4>1. action[e] \in Actions /\ prev[e] \in Hashes /\ Tenant(e) \in AuditTenants
        BY <2>4, <2>t, TenantTyped DEF InsertEvent, Typed, Bookkeeping
      <4> QED BY <4>1, RowTyped DEF AuditRow
    <3>2. /\ rows' = Append(rows, row) /\ phase[e] = "insert" /\ prev' = prev
          /\ \A f \in Events : phase'[f] = "insert" => f # e /\ phase[f] = "insert"
      BY <2>4, <2>t DEF InsertEvent, Stores
    <3> HIDE DEF row
    <3>n. PICK n : n = Len(rows)
      OBVIOUS
    <3>3. /\ n \in Nat /\ Len(rows') = n + 1 /\ rows'[n + 1] = row
          /\ \A i \in 1..n : rows'[i] = rows[i] /\ (Linked(i) => Linked(i)')
          /\ \A t, h : t # Tenant(e) /\ LatestHash(t, h) => LatestHash(t, h)'
          /\ SeesRows /\ LatestHash(Tenant(e), prev[e]) => Linked(n + 1)'
      BY <3>n, <3>1, <3>2, <2>t, LinkedAppend
    <3>4. AwaitedLinear'
      <4> SUFFICES ASSUME NEW i \in 1..Len(rows'), LoneWriter(rows'[i].tenant)
                   PROVE  Linked(i)'
        BY DEF AwaitedLinear, LoneWriter
      <4>1. CASE i \in 1..n
        BY <3>n, <3>3, <4>1 DEF AwaitedLinear
      <4>2. CASE i = n + 1
        <5>1. LoneWriter(Tenant(e))
          BY <3>1, <3>3, <4>2
        <5>2. LatestHash(Tenant(e), prev[e])
          BY <3>2, <5>1 DEF StillNewest
        <5> QED BY <3>3, <4>2, <5>1, <5>2 DEF LoneWriter
      <4> QED BY <3>3, <4>1, <4>2
    <3>5. ASSUME NEW f \in Events, phase'[f] = "insert", LoneWriter(Tenant(f))
          PROVE  Tenant(f) # Tenant(e)
      <4> SUFFICES ASSUME Tenant(f) = Tenant(e) PROVE FALSE
        OBVIOUS
      <4>1. PICK c \in Callers, i \in 1..MaxEvents : e = <<c, i>>
        BY DEF Events
      <4>2. PICK d \in Callers, j \in 1..MaxEvents : f = <<d, j>>
        BY DEF Events
      <4>3. c = d /\ c \in Inline
        BY <3>5, <4>1, <4>2 DEF LoneWriter, Tenant
      <4>4. InFlight(<<c, i>>) /\ InFlight(<<c, j>>)
        BY <3>2, <3>5, <4>1, <4>2, <4>3 DEF InFlight
      <4>5. i = j
        BY <4>3, <4>4 DEF Ordered
      <4> QED BY <3>2, <3>5, <4>1, <4>2, <4>3, <4>5
    <3>6. StillNewest'
      <4> SUFFICES ASSUME NEW f \in Events, phase'[f] = "insert", LoneWriter(Tenant(f))
                   PROVE  LatestHash(Tenant(f), prev[f])'
        BY <3>2 DEF StillNewest, LoneWriter, Tenant
      <4>1. LatestHash(Tenant(f), prev[f])
        BY <3>2 DEF StillNewest
      <4> QED BY <3>2, <3>3, <3>5, <4>1
    <3> QED BY <3>4, <3>6
  <2>5. ASSUME NEW e \in Events, Drop(e)
        PROVE  Inv'
    <3>1. \A f \in Events : phase'[f] = "insert" => phase[f] = "insert"
      BY <2>5, <2>t DEF Drop
    <3> QED BY <2>1, <2>5, <3>1 DEF Drop
  <2>6. CASE HelperInsert
    <3>1. PICK a \in Actions, h \in Readable :
            /\ LatestHash(DefaultTenant, h)
            /\ rows' = Append(rows, AuditRow(a, DefaultTenant, h, FromHelper))
      BY <2>6 DEF HelperInsert
    <3> DEFINE row == AuditRow(a, DefaultTenant, h, FromHelper)
    <3>2. row \in AuditRows /\ row.tenant = DefaultTenant
      BY <3>1, LatestRooted, RowTyped DEF AuditTenants, AuditRow, Typed
    <3>3. rows' = Append(rows, row) /\ phase' = phase /\ prev' = prev
      BY <2>6, <3>1 DEF HelperInsert
    <3> HIDE DEF row
    <3>n. PICK n : n = Len(rows)
      OBVIOUS
    <3>4. /\ n \in Nat /\ Len(rows') = n + 1 /\ rows'[n + 1] = row
          /\ \A i \in 1..n : rows'[i] = rows[i] /\ (Linked(i) => Linked(i)')
          /\ \A t, g : t # DefaultTenant /\ LatestHash(t, g) => LatestHash(t, g)'
      BY <3>n, <3>2, <3>3, <2>t, LinkedAppend
    <3>5. AwaitedLinear'
      <4> SUFFICES ASSUME NEW i \in 1..Len(rows'), LoneWriter(rows'[i].tenant)
                   PROVE  Linked(i)'
        BY DEF AwaitedLinear, LoneWriter
      <4>1. i \in 1..n
        BY <3>2, <3>4 DEF LoneWriter
      <4> QED BY <3>n, <3>4, <4>1 DEF AwaitedLinear
    <3>6. StillNewest'
      <4> SUFFICES ASSUME NEW f \in Events, phase[f] = "insert", LoneWriter(Tenant(f))
                   PROVE  LatestHash(Tenant(f), prev[f])'
        BY <3>3 DEF StillNewest, LoneWriter, Tenant
      <4>1. LatestHash(Tenant(f), prev[f]) /\ Tenant(f) # DefaultTenant
        BY DEF StillNewest, LoneWriter
      <4> QED BY <3>3, <3>4, <4>1
    <3> QED BY <3>5, <3>6
  <2>7. CASE SinkRestarts
    <3>1. \A f \in Events : phase'[f] # "insert"
      BY <2>7, <2>t DEF SinkRestarts, InFlight
    <3> QED BY <2>1, <2>7, <3>1 DEF SinkRestarts
  <2>8. CASE UNCHANGED auditVars
    BY <2>1, <2>8 DEF auditVars
  <2> QED
    BY <2>2, <2>3, <2>4, <2>5, <2>6, <2>7, <2>8 DEF AuditNext
<1> QED
  BY <1>1, <1>2, TypedAlways, OrderedAlways, PTL DEF AuditSpec

-----------------------------------------------------------------------------
(* The comments and locks                                                  *)

USE CollabAssumption

(* The table holds this comment.                                           *)
Holds(i, t, f, x) ==
  /\ comments[i] # Nobody
  /\ comments[i].tenant = t /\ comments[i].file = f /\ comments[i].text = x

(* What the stage of a command says of its other parts.                    *)
CallShape ==
  \A c \in Calls :
    /\ stage[c] = "idle" => by[c] = "nobody"
    /\ by[c] = "page" => tenant[c] = Single
    /\ by[c] = "other" => op[c] \in {"add", "resolve"}
    /\ op[c] \in LockOps => stage[c] \in {"lock", "ok"}
    /\ stage[c] = "lock" => op[c] \in LockOps
    /\ op[c] = "add" => text[c] \in Texts
    /\ op[c] = "add" /\ stage[c] \in {"table", "ok"} => id[c] \in Ids
    /\ stage[c] = "remembered" => id[c] = MemoryId

(* A comment that is about to be told is in the table.                     *)
Answered ==
  \A c \in Calls :
    stage[c] = "ok" /\ op[c] = "add" => Holds(id[c], tenant[c], file[c], text[c])

FoundHere ==
  \A c \in Calls :
    by[c] = "page" =>
      \A i \in found[c] : comments[i] # Nobody /\ comments[i].tenant = Single

TableInv == TypeOK /\ CallShape /\ Answered /\ FoundHere /\ ToldIsKept /\ TenantsApart

-----------------------------------------------------------------------------
(* Types                                                                   *)

LEMMA Milliseconds == 1 \in Ids /\ MemoryId \in Shown /\ MemoryId \notin Ids /\ Ids \subseteq Shown
  BY DEF Ids, Shown, MemoryId

LEMMA NewPageType == NewPage \in [file : Files, lock : Files \cup {"none"}]
  BY DEF NewPage

LEMMA InitType == Init => TypeOK
  <1> SUFFICES ASSUME Init PROVE TypeOK
    OBVIOUS
  <1>1. clock \in Ids /\ adds \in 0..MaxAdds
    BY Milliseconds DEF Init
  <1>2. comments \in [Ids -> Rows \cup {Nobody}] /\ stage \in [Calls -> Stages]
    BY DEF Init, Stages
  <1>3. /\ op \in [Calls -> CommentOps \cup LockOps \cup {"none"}]
        /\ by \in [Calls -> {"page", "other", "nobody"}]
        /\ tenant \in [Calls -> Tenants] /\ file \in [Calls -> Files]
    BY DEF Init
  <1>4. /\ id \in [Calls -> Shown] /\ text \in [Calls -> 0..MaxAdds]
        /\ found \in [Calls -> SUBSET Ids]
    BY Milliseconds DEF Init
  <1>5. listed \in [Ids -> Nat]
    BY DEF Init, Blank
  <1> QED
    BY <1>1, <1>2, <1>3, <1>4, <1>5, NewPageType DEF Init, TypeOK

LEMMA BeginType ==
  ASSUME TypeOK, NEW c \in Calls, NEW who \in {"page", "other"},
         NEW o \in CommentOps \cup LockOps, NEW t \in Tenants, NEW f \in Files,
         Begin(c, who, o, t, f), patient' \in BOOLEAN
  PROVE  TypeOK'
  <1>1. adds' \in 0..MaxAdds
    BY DEF Begin, TypeOK
  <1>2. text' \in [Calls -> 0..MaxAdds]
    <2>1. IF o = "add" THEN adds + 1 \in 0..MaxAdds ELSE TRUE
      BY DEF Begin, TypeOK
    <2> QED
      BY <2>1 DEF Begin, TypeOK
  <1>3. id' \in [Calls -> Shown]
    BY Milliseconds DEF Begin, TypeOK
  <1>4. /\ stage' \in [Calls -> Stages]
        /\ op' \in [Calls -> CommentOps \cup LockOps \cup {"none"}]
        /\ by' \in [Calls -> {"page", "other", "nobody"}]
    BY DEF Begin, TypeOK, Stages
  <1>5. /\ tenant' \in [Calls -> Tenants] /\ file' \in [Calls -> Files]
        /\ found' \in [Calls -> SUBSET Ids]
    BY DEF Begin, TypeOK
  <1>6. UNCHANGED <<clock, comments, told, locks, page, listed>>
    BY DEF Begin
  <1> QED
    BY <1>1, <1>2, <1>3, <1>4, <1>5, <1>6 DEF TypeOK

LEMMA RowType ==
  ASSUME NEW t \in Tenants, NEW f \in Files, NEW x \in Texts, NEW r \in BOOLEAN
  PROVE  Row(t, f, x, r) \in Rows /\ Row(t, f, x, r) # Nobody
  <1>1. Row(t, f, x, r) \in Rows
    BY DEF Row, Rows
  <1>2. Row(t, f, x, r).tenant # Nobody.tenant
    BY DEF Row, Nobody
  <1> QED
    BY <1>1, <1>2

LEMMA StoreType ==
  ASSUME TypeOK, CallShape, NEW c \in Calls,
         Connect(c) \/ InMemory(c) \/ Refuse(c) \/ Insert(c) \/ List(c) \/ Resolve(c)
  PROVE  TypeOK'
  <1>1. UNCHANGED <<clock, adds, op, by, tenant, file, text, told, locks, page, listed, patient>>
    BY DEF Connect, InMemory, Refuse, Insert, List, Resolve, storeUnchanged, callVars, pageVars
  <1>2. stage' \in [Calls -> Stages]
    <2>1. PICK s \in {"table", "remembered", "ok", "err"} : stage' = [stage EXCEPT ![c] = s]
      BY DEF Connect, InMemory, Refuse, Insert, List, Resolve, Commit
    <2> QED
      BY <2>1 DEF TypeOK, Stages
  <1>3. id' \in [Calls -> Shown]
    <2>1. CASE Connect(c)
      BY <2>1, Milliseconds DEF Connect, TypeOK
    <2>2. CASE InMemory(c)
      BY <2>2, Milliseconds DEF InMemory, TypeOK
    <2>3. CASE UNCHANGED id
      BY <2>3 DEF TypeOK
    <2> QED
      BY <2>1, <2>2, <2>3 DEF Refuse, Insert, List, Resolve
  <1>4. found' \in [Calls -> SUBSET Ids]
    <2>1. Listed(tenant[c], file[c]) \in SUBSET Ids
      BY DEF Listed
    <2>2. CASE List(c)
      BY <2>1, <2>2 DEF List, TypeOK
    <2>3. CASE UNCHANGED found
      BY <2>3 DEF TypeOK
    <2> QED
      BY <2>2, <2>3 DEF Connect, InMemory, Refuse, Insert, Resolve
  <1>5. comments' \in [Ids -> Rows \cup {Nobody}]
    <2>1. CASE Insert(c)
      <3>1. Row(tenant[c], file[c], text[c], FALSE) \in Rows
        BY <2>1, RowType DEF Insert, TypeOK, CallShape
      <3> QED
        BY <2>1, <3>1 DEF Insert, TypeOK
    <2>2. CASE Resolve(c)
      <3>1. ASSUME NEW i \in Ids, comments[i].tenant = tenant[c]
            PROVE  Resolved(comments[i]) \in Rows
        <4>1. comments[i] \in Rows
          BY <3>1 DEF TypeOK, Nobody
        <4> QED
          BY <4>1, RowType DEF Rows, Resolved
      <3> QED
        BY <2>2, <3>1 DEF Resolve, TypeOK
    <2>3. CASE UNCHANGED comments
      BY <2>3 DEF TypeOK
    <2> QED
      BY <2>1, <2>2, <2>3 DEF Connect, InMemory, Refuse, List
  <1> QED
    BY <1>1, <1>2, <1>3, <1>4, <1>5 DEF TypeOK

LEMMA ForgetType ==
  ASSUME TypeOK, NEW done \in SUBSET Calls, Forget(done)
  PROVE  /\ stage' \in [Calls -> Stages]
         /\ op' \in [Calls -> CommentOps \cup LockOps \cup {"none"}]
         /\ by' \in [Calls -> {"page", "other", "nobody"}]
         /\ tenant' \in [Calls -> Tenants] /\ file' \in [Calls -> Files]
         /\ id' \in [Calls -> Shown] /\ text' \in [Calls -> 0..MaxAdds]
         /\ found' \in [Calls -> SUBSET Ids]
  <1>1. stage' \in [Calls -> Stages] /\ by' \in [Calls -> {"page", "other", "nobody"}]
    BY DEF Forget, TypeOK, Stages
  <1>2. op' \in [Calls -> CommentOps \cup LockOps \cup {"none"}]
    BY DEF Forget, TypeOK
  <1>3. tenant' \in [Calls -> Tenants] /\ file' \in [Calls -> Files]
    BY DEF Forget, TypeOK
  <1>4. id' \in [Calls -> Shown] /\ text' \in [Calls -> 0..MaxAdds]
    BY Milliseconds DEF Forget, TypeOK
  <1>5. found' \in [Calls -> SUBSET Ids]
    BY DEF Forget, TypeOK
  <1> QED
    BY <1>1, <1>2, <1>3, <1>4, <1>5

LEMMA ReceiveType ==
  ASSUME TypeOK, CallShape, NEW c \in Calls, Receive(c)
  PROVE  TypeOK'
  <1>1. Forget({c}) /\ UNCHANGED <<clock, adds, comments, locks, patient>>
    BY DEF Receive
  <1>2. told' \subseteq [id : Ids, tenant : Tenants, file : Files, text : Texts]
    <2>1. stage[c] = "ok" /\ op[c] = "add" => id[c] \in Ids /\ text[c] \in Texts
      BY DEF CallShape
    <2> QED
      BY <2>1 DEF Receive, TypeOK
  <1>3. page' \in [file : Files, lock : Files \cup {"none"}]
    <2>1. LockShown(c) \in Files \cup {"none"}
      BY DEF LockShown, TypeOK
    <2> QED
      BY <2>1 DEF Receive, TypeOK
  <1>4. listed' \in [Ids -> Nat]
    <2>1. ListedThen(c) \in [Ids -> Nat]
      BY DEF ListedThen, TypeOK
    <2> QED
      BY <2>1 DEF Receive, TypeOK
  <1> QED
    BY <1>1, <1>2, <1>3, <1>4, ForgetType DEF TypeOK

LEMMA OtherType ==
  ASSUME TypeOK, (\E c \in Calls : LockStep(c)) \/ EditFile \/ Leave \/ Restart \/ Tick
  PROVE  TypeOK'
  <1>1. ASSUME NEW c \in Calls, LockStep(c)
        PROVE  TypeOK'
    <2>1. stage' \in [Calls -> Stages] /\ locks' \subseteq Files
      BY <1>1 DEF LockStep, TypeOK, Stages
    <2> QED
      BY <1>1, <2>1 DEF LockStep, TypeOK, callVars, pageVars
  <1>2. CASE EditFile
    <2>1. PICK f \in Files : page' = [page EXCEPT !.file = f]
      BY <1>2 DEF EditFile
    <2>2. page' \in [file : Files, lock : Files \cup {"none"}]
      BY <2>1 DEF TypeOK
    <2> QED
      BY <1>2, <2>2 DEF EditFile, TypeOK, workVars, callVars
  <1>3. CASE Leave
    <2>1. by' \in [Calls -> {"page", "other", "nobody"}] /\ listed' \in [Ids -> Nat]
      BY <1>3 DEF Leave, TypeOK, Blank
    <2>2. patient' \in BOOLEAN
      BY <1>3 DEF Leave, TypeOK
    <2> QED
      BY <1>3, <2>1, <2>2, NewPageType DEF Leave, TypeOK, workVars
  <1>4. CASE Restart
    <2>1. PICK done \in SUBSET Calls : Forget(done)
      BY <1>4 DEF Restart
    <2>2. listed' \in [Ids -> Nat]
      BY <1>4 DEF Restart, Blank
    <2> QED
      BY <1>4, <2>1, <2>2, ForgetType, NewPageType DEF Restart, TypeOK
  <1>5. CASE Tick
    <2>1. clock' \in Ids
      BY <1>5 DEF Tick, TypeOK, Ids
    <2> QED
      BY <1>5, <2>1 DEF Tick, TypeOK, workVars, callVars, pageVars
  <1> QED
    BY <1>1, <1>2, <1>3, <1>4, <1>5

-----------------------------------------------------------------------------
(* The table                                                               *)

Kept(i) ==
  comments[i] # Nobody =>
    /\ comments'[i] # Nobody
    /\ comments'[i].tenant = comments[i].tenant
    /\ comments'[i].file = comments[i].file
    /\ comments'[i].text = comments[i].text

LEMMA InsertedRow ==
  ASSUME TypeOK, CallShape, NEW c \in Calls, Insert(c)
  PROVE  /\ id[c] \in Ids /\ comments[id[c]] = Nobody
         /\ comments' = [comments EXCEPT ![id[c]] = Row(tenant[c], file[c], text[c], FALSE)]
         /\ comments'[id[c]] = Row(tenant[c], file[c], text[c], FALSE)
         /\ comments'[id[c]] # Nobody
  <1>1. text[c] \in Texts /\ id[c] \in Ids
    BY DEF Insert, CallShape
  <1>2. Row(tenant[c], file[c], text[c], FALSE) # Nobody
    BY <1>1, RowType DEF TypeOK
  <1> QED
    BY <1>1, <1>2 DEF Insert, TypeOK

LEMMA ResolvedRow ==
  ASSUME TypeOK, NEW t \in Tenants, NEW i \in Ids, comments[i].tenant = t
  PROVE  /\ comments[i] # Nobody /\ Resolved(comments[i]) # Nobody
         /\ Resolved(comments[i]).tenant = t
         /\ Resolved(comments[i]).file = comments[i].file
         /\ Resolved(comments[i]).text = comments[i].text
  <1>1. comments[i] \in Rows /\ comments[i] # Nobody
    BY DEF TypeOK, Nobody
  <1>2. Resolved(comments[i]) # Nobody
    BY <1>1, RowType DEF Rows, Resolved
  <1> QED
    BY <1>1, <1>2 DEF Resolved, Row

LEMMA TableGrows ==
  ASSUME TypeOK, CallShape, NEW i \in Ids, NEW c \in Calls, Insert(c) \/ Resolve(c)
  PROVE  Kept(i)
  <1>1. CASE Insert(c)
    BY <1>1, InsertedRow DEF Kept, TypeOK
  <1>2. CASE Resolve(c)
    <2>1. tenant[c] \in Tenants
      BY DEF TypeOK
    <2>2. comments'[i] = IF i = id[c] /\ comments[i].tenant = tenant[c]
                         THEN Resolved(comments[i]) ELSE comments[i]
      BY <1>2 DEF Resolve
    <2> QED
      BY <2>1, <2>2, ResolvedRow DEF Kept
  <1> QED
    BY <1>1, <1>2

(* What follows when the table keeps its comments.                         *)
LEMMA KeptHolds ==
  ASSUME NEW i \in Ids, Kept(i), NEW t, NEW f, NEW x, Holds(i, t, f, x)
  PROVE  Holds(i, t, f, x)'
  BY DEF Holds, Kept

LEMMA KeptTable ==
  ASSUME TableInv, \A i \in Ids : Kept(i), UNCHANGED <<told, listed>>
  PROVE  ToldIsKept' /\ TenantsApart'
  <1>1. ToldIsKept'
    <2>1. \A k \in told : k.id \in Ids
      BY DEF TableInv, TypeOK
    <2> QED
      BY <2>1 DEF TableInv, ToldIsKept, Kept
  <1>2. TenantsApart'
    BY DEF TableInv, TenantsApart, Kept
  <1> QED
    BY <1>1, <1>2

LEMMA UnchangedTable ==
  ASSUME UNCHANGED comments
  PROVE  \A i \in Ids : Kept(i)
  BY DEF Kept

-----------------------------------------------------------------------------
LEMMA TableInit == Init => TableInv
  <1> SUFFICES ASSUME Init PROVE TableInv
    OBVIOUS
  <1>1. TypeOK
    BY InitType
  <1>2. CallShape /\ Answered /\ FoundHere
    BY DEF Init, CallShape, Answered, FoundHere, LockOps
  <1>3. ToldIsKept /\ TenantsApart
    BY DEF Init, ToldIsKept, TenantsApart, Blank
  <1> QED
    BY <1>1, <1>2, <1>3 DEF TableInv

LEMMA BeginTable ==
  ASSUME TableInv, NEW c \in Calls, NEW who \in {"page", "other"},
         NEW o \in CommentOps \cup LockOps, NEW t \in Tenants, NEW f \in Files,
         Begin(c, who, o, t, f), patient' \in BOOLEAN,
         who = "page" => t = Single, who = "other" => o \in {"add", "resolve"}
  PROVE  TableInv'
  <1>1. TypeOK'
    BY BeginType DEF TableInv
  <1>2. UNCHANGED <<comments, told, listed>> /\ stage[c] = "idle"
    BY DEF Begin
  <1>3. CallShape'
    <2>1. o = "add" => text'[c] \in Texts
      BY DEF Begin, TableInv, TypeOK, Texts
    <2>2. \A d \in Calls \ {c} : id'[d] = id[d]
      BY DEF Begin, TableInv, TypeOK
    <2> QED
      BY <2>1, <2>2 DEF Begin, TableInv, TypeOK, CallShape, LockOps, CommentOps
  <1>4. Answered'
    <2>1. \A d \in Calls \ {c} : id'[d] = id[d]
      BY DEF Begin, TableInv, TypeOK
    <2> QED
      BY <2>1 DEF Begin, TableInv, TypeOK, Answered, Holds
  <1>5. FoundHere'
    BY DEF Begin, TableInv, TypeOK, FoundHere
  <1> QED
    BY <1>1, <1>2, <1>3, <1>4, <1>5, UnchangedTable, KeptTable DEF TableInv

(* A step that only moves a command on, to an answer it did not have.      *)
LEMMA StoreTable ==
  ASSUME TableInv, NEW c \in Calls,
         Connect(c) \/ InMemory(c) \/ Refuse(c) \/ Insert(c) \/ List(c) \/ Resolve(c)
  PROVE  TableInv'
  <1>1. TypeOK'
    BY StoreType DEF TableInv
  <1>2. UNCHANGED <<op, by, tenant, file, text, told, listed>>
    BY DEF Connect, InMemory, Refuse, Insert, List, Resolve, storeUnchanged, callVars, pageVars
  <1>3. \A i \in Ids : Kept(i)
    <2>1. CASE Insert(c) \/ Resolve(c)
      BY <2>1, TableGrows DEF TableInv
    <2>2. CASE UNCHANGED comments
      BY <2>2, UnchangedTable
    <2> QED
      BY <2>1, <2>2 DEF Connect, InMemory, Refuse, List
  <1>4. /\ \A d \in Calls \ {c} : stage'[d] = stage[d] /\ id'[d] = id[d]
        /\ stage[c] \in {"connect", "table"}
        /\ stage'[c] \in {"table", "remembered", "ok", "err"}
    <2>1. PICK s \in {"table", "remembered", "ok", "err"} : stage' = [stage EXCEPT ![c] = s]
      BY DEF Connect, InMemory, Refuse, Insert, List, Resolve, Commit
    <2>2. \/ UNCHANGED id
          \/ id' = [id EXCEPT ![c] = IF op[c] = "add" THEN clock ELSE @]
          \/ id' = [id EXCEPT ![c] = MemoryId]
      BY DEF Connect, InMemory, Refuse, Insert, List, Resolve
    <2>3. stage[c] \in {"connect", "table"}
      BY DEF Connect, InMemory, Refuse, Insert, List, Resolve
    <2> QED
      BY <2>1, <2>2, <2>3 DEF TableInv, TypeOK
  <1>5. /\ op[c] = "add" /\ stage'[c] \in {"table", "ok"} => id'[c] \in Ids
        /\ stage'[c] = "remembered" => id'[c] = MemoryId
    <2>1. CASE Connect(c)
      BY <2>1 DEF Connect, TableInv, TypeOK
    <2>2. CASE InMemory(c)
      BY <2>2 DEF InMemory, TableInv, TypeOK
    <2>3. CASE Refuse(c) \/ Insert(c) \/ List(c) \/ Resolve(c)
      <3>1. stage[c] = "table" /\ UNCHANGED id /\ stage'[c] \in {"ok", "err"}
        <4>1. PICK s \in {"ok", "err"} : stage' = [stage EXCEPT ![c] = s]
          BY <2>3 DEF Refuse, Insert, List, Resolve, Commit
        <4> QED
          BY <2>3, <4>1 DEF Refuse, Insert, List, Resolve, TableInv, TypeOK
      <3> QED
        BY <3>1 DEF TableInv, CallShape
    <2> QED
      BY <2>1, <2>2, <2>3
  <1>6. CallShape'
    BY <1>2, <1>4, <1>5 DEF TableInv, CallShape
  <1>7. Answered'
    <2>1. SUFFICES ASSUME NEW d \in Calls, stage'[d] = "ok", op[d] = "add"
                   PROVE  Holds(id[d], tenant[d], file[d], text[d])'
      BY <1>2 DEF Answered
    <2>2. CASE d # c
      <3>1. Holds(id[d], tenant[d], file[d], text[d]) /\ id[d] \in Ids
        BY <1>4, <2>1, <2>2 DEF TableInv, Answered, CallShape
      <3>2. id'[d] = id[d] /\ Kept(id[d])
        BY <1>3, <1>4, <2>2, <3>1
      <3> QED
        BY <1>2, <3>1, <3>2 DEF Holds, Kept
    <2>3. CASE d = c
      <3>1. Insert(c)
        <4>1. ~Connect(c) /\ ~InMemory(c) /\ ~Refuse(c)
          BY <2>1, <2>3 DEF Connect, InMemory, Refuse, TableInv, TypeOK
        <4>2. ~List(c) /\ ~Resolve(c)
          BY <2>1, <2>3 DEF List, Resolve
        <4> QED
          BY <4>1, <4>2
      <3>2. comments'[id[c]] = Row(tenant[c], file[c], text[c], FALSE)
            /\ comments'[id[c]] # Nobody /\ UNCHANGED id
        BY <3>1, InsertedRow DEF Insert, TableInv
      <3> QED
        BY <1>2, <2>3, <3>2 DEF Holds, Row
    <2> QED
      BY <2>2, <2>3
  <1>8. FoundHere'
    <2>1. SUFFICES ASSUME NEW d \in Calls, by[d] = "page", NEW i \in found'[d]
                   PROVE  comments'[i] # Nobody /\ comments'[i].tenant = Single
      BY <1>2 DEF FoundHere
    <2>2. i \in Ids /\ Kept(i)
      BY <1>1, <1>3, <2>1 DEF TypeOK
    <2>3. comments[i] # Nobody /\ comments[i].tenant = Single
      <3>1. CASE List(c) /\ d = c
        <4>1. i \in Listed(tenant[c], file[c]) /\ tenant[c] = Single
          BY <3>1, <2>1 DEF List, TableInv, TypeOK, CallShape
        <4> QED
          BY <4>1 DEF Listed
      <3>2. CASE ~(List(c) /\ d = c)
        <4>1. found'[d] = found[d]
          BY <3>2 DEF Connect, InMemory, Refuse, Insert, List, Resolve, TableInv, TypeOK
        <4> QED
          BY <2>1, <4>1 DEF TableInv, FoundHere
      <3> QED
        BY <3>1, <3>2
    <2> QED
      BY <2>2, <2>3 DEF Kept
  <1> QED
    BY <1>1, <1>2, <1>3, <1>6, <1>7, <1>8, KeptTable DEF TableInv

LEMMA ForgetTable ==
  ASSUME TableInv, NEW done \in SUBSET Calls, Forget(done), UNCHANGED comments
  PROVE  CallShape' /\ Answered' /\ FoundHere'
  <1>1. \A d \in Calls \ done :
          /\ stage'[d] = stage[d] /\ op'[d] = op[d] /\ by'[d] = by[d]
          /\ tenant'[d] = tenant[d] /\ file'[d] = file[d] /\ id'[d] = id[d]
          /\ text'[d] = text[d] /\ found'[d] = found[d]
    BY DEF Forget
  <1>2. \A d \in done :
          stage'[d] = "idle" /\ op'[d] = "none" /\ by'[d] = "nobody" /\ found'[d] = {}
    BY DEF Forget
  <1>3. CallShape'
    BY <1>1, <1>2 DEF TableInv, CallShape, LockOps
  <1>4. Answered'
    BY <1>1, <1>2 DEF TableInv, Answered, Holds
  <1>5. FoundHere'
    BY <1>1, <1>2 DEF TableInv, FoundHere
  <1> QED
    BY <1>3, <1>4, <1>5

LEMMA ReceiveTable ==
  ASSUME TableInv, NEW c \in Calls, Receive(c)
  PROVE  TableInv'
  <1>1. TypeOK'
    BY ReceiveType DEF TableInv
  <1>2. Forget({c}) /\ UNCHANGED comments
    BY DEF Receive
  <1>3. CallShape' /\ Answered' /\ FoundHere'
    BY <1>2, ForgetTable
  <1>4. ToldIsKept'
    <2>1. CASE stage[c] = "ok" /\ op[c] = "add"
      <3>1. Holds(id[c], tenant[c], file[c], text[c])
        BY <2>1 DEF TableInv, Answered
      <3>2. told' = told \cup {[id |-> id[c], tenant |-> tenant[c], file |-> file[c],
                                text |-> text[c]]}
        BY <2>1 DEF Receive
      <3> QED
        BY <1>2, <3>1, <3>2 DEF TableInv, ToldIsKept, Holds
    <2>2. CASE ~(stage[c] = "ok" /\ op[c] = "add")
      BY <1>2, <2>2 DEF Receive, TableInv, ToldIsKept
    <2> QED
      BY <2>1, <2>2
  <1>5. TenantsApart'
    <2>1. CASE by[c] = "page" /\ Succeeds(c) /\ listed' = ListedThen(c)
      <3>1. SUFFICES ASSUME NEW i \in Ids, listed'[i] > 0, ~(listed[i] > 0)
                     PROVE  comments[i] # Nobody /\ comments[i].tenant = Single
        BY <1>2 DEF TableInv, TenantsApart
      <3>2. CASE op[c] = "add"
        <4>1. i = id[c]
          BY <2>1, <3>1, <3>2 DEF ListedThen
        <4>2. stage[c] = "ok"
          BY <2>1, <4>1, Milliseconds DEF Succeeds, TableInv, CallShape
        <4> QED
          BY <2>1, <3>2, <4>1, <4>2 DEF TableInv, CallShape, Answered, Holds
      <3>3. CASE op[c] # "add"
        <4>1. i \in found[c]
          BY <2>1, <3>1, <3>3 DEF ListedThen
        <4> QED
          BY <2>1, <4>1 DEF TableInv, FoundHere
      <3> QED
        BY <3>2, <3>3
    <2>2. CASE UNCHANGED listed
      BY <1>2, <2>2 DEF TableInv, TenantsApart
    <2> QED
      BY <2>1, <2>2 DEF Receive
  <1> QED
    BY <1>1, <1>3, <1>4, <1>5 DEF TableInv

LEMMA OtherTable ==
  ASSUME TableInv, (\E c \in Calls : LockStep(c)) \/ EditFile \/ Leave \/ Restart \/ Tick
  PROVE  TableInv'
  <1>1. TypeOK'
    BY OtherType DEF TableInv
  <1>2. ToldIsKept' /\ TenantsApart'
    <2>1. UNCHANGED <<comments, told>> /\ (listed' = listed \/ listed' = Blank)
      BY DEF LockStep, EditFile, Leave, Restart, Tick, pageVars
    <2> QED
      BY <2>1 DEF TableInv, ToldIsKept, TenantsApart, Blank
  <1>3. ASSUME NEW c \in Calls, LockStep(c)
        PROVE  CallShape' /\ Answered' /\ FoundHere'
    <2>1. /\ UNCHANGED <<comments, op, by, tenant, file, text, id, found>>
          /\ stage[c] = "lock" /\ stage' = [stage EXCEPT ![c] = "ok"]
          /\ op[c] \in LockOps
      BY <1>3 DEF LockStep, callVars, TableInv, CallShape
    <2> QED
      BY <2>1 DEF TableInv, TypeOK, CallShape, Answered, Holds, FoundHere, LockOps
  <1>4. CASE EditFile \/ Tick
    <2>1. UNCHANGED <<comments, stage, op, by, tenant, file, text, id, found>>
      BY <1>4 DEF EditFile, Tick, workVars, callVars
    <2> QED
      BY <1>1, <1>2, <2>1 DEF TableInv, CallShape, Answered, Holds, FoundHere
  <1>5. CASE Leave
    <2>1. /\ UNCHANGED <<comments, stage, op, tenant, file, text, id, found>>
          /\ by' = [c \in Calls |-> IF by[c] = "page" THEN "nobody" ELSE by[c]]
      BY <1>5 DEF Leave, workVars
    <2> QED
      BY <1>1, <1>2, <2>1 DEF TableInv, CallShape, Answered, Holds, FoundHere
  <1>6. CASE Restart
    <2>1. PICK done \in SUBSET Calls : Forget(done)
      BY <1>6 DEF Restart
    <2> QED
      BY <1>1, <1>2, <1>6, <2>1, ForgetTable DEF Restart, TableInv
  <1> QED
    BY <1>1, <1>2, <1>3, <1>4, <1>5, <1>6 DEF TableInv

LEMMA FromPageBegins ==
  ASSUME NEW c \in Calls, FromPage(c)
  PROVE  \E o \in {"add", "list"} \cup LockOps : Begin(c, "page", o, Single, page.file)
  BY DEF FromPage

LEMMA FromElsewhereBegins ==
  ASSUME NEW c \in Calls, FromElsewhere(c)
  PROVE  \E t \in Tenants, o \in {"add", "resolve"} : Begin(c, "other", o, t, FirstFile)
  BY DEF FromElsewhere

LEMMA TableNext == TableInv /\ [Next]_vars => TableInv'
  <1> SUFFICES ASSUME TableInv, [Next]_vars PROVE TableInv'
    OBVIOUS
  <1>1. ASSUME NEW c \in Calls, FromPage(c)
        PROVE  TableInv'
    <2>1. PICK o \in {"add", "list"} \cup LockOps : Begin(c, "page", o, Single, page.file)
      BY <1>1, FromPageBegins
    <2>2. page.file \in Files /\ patient' \in BOOLEAN
      BY <1>1 DEF FromPage, TableInv, TypeOK
    <2>3. o \in CommentOps \cup LockOps
      BY DEF CommentOps
    <2> QED
      BY <2>1, <2>2, <2>3, BeginTable
  <1>2. ASSUME NEW c \in Calls, FromElsewhere(c)
        PROVE  TableInv'
    <2>1. PICK t \in Tenants, o \in {"add", "resolve"} : Begin(c, "other", o, t, FirstFile)
      BY <1>2, FromElsewhereBegins
    <2>2. patient' \in BOOLEAN
      BY <1>2 DEF FromElsewhere, TableInv, TypeOK
    <2>3. o \in CommentOps \cup LockOps
      BY DEF CommentOps
    <2> QED
      BY <2>1, <2>2, <2>3, BeginTable
  <1>3. ASSUME NEW c \in Calls,
               Connect(c) \/ InMemory(c) \/ Refuse(c) \/ Insert(c) \/ List(c) \/ Resolve(c)
        PROVE  TableInv'
    BY <1>3, StoreTable
  <1>4. ASSUME NEW c \in Calls, Receive(c)
        PROVE  TableInv'
    BY <1>4, ReceiveTable
  <1>5. CASE (\E c \in Calls : LockStep(c)) \/ EditFile \/ Leave \/ Restart \/ Tick
    BY <1>5, OtherTable
  <1>6. CASE UNCHANGED vars
    BY <1>6 DEF vars, workVars, callVars, pageVars, TableInv, TypeOK, CallShape, Answered,
       Holds, FoundHere, ToldIsKept, TenantsApart
  <1> QED
    BY <1>1, <1>2, <1>3, <1>4, <1>5, <1>6 DEF Next

LEMMA TableInvariant == Spec => []TableInv
  BY TableInit, TableNext, PTL DEF Spec

(***************************************************************************)
(* Every variable keeps its type.                                          *)
(***************************************************************************)
THEOREM CollabTypes == Spec => []TypeOK
  <1>1. TableInv => TypeOK
    BY DEF TableInv
  <1> QED
    BY <1>1, TableInvariant, PTL

(***************************************************************************)
(* What a caller was told to be in the database stays there, as it was     *)
(* given (PgCommentStore::add answers after the commit; ids are keys).     *)
(***************************************************************************)
THEOREM ToldStays == Spec => []ToldIsKept
  <1>1. TableInv => ToldIsKept
    BY DEF TableInv
  <1> QED
    BY <1>1, TableInvariant, PTL

(***************************************************************************)
(* The page lists no comment of another tenant, and none that is not in    *)
(* the table (PgCommentStore::list_for_file, CollabPage.tsx).              *)
(***************************************************************************)
THEOREM OwnTenantOnly == Spec => []TenantsApart
  <1>1. TableInv => TenantsApart
    BY DEF TableInv
  <1> QED
    BY <1>1, TableInvariant, PTL

-----------------------------------------------------------------------------
(* The table as a board                                                    *)

LEMMA BoardStep == TableInv /\ [Next]_vars => [Board!Next]_comments
  <1> SUFFICES ASSUME TableInv, [Next]_vars, comments' # comments
               PROVE  Board!Next
    OBVIOUS
  <1>1. PICK c \in Calls : Insert(c) \/ Resolve(c)
    BY DEF Next, vars, FromPage, FromElsewhere, Begin, Connect, InMemory, Refuse, List,
       LockStep, Receive, EditFile, Leave, Restart, Tick
  <1>2. CASE Insert(c)
    <2>1. text[c] \in Texts /\ tenant[c] \in Tenants /\ file[c] \in Files
      BY <1>2 DEF Insert, TableInv, TypeOK, CallShape
    <2>2. Board!add(id[c], tenant[c], file[c], text[c])
      BY <1>2 DEF Insert, Board!add, Board!None, Board!Comment, Nobody, Row
    <2>3. id[c] \in Ids
      BY <1>2, InsertedRow DEF TableInv
    <2> QED
      BY <2>1, <2>2, <2>3 DEF Board!Next
  <1>3. CASE Resolve(c)
    <2>1. comments' = [i \in Ids |-> IF i = id[c] /\ comments[i].tenant = tenant[c]
                                     THEN Resolved(comments[i]) ELSE comments[i]]
      BY <1>3 DEF Resolve
    <2>2. comments \in [Ids -> Rows \cup {Nobody}] /\ tenant[c] \in Tenants
      BY DEF TableInv, TypeOK
    <2>3. id[c] \in Ids /\ comments[id[c]].tenant = tenant[c]
      <3>1. CASE id[c] \notin Ids \/ comments[id[c]].tenant # tenant[c]
        <4>1. comments' = [i \in Ids |-> comments[i]]
          BY <2>1, <3>1
        <4> QED
          BY <2>2, <4>1
      <3> QED
        BY <3>1
    <2>4. comments[id[c]] # Nobody
      BY <2>2, <2>3, ResolvedRow DEF TableInv
    <2>5. comments' = [comments EXCEPT ![id[c]] = Resolved(comments[id[c]])]
      BY <2>1, <2>2, <2>3
    <2>6. Board!resolve(id[c])
      BY <2>4, <2>5 DEF Board!resolve, Board!None, Board!Comment, Nobody, Resolved, Row
    <2> QED
      BY <2>3, <2>6 DEF Board!Next
  <1> QED
    BY <1>1, <1>2, <1>3

(***************************************************************************)
(* The table is a board: a comment is written once under an id of its own  *)
(* and then at most resolved, whatever commands of whichever tenants do    *)
(* (PgCommentStore and its migration).                                     *)
(***************************************************************************)
THEOREM TableIsBoard == Spec => ImplementsBoard
  <1>1. Init => Board!Init
    BY DEF Init, Board!Init, Board!None, Nobody
  <1>2. TableInv /\ [Next]_vars => [Board!Next]_comments
    BY BoardStep
  <1> QED
    BY <1>1, <1>2, TableInvariant, PTL DEF Spec, ImplementsBoard, Board!Spec

-----------------------------------------------------------------------------
(* The patient user                                                        *)

Waits(c) == stage[c] # "idle" /\ by[c] # "other"

OneAtATime ==
  patient => \A c, d \in Calls : Waits(c) /\ Waits(d) => c = d /\ by[c] = "page"

(* The page has not listed the comment whose answer is on its way to it.   *)
Unlisted ==
  patient => \A c \in Calls :
    by[c] = "page" /\ op[c] = "add" /\ stage[c] = "ok" => listed[id[c]] = 0

Taken ==
  patient => \A c \in Calls :
    by[c] = "page" /\ op[c] = "acquire" /\ stage[c] = "ok" => file[c] \in locks

(* Only between the step of a lock and its answer does the page show what  *)
(* is not so.                                                              *)
LockHeld ==
  patient => \/ page.lock = "none" \/ page.lock \in locks
             \/ \E c \in Calls : by[c] = "page" /\ stage[c] = "ok" /\ op[c] \in LockOps

PatientInv == OneAtATime /\ Unlisted /\ Taken /\ LockHeld /\ ListedOnce

LEMMA PatientInit == Init => PatientInv
  BY DEF Init, PatientInv, OneAtATime, Waits, Unlisted, Taken, LockHeld, ListedOnce,
     NewPage, Blank

LEMMA BeginPatient ==
  ASSUME TableInv, PatientInv, NEW c \in Calls, FromPage(c) \/ FromElsewhere(c)
  PROVE  PatientInv'
  <1>1. PICK who \in {"page", "other"}, o \in CommentOps \cup LockOps, t \in Tenants, f \in Files :
          /\ Begin(c, who, o, t, f)
          /\ who = "other" => o \in {"add", "resolve"} /\ UNCHANGED patient
          /\ who = "page" =>
               patient' = (patient /\ \A d \in Calls : stage[d] = "idle" \/ by[d] = "other")
    <2>1. CASE FromPage(c)
      BY <2>1 DEF FromPage, TableInv, TypeOK, CommentOps
    <2>2. CASE FromElsewhere(c)
      BY <2>2 DEF FromElsewhere, CommentOps
    <2> QED
      BY <2>1, <2>2
  <1>2. /\ UNCHANGED <<locks, page, listed>> /\ stage[c] = "idle"
        /\ by'[c] = who /\ stage'[c] \in {"lock", "connect"}
        /\ \A d \in Calls \ {c} :
             /\ stage'[d] = stage[d] /\ by'[d] = by[d] /\ op'[d] = op[d]
             /\ file'[d] = file[d] /\ id'[d] = id[d]
    BY <1>1 DEF Begin, TableInv, TypeOK
  <1>3. SUFFICES ASSUME patient' PROVE PatientInv'
    BY DEF PatientInv, OneAtATime, Unlisted, Taken, LockHeld, ListedOnce
  <1>4. patient
    <2>1. CASE who = "page"
      BY <1>1, <1>3, <2>1
    <2>2. CASE who = "other"
      BY <1>1, <1>3, <2>2
    <2> QED
      BY <2>1, <2>2
  <1>5. OneAtATime'
    <2>1. CASE who = "page"
      <3>1. \A d \in Calls : ~Waits(d)
        BY <1>1, <1>3, <2>1 DEF Waits
      <3> QED
        BY <1>2, <2>1, <3>1 DEF OneAtATime, Waits
    <2>2. CASE who = "other"
      BY <1>2, <1>4, <2>2 DEF PatientInv, OneAtATime, Waits
    <2> QED
      BY <2>1, <2>2
  <1>6. Unlisted' /\ Taken' /\ ListedOnce'
    BY <1>2, <1>4 DEF PatientInv, Unlisted, Taken, ListedOnce
  <1>7. LockHeld'
    BY <1>2, <1>4 DEF PatientInv, LockHeld
  <1> QED
    BY <1>5, <1>6, <1>7 DEF PatientInv

(* A command moves on, unanswered.                                         *)
LEMMA StorePatient ==
  ASSUME TableInv, PatientInv, NEW c \in Calls,
         \/ Connect(c) \/ InMemory(c) \/ Refuse(c) \/ Insert(c) \/ List(c) \/ Resolve(c)
         \/ LockStep(c)
  PROVE  PatientInv'
  <1>1. UNCHANGED <<op, by, file, page, listed, patient>>
    BY DEF Connect, InMemory, Refuse, Insert, List, Resolve, LockStep, storeUnchanged,
       callVars, pageVars
  <1>2. /\ \A d \in Calls \ {c} : stage'[d] = stage[d] /\ id'[d] = id[d]
        /\ stage[c] \in {"connect", "table", "lock"}
    <2>1. PICK s \in {"table", "remembered", "ok", "err"} : stage' = [stage EXCEPT ![c] = s]
      BY DEF Connect, InMemory, Refuse, Insert, List, Resolve, LockStep, Commit
    <2>2. \/ UNCHANGED id
          \/ id' = [id EXCEPT ![c] = IF op[c] = "add" THEN clock ELSE @]
          \/ id' = [id EXCEPT ![c] = MemoryId]
      BY DEF Connect, InMemory, Refuse, Insert, List, Resolve, LockStep
    <2>3. stage[c] \in {"connect", "table", "lock"}
      BY DEF Connect, InMemory, Refuse, Insert, List, Resolve, LockStep
    <2> QED
      BY <2>1, <2>2, <2>3 DEF TableInv, TypeOK
  <1>3. SUFFICES ASSUME patient PROVE PatientInv'
    BY <1>1 DEF PatientInv, OneAtATime, Unlisted, Taken, LockHeld, ListedOnce
  <1>4. OneAtATime' /\ ListedOnce'
    BY <1>1, <1>2 DEF PatientInv, OneAtATime, Waits, ListedOnce
  <1>5. Unlisted'
    <2>1. SUFFICES ASSUME NEW d \in Calls, by[d] = "page", op[d] = "add", stage'[d] = "ok"
                   PROVE  listed[id'[d]] = 0
      BY <1>1 DEF Unlisted
    <2>2. CASE d # c
      BY <1>2, <1>3, <2>1, <2>2 DEF PatientInv, Unlisted
    <2>3. CASE d = c
      <3>1. ~Connect(c) /\ ~InMemory(c) /\ ~Refuse(c)
        BY <2>1, <2>3 DEF Connect, InMemory, Refuse, TableInv, TypeOK
      <3>2. ~List(c) /\ ~Resolve(c)
        BY <2>1, <2>3 DEF List, Resolve
      <3>3. ~LockStep(c)
        BY <2>1, <2>3 DEF LockStep, TableInv, CallShape, LockOps
      <3>4. Insert(c)
        BY <3>1, <3>2, <3>3
      <3>5. comments[id[c]] = Nobody /\ id[c] \in Ids /\ UNCHANGED id
        BY <3>4, InsertedRow DEF Insert, TableInv
      <3> QED
        BY <2>3, <3>5 DEF TableInv, TypeOK, TenantsApart
    <2> QED
      BY <2>2, <2>3
  <1>6. Taken' /\ LockHeld'
    <2>1. CASE LockStep(c)
      <3>1. by[c] = "page" /\ \A d \in Calls : d # c => ~(stage[d] # "idle" /\ by[d] = "page")
        <4>1. Waits(c)
          BY <2>1 DEF LockStep, Waits, TableInv, CallShape, LockOps
        <4> QED
          BY <1>3, <4>1 DEF PatientInv, OneAtATime, Waits
      <3>2. stage'[c] = "ok" /\ op[c] \in LockOps
        BY <2>1 DEF LockStep, TableInv, TypeOK, CallShape
      <3>3. Taken'
        BY <1>1, <1>2, <2>1, <3>1 DEF LockStep, Taken
      <3>4. LockHeld'
        BY <1>1, <3>1, <3>2 DEF LockHeld
      <3> QED
        BY <3>3, <3>4
    <2>2. CASE ~LockStep(c)
      <3>1. UNCHANGED locks
        BY <2>2 DEF Connect, InMemory, Refuse, Insert, List, Resolve, storeUnchanged
      <3>2. op[c] \notin LockOps
        BY <2>2 DEF Connect, InMemory, Refuse, Insert, List, Resolve, TableInv, CallShape
      <3> QED
        BY <1>1, <1>2, <1>3, <3>1, <3>2 DEF PatientInv, Taken, LockHeld, LockOps
    <2> QED
      BY <2>1, <2>2
  <1> QED
    BY <1>4, <1>5, <1>6 DEF PatientInv

LEMMA ReceivePatient ==
  ASSUME TableInv, PatientInv, NEW c \in Calls, Receive(c)
  PROVE  PatientInv'
  <1>1. /\ UNCHANGED <<locks, patient>> /\ stage[c] \in {"ok", "remembered", "err"}
        /\ stage'[c] = "idle" /\ by'[c] = "nobody" /\ op'[c] = "none"
        /\ \A d \in Calls \ {c} :
             /\ stage'[d] = stage[d] /\ by'[d] = by[d] /\ op'[d] = op[d]
             /\ file'[d] = file[d] /\ id'[d] = id[d]
    BY DEF Receive, Forget
  <1>2. SUFFICES ASSUME patient PROVE PatientInv'
    BY <1>1 DEF PatientInv, OneAtATime, Unlisted, Taken, LockHeld, ListedOnce
  <1>3. OneAtATime'
    BY <1>1, <1>2 DEF PatientInv, OneAtATime, Waits
  <1>4. Taken'
    BY <1>1, <1>2 DEF PatientInv, Taken
  <1>5. CASE by[c] = "page"
    <2>1. \A d \in Calls \ {c} : ~(stage[d] # "idle" /\ by[d] = "page")
      BY <1>1, <1>2, <1>5 DEF PatientInv, OneAtATime, Waits
    <2>2. Unlisted'
      BY <1>1, <2>1 DEF Unlisted
    <2>3. page'.lock = IF Succeeds(c) THEN LockShown(c) ELSE page.lock
      BY <1>5 DEF Receive, TableInv, TypeOK
    <2>4. LockHeld'
      <3>1. CASE Succeeds(c) /\ op[c] \in LockOps
        <4>1. stage[c] = "ok"
          BY <3>1 DEF Succeeds, TableInv, CallShape
        <4>2. page'.lock = "none" \/ page'.lock \in locks
          BY <1>2, <1>5, <2>3, <3>1, <4>1 DEF LockShown, LockOps, PatientInv, Taken
        <4> QED
          BY <1>1, <4>2 DEF LockHeld
      <3>2. CASE ~(Succeeds(c) /\ op[c] \in LockOps)
        <4>1. page'.lock = page.lock
          BY <2>3, <3>2 DEF LockShown, LockOps
        <4>2. \A d \in Calls : ~(by[d] = "page" /\ stage[d] = "ok" /\ op[d] \in LockOps)
          BY <2>1, <3>2 DEF Succeeds
        <4> QED
          BY <1>1, <1>2, <4>1, <4>2 DEF PatientInv, LockHeld
      <3> QED
        BY <3>1, <3>2
    <2>5. ListedOnce'
      <3>1. CASE Succeeds(c)
        <4>1. SUFFICES ASSUME NEW i \in Ids PROVE ListedThen(c)[i] <= 1
          BY <1>5, <3>1 DEF Receive, ListedOnce
        <4>2. listed[i] \in Nat /\ listed[i] <= 1
          BY <1>2 DEF PatientInv, ListedOnce, TableInv, TypeOK
        <4>3. CASE op[c] = "add"
          <5>1. i = id[c] => stage[c] = "ok"
            BY <3>1, Milliseconds DEF Succeeds, TableInv, CallShape
          <5>2. i = id[c] => listed[i] = 0
            BY <1>2, <1>5, <4>3, <5>1 DEF PatientInv, Unlisted
          <5>3. ListedThen(c)[i] = IF i = id[c] /\ listed[i] < 2 THEN listed[i] + 1 ELSE listed[i]
            BY <4>3 DEF ListedThen
          <5> QED
            BY <4>2, <5>2, <5>3
        <4>4. CASE op[c] # "add"
          BY <4>2, <4>4 DEF ListedThen
        <4> QED
          BY <4>3, <4>4
      <3>2. CASE ~Succeeds(c)
        BY <1>2, <3>2 DEF Receive, PatientInv, ListedOnce
      <3> QED
        BY <3>1, <3>2
    <2> QED
      BY <1>3, <1>4, <2>2, <2>4, <2>5 DEF PatientInv
  <1>6. CASE by[c] # "page"
    <2>1. UNCHANGED <<page, listed>>
      BY <1>6 DEF Receive
    <2>2. Unlisted' /\ ListedOnce'
      BY <1>1, <1>2, <2>1 DEF PatientInv, Unlisted, ListedOnce
    <2>3. LockHeld'
      BY <1>1, <1>2, <1>6, <2>1 DEF PatientInv, LockHeld
    <2> QED
      BY <1>3, <1>4, <2>2, <2>3 DEF PatientInv
  <1> QED
    BY <1>5, <1>6

LEMMA OtherPatient ==
  ASSUME TableInv, PatientInv, EditFile \/ Leave \/ Restart \/ Tick
  PROVE  PatientInv'
  <1>1. CASE EditFile \/ Tick
    <2>1. UNCHANGED <<stage, op, by, file, id, locks, listed, patient>> /\ page'.lock = page.lock
      BY <1>1 DEF EditFile, Tick, workVars, callVars, pageVars, TableInv, TypeOK
    <2>2. OneAtATime' /\ Unlisted' /\ Taken' /\ ListedOnce'
      BY <2>1 DEF PatientInv, OneAtATime, Waits, Unlisted, Taken, ListedOnce
    <2>3. LockHeld'
      BY <2>1 DEF PatientInv, LockHeld
    <2> QED
      BY <2>2, <2>3 DEF PatientInv
  <1>2. CASE Leave
    <2>1. /\ UNCHANGED <<stage, op, file, id, locks>> /\ page' = NewPage /\ listed' = Blank
          /\ \A c \in Calls : by'[c] # "page" /\ (by[c] = "other" => by'[c] = "other")
          /\ patient' => \A c \in Calls : stage[c] = "idle" \/ by[c] = "other"
      BY <1>2 DEF Leave, workVars
    <2>2. OneAtATime' /\ Unlisted' /\ Taken'
      BY <2>1 DEF OneAtATime, Waits, Unlisted, Taken
    <2>3. LockHeld' /\ ListedOnce'
      BY <2>1 DEF LockHeld, ListedOnce, NewPage, Blank
    <2> QED
      BY <2>2, <2>3 DEF PatientInv
  <1>3. CASE Restart
    <2>1. /\ page' = NewPage /\ listed' = Blank
          /\ \A c \in Calls : by'[c] \in {"nobody", "other"}
          /\ \A c \in Calls : by'[c] = "nobody" => stage'[c] = "idle"
      BY <1>3 DEF Restart, Forget, TableInv, TypeOK
    <2>2. OneAtATime' /\ Unlisted' /\ Taken'
      BY <2>1 DEF OneAtATime, Waits, Unlisted, Taken
    <2>3. LockHeld' /\ ListedOnce'
      BY <2>1 DEF LockHeld, ListedOnce, NewPage, Blank
    <2> QED
      BY <2>2, <2>3 DEF PatientInv
  <1> QED
    BY <1>1, <1>2, <1>3

LEMMA PatientNext == TableInv /\ PatientInv /\ [Next]_vars => PatientInv'
  <1> SUFFICES ASSUME TableInv, PatientInv, [Next]_vars PROVE PatientInv'
    OBVIOUS
  <1>1. CASE UNCHANGED vars
    BY <1>1 DEF vars, workVars, callVars, pageVars, PatientInv, OneAtATime, Waits,
       Unlisted, Taken, LockHeld, ListedOnce
  <1> QED
    BY <1>1, BeginPatient, StorePatient, ReceivePatient, OtherPatient DEF Next

LEMMA PatientInvariant == Spec => []PatientInv
  BY PatientInit, PatientNext, TableInvariant, PTL DEF Spec

(***************************************************************************)
(* A user who waits for each answer sees no comment listed twice           *)
(* (CollabPage.tsx appends what it adds and replaces what it lists).       *)
(***************************************************************************)
THEOREM NoneListedTwice == Spec => []ListedOnce
  <1>1. PatientInv => ListedOnce
    BY DEF PatientInv
  <1> QED
    BY <1>1, PatientInvariant, PTL

(***************************************************************************)
(* The file such a user sees locked is locked, once commands are answered  *)
(* (CollabPage.tsx, InMemoryLockStore).                                    *)
(***************************************************************************)
THEOREM ShownLockIsHeld == Spec => []LockShownIsHeld
  <1>1. PatientInv => LockShownIsHeld
    BY DEF PatientInv, LockHeld, LockShownIsHeld, Waiting
  <1> QED
    BY <1>1, PatientInvariant, PTL

=============================================================================
