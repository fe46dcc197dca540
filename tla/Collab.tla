------------------------------- MODULE Collab -------------------------------
(***************************************************************************)
(* Comments on code and editing locks (collab.rs) as the desktop's Collab  *)
(* page (domain/collab.rs, CollabPage.tsx) and the command line            *)
(* (cmd_comment of cli/src/lib.rs) use them.                               *)
(*                                                                         *)
(* Each command makes a comment store of its own: a connection to the      *)
(* database, or, when there is none, an empty memory that is gone when the *)
(* command ends.  The desktop process has one lock store; an invocation of *)
(* cmd_lock has one of its own, which ends with it and is not modelled.    *)
(*                                                                         *)
(* The database is modelled by what the code asks of it: a comment's id is *)
(* a primary key over all tenants; a transaction may be refused for any    *)
(* reason, or applied and its answer lost.                                 *)
(***************************************************************************)
EXTENDS Naturals

CONSTANTS
  Tenants,   \* tenants of the database
  Single,    \* the tenant of the desktop
  Files,     \* files
  FirstFile, \* the file the page is about when it opens
  Calls,     \* commands, as many as may be under way at once
  MaxClock,  \* bound of the model: milliseconds that pass
  MaxAdds    \* bound of the model: comments ever begun

ASSUME CollabAssumption ==
  /\ Single \in Tenants
  /\ FirstFile \in Files
  /\ "none" \notin Tenants \cup Files
  /\ MaxClock \in Nat \ {0}
  /\ MaxAdds \in Nat

(* The millisecond a comment was made is its id (c and the number).  The   *)
(* first id a fresh memory gives out, c1, is 0 here.                       *)
MemoryId == 0
Ids == 1..MaxClock
Shown == {MemoryId} \cup Ids
Texts == 1..MaxAdds

VARIABLES
  clock,    \* the time, in milliseconds
  adds,     \* how many comments were begun; the number of one is its text
  comments, \* the table of comments, by id
  stage,    \* how far a command is
  op,       \* what it does
  by,       \* who waits for it: the page, somebody else, or nobody any more
  tenant,   \* the tenant of its process
  file,     \* the file it is about
  id,       \* the comment it is about: the one to resolve, or the one made
  text,     \* the text of the comment to add
  found,    \* the comments a list has found
  told,     \* history: the comments the database was said to hold
  locks,    \* the desktop's lock store: the files that are locked
  page,     \* the page's file, and the file it shows as locked
  listed,   \* how often the page lists a comment of the table
  patient   \* history: the page had one command under way at a time

workVars == <<stage, id, found>>
callVars == <<op, by, tenant, file, text>>
pageVars == <<page, listed, patient>>
vars == <<clock, adds, comments, workVars, callVars, told, locks, pageVars>>

Nobody == [tenant |-> "none"]
Row(t, f, x, resolved) ==
  [tenant |-> t, file |-> f, text |-> x, resolved |-> resolved]

CommentOps == {"add", "list", "resolve"}
LockOps == {"acquire", "release"}

Blank == [i \in Ids |-> 0]
NewPage == [file |-> FirstFile, lock |-> "none"]

Init ==
  /\ clock = 1
  /\ adds = 0
  /\ comments = [i \in Ids |-> Nobody]
  /\ stage = [c \in Calls |-> "idle"]
  /\ op = [c \in Calls |-> "none"]
  /\ by = [c \in Calls |-> "nobody"]
  /\ tenant = [c \in Calls |-> Single]
  /\ file = [c \in Calls |-> FirstFile]
  /\ id = [c \in Calls |-> MemoryId]
  /\ text = [c \in Calls |-> 0]
  /\ found = [c \in Calls |-> {}]
  /\ told = {}
  /\ locks = {}
  /\ page = NewPage
  /\ listed = Blank
  /\ patient = TRUE

-----------------------------------------------------------------------------
(* A command begins                                                        *)

Begin(c, who, o, t, f) ==
  /\ stage[c] = "idle"
  /\ stage' = [stage EXCEPT ![c] = IF o \in LockOps THEN "lock" ELSE "connect"]
  /\ op' = [op EXCEPT ![c] = o]
  /\ by' = [by EXCEPT ![c] = who]
  /\ tenant' = [tenant EXCEPT ![c] = t]
  /\ file' = [file EXCEPT ![c] = f]
  /\ IF o = "add" THEN adds < MaxAdds /\ adds' = adds + 1 ELSE UNCHANGED adds
  /\ text' = [text EXCEPT ![c] = IF o = "add" THEN adds + 1 ELSE 0]
  /\ id' \in IF o = "resolve" THEN {[id EXCEPT ![c] = i] : i \in Ids}
             ELSE {[id EXCEPT ![c] = MemoryId]}
  /\ found' = [found EXCEPT ![c] = {}]
  /\ UNCHANGED <<clock, comments, told, locks, page, listed>>

(* A button of the page, which asks nothing of the commands before.        *)
FromPage(c) ==
  /\ \E o \in {"add", "list"} \cup LockOps : Begin(c, "page", o, Single, page.file)
  /\ patient' = (patient /\ \A d \in Calls : stage[d] = "idle" \/ by[d] = "other")

(* aidea comment, of any tenant; also the desktop's resolve, which no page *)
(* calls.  What a list finds elsewhere changes nothing here.               *)
FromElsewhere(c) ==
  /\ \E t \in Tenants :
       \/ Begin(c, "other", "add", t, FirstFile)
       \/ Begin(c, "other", "resolve", t, FirstFile)
  /\ UNCHANGED patient

-----------------------------------------------------------------------------
(* The comment stores                                                      *)

storeUnchanged == <<clock, adds, callVars, told, locks, pageVars>>

(* comment_store, when the database can be reached; a comment is made,     *)
(* with its time, when there is a store.                                   *)
Connect(c) ==
  /\ stage[c] = "connect"
  /\ stage' = [stage EXCEPT ![c] = "table"]
  /\ id' = [id EXCEPT ![c] = IF op[c] = "add" THEN clock ELSE @]
  /\ UNCHANGED <<storeUnchanged, comments, found>>

(* When it cannot: an empty InMemoryCommentStore adds the comment, lists   *)
(* nothing and resolves nothing.                                           *)
InMemory(c) ==
  /\ stage[c] = "connect"
  /\ stage' = [stage EXCEPT ![c] = "remembered"]
  /\ id' = [id EXCEPT ![c] = MemoryId]
  /\ UNCHANGED <<storeUnchanged, comments, found>>

(* A transaction is applied, and the answer comes back or does not.        *)
Commit(c) == stage' \in {[stage EXCEPT ![c] = s] : s \in {"ok", "err"}}

Refuse(c) ==
  /\ stage[c] = "table"
  /\ stage' = [stage EXCEPT ![c] = "err"]
  /\ UNCHANGED <<storeUnchanged, comments, id, found>>

(* PgCommentStore::add.  An id that is taken is refused (see Refuse).      *)
Insert_Overwrites(c) ==
  /\ stage[c] = "table" /\ op[c] = "add"
  /\ comments' = [comments EXCEPT ![id[c]] = Row(tenant[c], file[c], text[c], FALSE)]
  /\ Commit(c)
  /\ UNCHANGED <<storeUnchanged, id, found>>
Insert_OrNothing(c) ==
  /\ stage[c] = "table" /\ op[c] = "add"
  /\ comments' = IF comments[id[c]] = Nobody
                 THEN [comments EXCEPT ![id[c]] = Row(tenant[c], file[c], text[c], FALSE)]
                 ELSE comments
  /\ Commit(c)
  /\ UNCHANGED <<storeUnchanged, id, found>>
Insert(c) ==
  /\ stage[c] = "table" /\ op[c] = "add"
  /\ comments[id[c]] = Nobody
  /\ comments' = [comments EXCEPT ![id[c]] = Row(tenant[c], file[c], text[c], FALSE)]
  /\ Commit(c)
  /\ UNCHANGED <<storeUnchanged, id, found>>

(* PgCommentStore::list_for_file.                                          *)
Listed_AllTenants(t, f) ==
  {i \in Ids : comments[i] # Nobody /\ comments[i].file = f}
Listed(t, f) ==
  {i \in Ids : comments[i] # Nobody /\ comments[i].tenant = t /\ comments[i].file = f}

List(c) ==
  /\ stage[c] = "table" /\ op[c] = "list"
  /\ found' = [found EXCEPT ![c] = Listed(tenant[c], file[c])]
  /\ stage' = [stage EXCEPT ![c] = "ok"]
  /\ UNCHANGED <<storeUnchanged, comments, id>>

(* PgCommentStore::resolve: the rows of this tenant with this id.          *)
Resolved(r) == Row(r.tenant, r.file, r.text, TRUE)
Resolve(c) ==
  /\ stage[c] = "table" /\ op[c] = "resolve"
  /\ comments' = [i \in Ids |-> IF i = id[c] /\ comments[i].tenant = tenant[c]
                                THEN Resolved(comments[i]) ELSE comments[i]]
  /\ Commit(c)
  /\ UNCHANGED <<storeUnchanged, id, found>>

-----------------------------------------------------------------------------
(* InMemoryLockStore: nobody is asked who holds the lock.                  *)

LockStep(c) ==
  /\ stage[c] = "lock"
  /\ locks' = IF op[c] = "acquire" THEN locks \cup {file[c]} ELSE locks \ {file[c]}
  /\ stage' = [stage EXCEPT ![c] = "ok"]
  /\ UNCHANGED <<clock, adds, comments, callVars, id, found, told, pageVars>>

-----------------------------------------------------------------------------
(* The answer                                                              *)

Succeeds(c) == stage[c] \in {"ok", "remembered"}

LockShown_OwnFile(c) ==
  IF op[c] = "acquire" THEN page.file
  ELSE IF op[c] = "release" THEN "none" ELSE page.lock
LockShown(c) ==
  IF op[c] = "acquire" THEN file[c]
  ELSE IF op[c] = "release" THEN "none" ELSE page.lock

(* addComment appends what it is answered, listComments starts anew.       *)
ListedThen_Appended(c) ==
  [i \in Ids |-> listed[i] + (IF i = id[c] \/ i \in found[c] THEN 1 ELSE 0)]
ListedThen(c) ==
  IF op[c] = "add"
  THEN [i \in Ids |-> IF i = id[c] /\ listed[i] < 2 THEN listed[i] + 1 ELSE listed[i]]
  ELSE IF op[c] = "list" THEN [i \in Ids |-> IF i \in found[c] THEN 1 ELSE 0]
  ELSE listed

(* Commands that are over are forgotten.                                   *)
Forget(done) ==
  /\ stage' = [c \in Calls |-> IF c \in done THEN "idle" ELSE stage[c]]
  /\ op' = [c \in Calls |-> IF c \in done THEN "none" ELSE op[c]]
  /\ by' = [c \in Calls |-> IF c \in done THEN "nobody" ELSE by[c]]
  /\ tenant' = [c \in Calls |-> IF c \in done THEN Single ELSE tenant[c]]
  /\ file' = [c \in Calls |-> IF c \in done THEN FirstFile ELSE file[c]]
  /\ id' = [c \in Calls |-> IF c \in done THEN MemoryId ELSE id[c]]
  /\ text' = [c \in Calls |-> IF c \in done THEN 0 ELSE text[c]]
  /\ found' = [c \in Calls |-> IF c \in done THEN {} ELSE found[c]]

(* What a caller hears of a command; the page also of one that fails.      *)
Receive(c) ==
  /\ stage[c] \in {"ok", "remembered", "err"}
  /\ Forget({c})
  /\ told' = IF stage[c] = "ok" /\ op[c] = "add"
             THEN told \cup {[id |-> id[c], tenant |-> tenant[c], file |-> file[c],
                              text |-> text[c]]}
             ELSE told
  /\ IF by[c] = "page" /\ Succeeds(c)
     THEN /\ page' = [page EXCEPT !.lock = LockShown(c)]
          /\ listed' = ListedThen(c)
     ELSE UNCHANGED <<page, listed>>
  /\ UNCHANGED <<clock, adds, comments, locks, patient>>

-----------------------------------------------------------------------------
(* The page and the processes                                              *)

EditFile ==
  /\ \E f \in Files \ {page.file} : page' = [page EXCEPT !.file = f]
  /\ UNCHANGED <<clock, adds, comments, workVars, callVars, told, locks,
                 listed, patient>>

(* Another tab is shown; what the page waits for still happens, unheard.   *)
Leave ==
  /\ page' = NewPage
  /\ listed' = Blank
  /\ by' = [c \in Calls |-> IF by[c] = "page" THEN "nobody" ELSE by[c]]
  /\ patient' = (patient /\ \A c \in Calls : stage[c] = "idle" \/ by[c] = "other")
  /\ UNCHANGED <<clock, adds, comments, workVars, op, tenant, file, text,
                 told, locks>>

(* The desktop ends, wherever its commands are, and starts again.          *)
Restart ==
  /\ page' = NewPage
  /\ listed' = Blank
  /\ locks' = {}
  /\ patient' = TRUE
  /\ Forget({c \in Calls : by[c] # "other"})
  /\ UNCHANGED <<clock, adds, comments, told>>

Tick ==
  /\ clock < MaxClock
  /\ clock' = clock + 1
  /\ UNCHANGED <<adds, comments, workVars, callVars, told, locks, pageVars>>

Next ==
  \/ \E c \in Calls :
       \/ FromPage(c) \/ FromElsewhere(c)
       \/ Connect(c) \/ InMemory(c) \/ Refuse(c) \/ Insert(c) \/ List(c) \/ Resolve(c)
       \/ LockStep(c) \/ Receive(c)
  \/ EditFile \/ Leave \/ Restart \/ Tick

Spec == Init /\ [][Next]_vars

-----------------------------------------------------------------------------
(* Properties                                                              *)

Stages == {"idle", "connect", "table", "lock", "ok", "remembered", "err"}
Rows == [tenant : Tenants, file : Files, text : Texts, resolved : BOOLEAN]

(* Every variable keeps its type.                                          *)
TypeOK ==
  /\ clock \in Ids
  /\ adds \in 0..MaxAdds
  /\ comments \in [Ids -> Rows \cup {Nobody}]
  /\ stage \in [Calls -> Stages]
  /\ op \in [Calls -> CommentOps \cup LockOps \cup {"none"}]
  /\ by \in [Calls -> {"page", "other", "nobody"}]
  /\ tenant \in [Calls -> Tenants]
  /\ file \in [Calls -> Files]
  /\ id \in [Calls -> Shown]
  /\ text \in [Calls -> 0..MaxAdds]
  /\ found \in [Calls -> SUBSET Ids]
  /\ told \subseteq [id : Ids, tenant : Tenants, file : Files, text : Texts]
  /\ locks \subseteq Files
  /\ page \in [file : Files, lock : Files \cup {"none"}]
  /\ listed \in [Ids -> Nat]
  /\ patient \in BOOLEAN

(***************************************************************************)
(* A comment that a caller was told the database holds is in the table for *)
(* good, under that id and with what the caller gave, whatever other       *)
(* commands add in the same millisecond and however the database fails.    *)
(***************************************************************************)
ToldIsKept ==
  \A k \in told :
    /\ comments[k.id] # Nobody
    /\ comments[k.id].tenant = k.tenant
    /\ comments[k.id].file = k.file
    /\ comments[k.id].text = k.text

(* The table is a CommentBoard: nothing overwrites, edits, reopens or      *)
(* removes a comment.                                                      *)
Board == INSTANCE CommentBoard
ImplementsBoard == Board!Spec

(* The page lists comments of its own tenant only, though the table and    *)
(* its ids are shared by all.                                              *)
TenantsApart ==
  \A i \in Ids : listed[i] > 0 => comments[i] # Nobody /\ comments[i].tenant = Single

(* To a user who waits for each answer, the page lists a comment once,     *)
(* however adding, listing and changing the file follow each other.        *)
ListedOnce == patient => \A i \in Ids : listed[i] <= 1

(* To such a user, and once a command is answered, a file the page shows   *)
(* as locked is locked, though release asks for no holder and the page may *)
(* be about another file by now.                                           *)
Waiting == \E c \in Calls : by[c] = "page"
LockShownIsHeld ==
  patient /\ ~Waiting => page.lock = "none" \/ page.lock \in locks

=============================================================================
