------------------------------ MODULE CraftDesk ------------------------------
(***************************************************************************)
(* Craft mode in the desktop application: CraftPage.tsx, the three         *)
(* commands of domain/craft.rs and FsHost, which edits files on disk.      *)
(*                                                                         *)
(* The commands keep no proposals: each request carries the proposal and   *)
(* confirm builds a fresh Suggestion from it.  Only the page knows what    *)
(* was decided, and it forgets when the user goes to another tab, while    *)
(* the command it started runs on.  Commands run in parallel, FsHost takes *)
(* no lock, and an edit is a read of the file and, later, a write.         *)
(***************************************************************************)
EXTENDS Naturals, Sequences, FiniteSets, TextEdits

CONSTANTS
  Words,        \* what the texts of files are made of
  Edits,        \* edits the user may enter: kind, uri, old and new text
  Files,        \* files on disk
  DiskText,     \* their text
  ReadMayFail,  \* whether a file may be there and not be readable as UTF-8
  WriteMayFail, \* whether a write may fail
  MaxProposals, \* bound of the model: proposals made
  MaxLeaves,    \* bound of the model: times the user leaves the page
  MaxSaves      \* bound of the model: saves of another program

(* What another program, or the user in it, adds to a file.                *)
Saved == "saved elsewhere"

OnDisk == Seq(Words)

ASSUME DeskAssumption ==
  /\ \A e \in Edits : /\ e.kind \in {"FileEdit", "RunCommand", "Commit"}
                      /\ e.kind = "FileEdit" => e.uri \in Files
                      /\ e.old \in OnDisk /\ e.new \in OnDisk
  /\ DiskText \in [Files -> OnDisk]
  /\ Saved \in Words
  /\ ReadMayFail \in BOOLEAN /\ WriteMayFail \in BOOLEAN
  /\ MaxProposals \in Nat /\ MaxLeaves \in Nat /\ MaxSaves \in Nat

VARIABLES
  proposals, \* the edit of each proposal made, by number
  page,      \* the proposal the page shows, its state, and busy
  visit,     \* how often the user has left the page
  commands,  \* the confirm commands started
  disk,      \* the files
  saves,     \* saves of another program
  writes,    \* history: completed writes for each proposal
  misread    \* history: a file was there and read as empty

deskVars == <<proposals, page, visit, commands, disk, saves, writes, misread>>

Numbers == 1..MaxProposals
Blank == [number |-> 0, state |-> "none", busy |-> FALSE]

DeskInit ==
  /\ proposals = <<>>
  /\ page = Blank
  /\ visit = 0
  /\ commands = <<>>
  /\ disk = DiskText
  /\ saves = 0
  /\ writes = [n \in Numbers |-> 0]
  /\ misread = FALSE

-----------------------------------------------------------------------------
(* The page                                                                *)

(* "Propose" is disabled while the page is busy.                           *)
ProposeEnabled == ~page.busy

(* The buttons of the proposal: gone once it is decided.                   *)
Decided == page.number = 0 \/ page.state \in {"applied", "rejected"}
ConfirmEnabled == ~Decided /\ ~page.busy
RejectEnabled_WhileBusy == ~Decided
RejectEnabled == ~Decided /\ ~page.busy

(* craft_propose touches nothing and answers at once; the page is not busy *)
(* then, whatever it was.                                                  *)
ProposeOnPage(e) ==
  /\ ProposeEnabled
  /\ Len(proposals) < MaxProposals
  /\ proposals' = Append(proposals, e)
  /\ page' = [number |-> Len(proposals) + 1, state |-> "suggestion", busy |-> FALSE]
  /\ UNCHANGED <<visit, commands, disk, saves, writes, misread>>

ConfirmOnPage ==
  /\ ConfirmEnabled
  /\ Len(commands) < MaxProposals + 1
  /\ page' = [page EXCEPT !.busy = TRUE]
  /\ commands' = Append(commands, [number |-> page.number, visit |-> visit,
                                   stage |-> "read", text |-> <<>>])
  /\ UNCHANGED <<proposals, visit, disk, saves, writes, misread>>

(* craft_reject answers at once, with the state Rejected.                  *)
RejectOnPage ==
  /\ RejectEnabled
  /\ page' = [page EXCEPT !.state = "rejected", !.busy = FALSE]
  /\ UNCHANGED <<proposals, visit, commands, disk, saves, writes, misread>>

(* App.tsx unmounts the page: what it held is gone.                        *)
Leave ==
  /\ visit < MaxLeaves
  /\ visit' = visit + 1
  /\ page' = Blank
  /\ UNCHANGED <<proposals, commands, disk, saves, writes, misread>>

-----------------------------------------------------------------------------
(* The command                                                             *)

EditOf(c) == proposals[commands[c].number]

(* The answer shows on the page that asked, if it is still there.          *)
Answers(c, state) ==
  page' = IF commands[c].visit = visit
          THEN [number |-> commands[c].number, state |-> state, busy |-> FALSE]
          ELSE page

(* An error leaves the proposal as it was.                                 *)
AnswersError(c) ==
  page' = IF commands[c].visit = visit THEN [page EXCEPT !.busy = FALSE] ELSE page

EndsAt(c, stage) == commands' = [commands EXCEPT ![c].stage = stage]

(* read_to_string(path).unwrap_or_default()                                *)
Current(f) == {disk[f]} \cup (IF ReadMayFail THEN {<<>>} ELSE {})

(* The text FsHost is going to write.                                      *)
Updates_NewOnly(current, e, text) == text = e.new
Updates(current, e, text) ==
  IF e.old = <<>> THEN text = current \o e.new
                  ELSE ReplacesFirst(current, e.old, e.new, text)

Texts(current, e) ==
  {e.new, current \o e.new} \cup {Splice(current, i, Len(e.old), e.new) : i \in 0..Len(current)}

ReadFile(c) ==
  /\ commands[c].stage = "read"
  /\ EditOf(c).kind = "FileEdit"
  /\ \E current \in Current(EditOf(c).uri) :
       /\ misread' = (misread \/ current # disk[EditOf(c).uri])
       /\ \/ /\ EditOf(c).old # <<>> => Contains(current, EditOf(c).old)
             /\ \E text \in Texts(current, EditOf(c)) :
                  /\ Updates(current, EditOf(c), text)
                  /\ commands' = [commands EXCEPT ![c] =
                                  [@ EXCEPT !.stage = "write", !.text = text]]
             /\ UNCHANGED page
          \/ /\ EditOf(c).old # <<>>
             /\ ~Contains(current, EditOf(c).old)
             /\ EndsAt(c, "failed")
             /\ AnswersError(c)
  /\ UNCHANGED <<proposals, visit, disk, saves, writes>>

WriteFile(c) ==
  /\ commands[c].stage = "write"
  /\ disk' = [disk EXCEPT ![EditOf(c).uri] = commands[c].text]
  /\ writes' = [writes EXCEPT ![commands[c].number] = @ + 1]
  /\ EndsAt(c, "done")
  /\ Answers(c, "applied")
  /\ UNCHANGED <<proposals, visit, saves, misread>>

(* std::fs::write fails before it opened the file, or after it truncated   *)
(* it and wrote a part.                                                    *)
WriteFails(c) ==
  /\ WriteMayFail
  /\ commands[c].stage = "write"
  /\ \/ UNCHANGED disk
     \/ \E n \in 0..Len(commands[c].text) :
          disk' = [disk EXCEPT ![EditOf(c).uri] = SubSeq(commands[c].text, 1, n)]
  /\ EndsAt(c, "failed")
  /\ AnswersError(c)
  /\ UNCHANGED <<proposals, visit, saves, writes, misread>>

(* FsHost drops the event that announces a command: nothing runs.          *)
DropAnnouncement(c) ==
  /\ commands[c].stage = "read"
  /\ EditOf(c).kind # "FileEdit"
  /\ EndsAt(c, "done")
  /\ Answers(c, "applied")
  /\ UNCHANGED <<proposals, visit, disk, saves, writes, misread>>

(* Another program appends to a file.                                      *)
SaveElsewhere(f) ==
  /\ saves < MaxSaves
  /\ saves' = saves + 1
  /\ disk' = [disk EXCEPT ![f] = Append(@, Saved)]
  /\ UNCHANGED <<proposals, page, visit, commands, writes, misread>>

DeskNext ==
  \/ \E e \in Edits : ProposeOnPage(e)
  \/ ConfirmOnPage \/ RejectOnPage \/ Leave
  \/ \E c \in 1..Len(commands) :
       ReadFile(c) \/ WriteFile(c) \/ WriteFails(c) \/ DropAnnouncement(c)
  \/ \E f \in Files : SaveElsewhere(f)

DeskSpec == DeskInit /\ [][DeskNext]_deskVars

-----------------------------------------------------------------------------
(* Properties                                                              *)

CommandStages == {"read", "write", "done", "failed"}
Command == [number : Numbers, visit : 0..MaxLeaves, stage : CommandStages, text : OnDisk]

DeskTypeOK ==
  /\ proposals \in Seq(Edits) /\ Len(proposals) <= MaxProposals
  /\ page \in [number : 0..Len(proposals),
               state : {"none", "suggestion", "applied", "rejected"}, busy : BOOLEAN]
  /\ visit \in 0..MaxLeaves
  /\ commands \in Seq(Command)
  /\ disk \in [Files -> OnDisk]
  /\ writes \in [Numbers -> Nat]
  /\ misread \in BOOLEAN

(***************************************************************************)
(* What the page shows is what happened: an applied file edit was written, *)
(* one that is rejected or still open never was, and never will be by a    *)
(* command still under way for a decided proposal.                         *)
(***************************************************************************)
PageTellsTruth ==
  page.number # 0 /\ proposals[page.number].kind = "FileEdit" =>
    /\ (page.state = "applied") <=> (writes[page.number] > 0)
    /\ page.state = "rejected" =>
         \A c \in 1..Len(commands) :
           commands[c].number = page.number => commands[c].stage = "failed"

(* An edit that names a fragment as old text may remove it.                *)
Removable(w) == \E e \in Edits : Holds(e.old, w)

(***************************************************************************)
(* While the user stays on the page and the disk works, what was confirmed *)
(* and written stays on disk until an edit names it as old text, whatever  *)
(* other programs save in between: the busy flag keeps the page's own      *)
(* commands from undoing each other.                                       *)
(***************************************************************************)
DiskWorks ==
  ~misread /\ \A c \in 1..Len(commands) : commands[c].stage # "failed"

WrittenStays ==
  visit = 0 /\ DiskWorks =>
    \A n \in 1..Len(proposals) :
      writes[n] > 0 =>
        \A k \in 1..Len(proposals[n].new) :
          \/ Removable(proposals[n].new[k])
          \/ Holds(disk[proposals[n].uri], proposals[n].new[k])

=============================================================================
