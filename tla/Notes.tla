------------------------------- MODULE Notes --------------------------------
(***************************************************************************)
(* Personal notes (notes.service.ts, notes-local-store.service.ts,         *)
(* notes.repository.ts, notes.page.ts): written into the list shown and    *)
(* the local store at once, pushed to the user's PDS in the background,    *)
(* and reconciled with the PDS, the last writer winning, when the notes    *)
(* are opened or the user asks for it.                                     *)
(*                                                                         *)
(* A text is the time it was written at; a push stamps its record with the *)
(* time it was encrypted at.  The local store applies calls in the order   *)
(* they are made, so a call that follows a change of the list without an   *)
(* await is one step with it.  One account; see README for a switch.       *)
(***************************************************************************)
EXTENDS Integers, FiniteSets

CONSTANTS
    Ids,            \* the notes there may be
    MaxClock,       \* bound: texts written
    Rushed,         \* bound: the notes a hasty user writes
    MaxRushed,      \* bound: the texts a hasty user writes
    MaxFaults,      \* bound: requests that fail
    MaxSyncs,       \* bound: times the user asks for a sync
    MaxRestarts,    \* bound: app restarts
    Ways            \* what may happen: sets of AllWays, one per behaviour

(* Requests fail; another device writes and deletes; the user does         *)
(* something while something else is under way.                            *)
AllWays == {"fails", "peer", "hasty"}

ASSUME NotesAssumption ==
    /\ Rushed \subseteq Ids
    /\ {MaxClock, MaxRushed, MaxFaults, MaxSyncs, MaxRestarts} \subseteq Nat
    /\ Ways \subseteq SUBSET AllWays

VARIABLES
    ways,
    open,       \* initialize has been called
    notes,      \* the list shown
    local,      \* the local store
    records,    \* the records of the PDS
    pushes,     \* pushNoteToPds under way
    deletes,    \* deleteRecord under way
    sync,       \* syncWithPds: how far, the records read, the merged list
    deleted,    \* notes the user has deleted
    put,        \* texts the PDS has had
    clock, faults, syncs, restarts

tasks == <<pushes, deletes, sync>>
counters == <<clock, faults, syncs, restarts>>
notesVars == <<ways, open, notes, local, records, tasks, deleted, put, counters>>

NoNote == [text |-> 0, at |-> 0, status |-> "none"]
NoRecord == [text |-> 0, at |-> 0]
Note(t, at, status) == [text |-> t, at |-> at, status |-> status]
NoSync == [pc |-> "idle", list |-> [n \in Ids |-> NoRecord], merged |-> [n \in Ids |-> NoNote]]
NewPush(n, item) == [note |-> n, item |-> item, pc |-> "encrypt", stamp |-> 0]

Shown(n) == notes[n] # NoNote
Used(n) == n \in deleted \/ local[n] # NoNote \/ records[n] # NoRecord
SyncIs(pc) == sync.pc = pc
MayFail == "fails" \in ways /\ faults < MaxFaults
Counts(ok) == faults' = IF ok THEN faults ELSE faults + 1

(* The user waits for what is under way. *)
Quiet == pushes = {} /\ deletes = {} /\ SyncIs("idle")
UserMay == open /\ ("hasty" \in ways \/ Quiet)

NotesInit ==
    /\ ways \in Ways
    /\ open = FALSE
    /\ notes = [n \in Ids |-> NoNote] /\ local = notes
    /\ records = [n \in Ids |-> NoRecord]
    /\ pushes = {} /\ deletes = {} /\ sync = NoSync
    /\ deleted = {} /\ put = [n \in Ids |-> {}]
    /\ clock = 0 /\ faults = 0 /\ syncs = 0 /\ restarts = 0

-----------------------------------------------------------------------------
(* The user.                                                               *)

(* initialize: what is stored is shown, then reconciled. *)
Open ==
    /\ ~open /\ open' = TRUE
    /\ notes' = local
    /\ sync' = [NoSync EXCEPT !.pc = "list"]
    /\ UNCHANGED <<ways, local, records, pushes, deletes, deleted, put, counters>>

SyncNow ==
    /\ open /\ SyncIs("idle") /\ syncs < MaxSyncs /\ syncs' = syncs + 1
    /\ "hasty" \in ways \/ Quiet
    /\ sync' = [NoSync EXCEPT !.pc = "list"]
    /\ UNCHANGED <<ways, open, notes, local, records, pushes, deletes, deleted, put,
                   clock, faults, restarts>>

(* The app restarts, and what was under way is forgotten. *)
Restart ==
    /\ open /\ restarts < MaxRestarts /\ restarts' = restarts + 1
    /\ "hasty" \in ways \/ deletes = {}
    /\ open' = FALSE /\ notes' = [n \in Ids |-> NoNote]
    /\ pushes' = {} /\ deletes' = {} /\ sync' = NoSync
    /\ UNCHANGED <<ways, local, records, deleted, put, clock, faults, syncs>>

(* sendNote, editNote: shown and stored, then pushed. *)
Write(n) ==
    /\ UserMay /\ clock < MaxClock
    /\ Shown(n) \/ ~Used(n)
    /\ "hasty" \in ways => n \in Rushed /\ clock < MaxRushed
    /\ LET item == Note(clock + 1, clock + 1, "pending_upload")
       IN  /\ notes' = [notes EXCEPT ![n] = item]
           /\ local' = [local EXCEPT ![n] = item]
           /\ pushes' = pushes \union {NewPush(n, item)}
    /\ clock' = clock + 1
    /\ UNCHANGED <<ways, open, records, deletes, sync, deleted, put, faults, syncs, restarts>>

Delete(n) ==
    /\ UserMay /\ Shown(n)
    /\ notes' = [notes EXCEPT ![n] = NoNote]
    /\ local' = [local EXCEPT ![n] = NoNote]
    /\ deletes' = deletes \union {n} /\ deleted' = deleted \union {n}
    /\ UNCHANGED <<ways, open, records, pushes, sync, put, counters>>

(* A slip: the record stays. *)
NotRemoved(n) == UNCHANGED records

Removed(n) == records' = [records EXCEPT ![n] = NoRecord]

(* deleteRecord, whose failure is passed over. *)
DeleteRecord(n, ok) ==
    /\ n \in deletes /\ (ok \/ MayFail)
    /\ deletes' = deletes \ {n}
    /\ Removed(n) \/ (~ok /\ UNCHANGED records)
    /\ Counts(ok)
    /\ UNCHANGED <<ways, open, notes, local, pushes, sync, deleted, put, clock, syncs, restarts>>

-----------------------------------------------------------------------------
(* pushNoteToPds.                                                          *)

PushGoes(p, q) == pushes' = (pushes \ {p}) \union {q}

Encrypt(p) ==
    /\ p.pc = "encrypt"
    /\ PushGoes(p, [p EXCEPT !.pc = "put", !.stamp = clock])
    /\ UNCHANGED <<ways, open, notes, local, records, deletes, sync, deleted, put, counters>>

PutInPds(n, r) ==
    /\ records' = [records EXCEPT ![n] = r]
    /\ put' = [put EXCEPT ![n] = @ \union {r.text}]

(* putRecord: one that fails may have been stored. *)
PutRecord(p, ok) ==
    /\ p.pc = "put" /\ (ok \/ MayFail)
    /\ \/ PutInPds(p.note, [text |-> p.item.text, at |-> p.stamp])
       \/ ~ok /\ UNCHANGED <<records, put>>
    /\ PushGoes(p, [p EXCEPT !.pc = IF ok THEN "stored" ELSE "failed"])
    /\ Counts(ok)
    /\ UNCHANGED <<ways, open, notes, local, deletes, sync, deleted, clock, syncs, restarts>>

Outcome(p) == IF p.pc = "stored" THEN "synced" ELSE "error"

(* The item as it was pushed: in the list if it is still there, and in the *)
(* store. *)
PushEnds(p) ==
    /\ p.pc \in {"stored", "failed"}
    /\ LET item == [p.item EXCEPT !.status = Outcome(p)]
       IN  /\ notes' = IF Shown(p.note) THEN [notes EXCEPT ![p.note] = item] ELSE notes
           /\ local' = [local EXCEPT ![p.note] = item]
    /\ pushes' = pushes \ {p}
    /\ UNCHANGED <<ways, open, records, deletes, sync, deleted, put, counters>>

-----------------------------------------------------------------------------
(* syncWithPds.                                                            *)

(* A page that cannot be read ends the list. *)
ListRecords(ok) ==
    /\ SyncIs("list") /\ (ok \/ MayFail)
    /\ \E read \in IF ok THEN {Ids} ELSE SUBSET Ids :
           sync' = [sync EXCEPT !.pc = "read",
                        !.list = [n \in Ids |-> IF n \in read THEN records[n] ELSE NoRecord]]
    /\ Counts(ok)
    /\ UNCHANGED <<ways, open, notes, local, records, pushes, deletes, deleted, put,
                   clock, syncs, restarts>>

(* A slip: the PDS has the last word. *)
RemoteWins(item, record) == FALSE

(* A pending item must be newer; so must one that is not, for the tie goes *)
(* to the PDS either way. *)
LocalWins(item, record) == item.at > record.at

(* A slip: what only this device has is taken for deleted. *)
DropUnlisted(item) == NoNote

Unlisted(item) == IF item.status = "pending_upload" THEN item ELSE NoNote

Merged(item, record) ==
    IF record = NoRecord THEN Unlisted(item)
    ELSE IF item # NoNote /\ LocalWins(item, record) THEN item
         ELSE Note(record.text, record.at, "synced")

Reconcile ==
    /\ SyncIs("read")
    /\ sync' = [sync EXCEPT !.pc = "save",
                    !.merged = [n \in Ids |-> Merged(local[n], sync.list[n])]]
    /\ UNCHANGED <<ways, open, notes, local, records, pushes, deletes, deleted, put, counters>>

(* saveMany: what is not in the merged list stays in the store. *)
SaveMany ==
    /\ SyncIs("save")
    /\ local' = [n \in Ids |-> IF sync.merged[n] # NoNote THEN sync.merged[n] ELSE local[n]]
    /\ sync' = [sync EXCEPT !.pc = "show"]
    /\ UNCHANGED <<ways, open, notes, records, pushes, deletes, deleted, put, counters>>

Pushed(items) ==
    {NewPush(n, items[n]) : n \in {m \in Ids : items[m].status = "pending_upload"}}

ShowMerged ==
    /\ SyncIs("show")
    /\ notes' = sync.merged
    /\ pushes' = pushes \union Pushed(sync.merged)
    /\ sync' = NoSync
    /\ UNCHANGED <<ways, open, local, records, deletes, deleted, put, counters>>

-----------------------------------------------------------------------------
(* Another device of the user.                                             *)

PeerWrites(n) ==
    /\ "peer" \in ways /\ records[n] # NoRecord /\ clock < MaxClock /\ clock' = clock + 1
    /\ PutInPds(n, [text |-> clock + 1, at |-> clock + 1])
    /\ UNCHANGED <<ways, open, notes, local, tasks, deleted, faults, syncs, restarts>>

PeerDeletes(n) ==
    /\ "peer" \in ways /\ records[n] # NoRecord
    /\ records' = [records EXCEPT ![n] = NoRecord] /\ deleted' = deleted \union {n}
    /\ UNCHANGED <<ways, open, notes, local, tasks, put, counters>>

-----------------------------------------------------------------------------
PushStep(p) == Encrypt(p) \/ PushEnds(p) \/ \E ok \in BOOLEAN : PutRecord(p, ok)
SyncStep == Reconcile \/ SaveMany \/ ShowMerged \/ \E ok \in BOOLEAN : ListRecords(ok)
DeleteStep == \E n \in Ids, ok \in BOOLEAN : DeleteRecord(n, ok)

NotesNext ==
    \/ Open \/ SyncNow \/ Restart
    \/ \E n \in Ids : Write(n) \/ Delete(n) \/ PeerWrites(n) \/ PeerDeletes(n)
    \/ \E p \in pushes : PushStep(p)
    \/ SyncStep \/ DeleteStep

NotesSpec == NotesInit /\ [][NotesNext]_notesVars

(* An app that was started again opens the notes; what was begun ends.     *)
NotesFairness ==
    /\ WF_notesVars(Open) /\ WF_notesVars(SyncStep) /\ WF_notesVars(DeleteStep)
    /\ WF_notesVars(\E p \in pushes : PushStep(p))
NotesFairSpec == NotesSpec /\ NotesFairness

-----------------------------------------------------------------------------
Statuses == {"none", "pending_upload", "synced", "error"}
Texts == 0 .. MaxClock
Items == [text : Texts, at : Texts, status : Statuses]

TypeOK ==
    /\ notes \in [Ids -> Items] /\ local \in [Ids -> Items]
    /\ records \in [Ids -> [text : Texts, at : Texts]]
    /\ \A p \in pushes : p.note \in Ids /\ p.item \in Items /\ p.stamp \in Texts

(* A note shown or stored as synced has been on the PDS with its text,     *)
(* whatever was lost, retried or hurried on the way. (pushNoteToPds)       *)
SyncedIsStored ==
    \A n \in Ids : \A item \in {notes[n], local[n]} :
        item.status = "synced" => item.text \in put[n]

(* A text is not replaced by an older one, as long as one device writes    *)
(* and its user waits: not when a request failed or may have arrived, or   *)
(* the app restarted before the answer. (syncWithPds: last writer wins)    *)
TextsStayCalmly ==
    [][ways \subseteq {"fails"} =>
         \A n \in Ids : local'[n] # NoNote => local'[n].text >= local[n].text]_notesVars

(* A note that was written and not deleted is in the list when no sync is  *)
(* under way. *)
WrittenIsShown ==
    open /\ SyncIs("idle") => \A n \in Ids \ deleted : local[n] # NoNote => Shown(n)
WrittenIsShownCalmly == ways = {} => WrittenIsShown

(* A deleted note does not come back. (deleteNote) *)
DeletedIsGone == \A n \in deleted : notes[n] = NoNote /\ local[n] = NoNote
DeletedIsGoneCalmly == ways = {} => DeletedIsGone

(* No note stays pending: the app restarted before it was pushed, or       *)
(* another device wrote it as well, it is tried once more.                 *)
(* (syncWithPds: pending uploads)                                          *)
PendingEnds == <>[](\A n \in Ids : local[n].status # "pending_upload")
=============================================================================
