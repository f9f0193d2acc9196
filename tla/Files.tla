------------------------------- MODULE Files -------------------------------
(***************************************************************************)
(* The files people upload: rows of dbo.Attachments on a job, a tenancy or *)
(* an asset, the documents of a major event and of the document register.  *)
(* A file is a blob in storage and a row in the database, written by two   *)
(* systems that share no transaction: every upload stores the blob first,  *)
(* every removal takes the row first.  A file's own blob carries the       *)
(* file's name; a row claimed from an email names the email's blob, which  *)
(* other rows may name too.  Roles, rate limits, media types, sizes,       *)
(* comments and the key register's own photos are left out.                *)
(***************************************************************************)
EXTENDS Naturals, FiniteSets

CONSTANTS
  FileIds,        \* uploads and claims that can be made: bounds the run
  MailBlobs,      \* attachments of emails, stored by the mail sync
  NoBlob,
  MoneyRecords,   \* quotes, orders and invoices of the one job
  DocLimit,       \* documents of an event (50 in the code)
  EntryLimit,     \* entries of an event's log (2000 in the code)
  MaxRevision     \* edits of the event's plan: bounds the run

ASSUME FilesConstants ==
  /\ FileIds \cap MailBlobs = {} /\ NoBlob \notin FileIds \cup MailBlobs
  /\ DocLimit \in Nat \ {0} /\ EntryLimit \in Nat /\ MaxRevision \in Nat

VARIABLES
  stored,      \* blobs in storage
  fileRows,    \* [FileIds -> row]
  uploads,     \* [FileIds -> [kind, step]]: how far an upload has come
  removals,    \* [FileIds -> [blob, step, late]]: how far a removal has come;
               \* late: records the file was attached to after the removal had looked
  locked,      \* money records approved, sent, in MYOB or paid
  usable,      \* the asset and the register scope files may still be put on
  bigEvent,    \* the row of dbo.MajorEvents, its documents and entries counted
  eventForm    \* the revision somebody has open for editing, 0 for none

fileVars == <<stored, fileRows, uploads, removals, locked, usable, bigEvent, eventForm>>

Kinds == {"job", "tenancy", "asset", "event", "register"}
NoFile == [kind |-> "none", blob |-> NoBlob, links |-> {}, on |-> FALSE, asked |-> FALSE, shelved |-> FALSE]
NoRemoval == [blob |-> NoBlob, step |-> "idle", late |-> {}]
NoEvent == [status |-> "none", revision |-> 0, entries |-> 0, docs |-> 0]

FilesInit ==
  /\ stored = MailBlobs
  /\ fileRows = [f \in FileIds |-> NoFile]
  /\ uploads = [f \in FileIds |-> [kind |-> "none", step |-> "idle"]]
  /\ removals = [f \in FileIds |-> NoRemoval]
  /\ locked = {} /\ usable = {"asset", "scope"}
  /\ bigEvent = NoEvent /\ eventForm = 0

---------------------------------------------------------------------------
(* Uploads. *)

\* What the handler reads before it stores the blob, without a lock.
TakesFiles(kind) ==
  /\ kind = "asset" => "asset" \in usable
  /\ kind = "register" => "scope" \in usable
  /\ kind = "event" => bigEvent.status = "active"

StoreBlob(f, kind) ==
  /\ uploads[f].step = "idle" /\ TakesFiles(kind)
  /\ stored' = stored \cup {f}
  /\ uploads' = [uploads EXCEPT ![f] = [kind |-> kind, step |-> "stored"]]
  /\ UNCHANGED <<fileRows, removals, locked, usable, bigEvent, eventForm>>

\* What the transaction reads again: nothing for an asset, whose row it does not lock.
Admits(kind) ==
  /\ kind = "register" => "scope" \in usable
  /\ kind = "event" => bigEvent.status = "active" /\ bigEvent.docs < DocLimit

\* The row is there; its handler may still be told that it failed.
Answered(f) ==
  CASE uploads[f].kind = "tenancy" -> {"row"}
    [] uploads[f].kind = "job" -> {"done"}
    [] OTHER -> {"done", "doubt"}
CountDocument(f) ==
  IF uploads[f].kind = "event"
  THEN [bigEvent EXCEPT !.docs = @ + 1, !.entries = @ + 1] ELSE bigEvent

WriteRow(f) ==
  /\ uploads[f].step = "stored" /\ Admits(uploads[f].kind)
  /\ fileRows' = [fileRows EXCEPT ![f] = [NoFile EXCEPT !.kind = uploads[f].kind, !.blob = f,
                                                        !.on = uploads[f].kind = "asset"]]
  /\ \E s \in Answered(f) : uploads' = [uploads EXCEPT ![f].step = s]
  /\ bigEvent' = CountDocument(f)
  /\ UNCHANGED <<stored, removals, locked, usable, eventForm>>

\* No row: refused by Admits, or the statement failed.
WriteFails(f) ==
  /\ uploads[f].step = "stored"
  /\ uploads' = [uploads EXCEPT ![f].step = IF uploads[f].kind \in {"job", "tenancy"} THEN "done" ELSE "doubt"]
  /\ UNCHANGED <<stored, fileRows, removals, locked, usable, bigEvent, eventForm>>

\* A tenancy document's link is a statement of its own.
LinkDocument(f) ==
  /\ uploads[f].step = "row" /\ fileRows[f].kind = "tenancy"
  /\ fileRows' = [fileRows EXCEPT ![f].on = TRUE]
  /\ uploads' = [uploads EXCEPT ![f].step = "done"]
  /\ UNCHANGED <<stored, removals, locked, usable, bigEvent, eventForm>>

CleansUp(f) == uploads[f].kind = "asset" \/ fileRows[f] = NoFile
CleanUp(f) ==
  /\ uploads[f].step = "doubt"
  /\ stored' \in {stored, IF CleansUp(f) THEN stored \ {f} ELSE stored}
  /\ uploads' = [uploads EXCEPT ![f].step = "done"]
  /\ UNCHANGED <<fileRows, removals, locked, usable, bigEvent, eventForm>>

ClaimEmailAttachment(f, b) ==
  /\ uploads[f].step = "idle" /\ b \in MailBlobs
  /\ fileRows' = [fileRows EXCEPT ![f] = [NoFile EXCEPT !.kind = "job", !.blob = b]]
  /\ uploads' = [uploads EXCEPT ![f] = [kind |-> "job", step |-> "done"]]
  /\ UNCHANGED <<stored, removals, locked, usable, bigEvent, eventForm>>

---------------------------------------------------------------------------
(* What a file is put to, and its removal. *)

OnJob(f) == fileRows[f].kind = "job"
OnTenancy(f) == fileRows[f].kind = "tenancy" /\ fileRows[f].on

AttachTo(f, r) ==
  /\ OnJob(f)
  /\ fileRows' = [fileRows EXCEPT ![f].links = @ \cup {r}]
  /\ removals' = [removals EXCEPT ![f].late = IF removals[f].step = "checked" /\ r \notin fileRows[f].links
                                             THEN @ \cup {r} ELSE @]
  /\ UNCHANGED <<stored, uploads, locked, usable, bigEvent, eventForm>>
DetachFrom(f, r) ==
  /\ r \in fileRows[f].links /\ r \notin locked
  /\ fileRows' = [fileRows EXCEPT ![f].links = @ \ {r}]
  /\ UNCHANGED <<stored, uploads, removals, locked, usable, bigEvent, eventForm>>
AskAbout(f) ==
  /\ OnJob(f) /\ ~fileRows[f].asked
  /\ fileRows' = [fileRows EXCEPT ![f].asked = TRUE]
  /\ UNCHANGED <<stored, uploads, removals, locked, usable, bigEvent, eventForm>>
ArchiveDocument(f) ==
  /\ OnTenancy(f) /\ ~fileRows[f].shelved
  /\ fileRows' = [fileRows EXCEPT ![f].shelved = TRUE]
  /\ UNCHANGED <<stored, uploads, removals, locked, usable, bigEvent, eventForm>>

InUse(f) == fileRows[f].links # {} \/ fileRows[f].asked \/ OnTenancy(f)
BeginRemoval(f) ==
  /\ removals[f].step = "idle"
  /\ fileRows[f].kind \in {"job", "tenancy", "asset"} /\ ~InUse(f)
  /\ removals' = [removals EXCEPT ![f] = [NoRemoval EXCEPT !.blob = fileRows[f].blob, !.step = "checked"]]
  /\ UNCHANGED <<stored, fileRows, uploads, locked, usable, bigEvent, eventForm>>

\* The transaction looks at asset links only; a decision's key refuses; the other links go with the row.
HeldByKey(f) == fileRows[f].asked \/ (fileRows[f].kind = "asset" /\ fileRows[f].on)
RemoveRow(f) ==
  /\ removals[f].step = "checked" /\ ~HeldByKey(f)
  /\ fileRows' = [fileRows EXCEPT ![f] = NoFile]
  /\ removals' = [removals EXCEPT ![f].step = "gone", ![f].late = {}]
  /\ UNCHANGED <<stored, uploads, locked, usable, bigEvent, eventForm>>
RemovalRefused(f) ==
  /\ removals[f].step = "checked" /\ HeldByKey(f)
  /\ removals' = [removals EXCEPT ![f] = NoRemoval]
  /\ UNCHANGED <<stored, fileRows, uploads, locked, usable, bigEvent, eventForm>>

\* The shape of a blob's name tells whose it is.
OwnsBlobAny(b) == TRUE
OwnsBlob(b) == b \notin MailBlobs
RemoveBlob(f) ==
  /\ removals[f].step = "gone"
  /\ stored' \in {stored, IF OwnsBlob(removals[f].blob) THEN stored \ {removals[f].blob} ELSE stored}
  /\ removals' = [removals EXCEPT ![f].step = "over"]
  /\ UNCHANGED <<fileRows, uploads, locked, usable, bigEvent, eventForm>>

\* Elsewhere: a record is approved or reopened (MoneyChain), an asset archived, a scope closed.
RecordMoves(r) ==
  /\ locked' = IF r \in locked THEN locked \ {r} ELSE locked \cup {r}
  /\ UNCHANGED <<stored, fileRows, uploads, removals, usable, bigEvent, eventForm>>
PlaceCloses(p) ==
  /\ p \in usable /\ usable' = usable \ {p}
  /\ UNCHANGED <<stored, fileRows, uploads, removals, locked, bigEvent, eventForm>>

---------------------------------------------------------------------------
(* The event itself. *)

CreateMajorEvent ==
  /\ bigEvent = NoEvent
  /\ bigEvent' = [NoEvent EXCEPT !.status = "active", !.revision = 1, !.entries = 1]
  /\ UNCHANGED <<stored, fileRows, uploads, removals, locked, usable, eventForm>>
GetMajorEvent ==
  /\ bigEvent.status # "none" /\ eventForm = 0
  /\ eventForm' = bigEvent.revision
  /\ UNCHANGED <<stored, fileRows, uploads, removals, locked, usable, bigEvent>>
FormFits == eventForm # 0 /\ bigEvent.status = "active" /\ bigEvent.revision = eventForm
UpdateMajorEvent ==
  /\ FormFits /\ bigEvent.revision < MaxRevision
  /\ bigEvent' = [bigEvent EXCEPT !.revision = @ + 1, !.entries = @ + 1]
  /\ eventForm' = 0
  /\ UNCHANGED <<stored, fileRows, uploads, removals, locked, usable>>
CloseMajorEvent ==
  /\ FormFits
  /\ bigEvent' = [bigEvent EXCEPT !.status = "closed", !.revision = @ + 1, !.entries = @ + 1]
  /\ eventForm' = 0
  /\ UNCHANGED <<stored, fileRows, uploads, removals, locked, usable>>
EditConflict ==
  /\ eventForm # 0 /\ ~FormFits /\ eventForm' = 0
  /\ UNCHANGED <<stored, fileRows, uploads, removals, locked, usable, bigEvent>>
\* The limit counts every entry and is asked of these entries only.
AddMajorEventEntry ==
  /\ bigEvent.status = "active" /\ bigEvent.entries < EntryLimit
  /\ bigEvent' = [bigEvent EXCEPT !.entries = @ + 1]
  /\ UNCHANGED <<stored, fileRows, uploads, removals, locked, usable, eventForm>>

UploadStep(f) ==
  \/ \E k \in Kinds : StoreBlob(f, k)
  \/ WriteRow(f) \/ WriteFails(f) \/ LinkDocument(f) \/ CleanUp(f)
  \/ \E b \in MailBlobs : ClaimEmailAttachment(f, b)
UseStep(f) == AskAbout(f) \/ ArchiveDocument(f) \/ \E r \in MoneyRecords : AttachTo(f, r) \/ DetachFrom(f, r)
RemovalStep(f) == BeginRemoval(f) \/ RemoveRow(f) \/ RemovalRefused(f) \/ RemoveBlob(f)
EventStep ==
  \/ CreateMajorEvent \/ GetMajorEvent \/ UpdateMajorEvent \/ CloseMajorEvent \/ EditConflict \/ AddMajorEventEntry

FilesNext ==
  \/ \E f \in FileIds : UploadStep(f) \/ UseStep(f) \/ RemovalStep(f)
  \/ \E r \in MoneyRecords : RecordMoves(r)
  \/ \E p \in usable : PlaceCloses(p)
  \/ EventStep

FilesSpec == FilesInit /\ [][FilesNext]_fileVars

---------------------------------------------------------------------------
(* "A row pointing at a missing blob is not" harmless: whatever fails, and   *)
(* in whatever order uploads, claims and removals run, a row's blob is in     *)
(* storage.  The files of assets are left out: their upload deletes the blob  *)
(* on every error, also when the COMMIT whose answer was lost went through.   *)
RowsHaveTheirFile ==
  \A f \in FileIds : fileRows[f] # NoFile /\ fileRows[f].kind # "asset" => fileRows[f].blob \in stored
=============================================================================
