--------------------------- MODULE Property_proofs ---------------------------
(***************************************************************************)
(* What the registers of a property guarantee for any rows, requests and   *)
(* files: Files, TenancyParts, Vacancies, Inspections and RentReviews in   *)
(* turn. They share no state.                                              *)
(***************************************************************************)
EXTENDS RentReviews, Vacancies, Inspections, Files, TenancyParts,
        Sums, NaturalsInduction

-----------------------------------------------------------------------------
(* Files: blobs and rows.                                                  *)

Blobs == FileIds \cup MailBlobs \cup {NoBlob}

FileRow == [kind : Kinds \cup {"none"}, blob : Blobs, links : SUBSET MoneyRecords,
            on : BOOLEAN, asked : BOOLEAN, shelved : BOOLEAN]

Upload == [kind : Kinds \cup {"none"}, step : {"idle", "stored", "row", "done", "doubt"}]

Removal == [blob : Blobs, step : {"idle", "checked", "gone", "over"}, late : SUBSET MoneyRecords]

FilesTypeOK ==
  /\ fileRows \in [FileIds -> FileRow]
  /\ uploads \in [FileIds -> Upload]
  /\ removals \in [FileIds -> Removal]

\* Nobody deletes what the mail sync stored.
MailBlobsStay == MailBlobs \subseteq stored

\* The row of a file is made once, after its blob, and names that blob or an email's.
RowIsMadeOnce(f, row, up, st) ==
  /\ row.kind = "none" <=> row = NoFile
  /\ row.kind # "none" => /\ row.blob \in {f} \cup MailBlobs
                          /\ up.step \in {"row", "done", "doubt"} /\ up.kind = row.kind
  /\ up.step = "stored" => f \in st
  /\ up.step # "idle" => up.kind \in Kinds

\* A removal is of a file's own blob or of an email's, and takes the row for good.
RemovalTakesTheRow(f, row, up, rem) ==
  /\ rem.step # "idle" => /\ up.step \in {"row", "done", "doubt"}
                          /\ rem.blob \in {f} \cup MailBlobs
  /\ rem.step \in {"gone", "over"} => row.kind = "none"

FileIsSound(f, row, up, rem, st) ==
  /\ RowIsMadeOnce(f, row, up, st) /\ RemovalTakesTheRow(f, row, up, rem)
  /\ row # NoFile /\ row.kind # "asset" => row.blob \in st

FilesInv ==
  /\ FilesTypeOK /\ MailBlobsStay
  /\ \A f \in FileIds : FileIsSound(f, fileRows[f], uploads[f], removals[f], stored)

LEMMA NothingsAreFiles ==
  /\ NoFile \in FileRow /\ NoRemoval \in Removal
  /\ NoFile.kind = "none" /\ NoRemoval.step = "idle"
  /\ "none" \notin Kinds
  BY DEF NoFile, FileRow, NoRemoval, Removal, Blobs, Kinds

LEMMA FilesStart == FilesInit => FilesInv
<1> SUFFICES ASSUME FilesInit PROVE FilesInv
  OBVIOUS
<1>1. FilesTypeOK
  BY NothingsAreFiles DEF FilesInit, FilesTypeOK, Upload
<1>2. MailBlobsStay
  BY DEF FilesInit, MailBlobsStay
<1>3. \A f \in FileIds : FileIsSound(f, fileRows[f], uploads[f], removals[f], stored)
  BY NothingsAreFiles DEF FilesInit, FileIsSound, RowIsMadeOnce, RemovalTakesTheRow
<1> QED
  BY <1>1, <1>2, <1>3 DEF FilesInv

\* A step of one file leaves the others sound if it takes no other blob than the file's own.
LEMMA OneFile ==
  ASSUME FilesInv, NEW f \in FileIds,
         NEW row \in FileRow, NEW up \in Upload, NEW rem \in Removal,
         fileRows' = [fileRows EXCEPT ![f] = row], uploads' = [uploads EXCEPT ![f] = up],
         removals' = [removals EXCEPT ![f] = rem], stored \ {f} \subseteq stored',
         FileIsSound(f, row, up, rem, stored')
  PROVE  FilesInv'
<1>1. FilesTypeOK'
  BY DEF FilesInv, FilesTypeOK
<1>2. f \notin MailBlobs /\ MailBlobs \subseteq stored
  BY FilesConstants DEF FilesInv, MailBlobsStay
<1>3. MailBlobsStay'
  BY <1>2 DEF MailBlobsStay
<1>4. fileRows'[f] = row /\ uploads'[f] = up /\ removals'[f] = rem
  BY DEF FilesInv, FilesTypeOK
<1>5. ASSUME NEW g \in FileIds, g # f
      PROVE  FileIsSound(g, fileRows'[g], uploads'[g], removals'[g], stored')
  <2>1. fileRows'[g] = fileRows[g] /\ uploads'[g] = uploads[g] /\ removals'[g] = removals[g]
    BY <1>5 DEF FilesInv, FilesTypeOK
  <2>2. FileIsSound(g, fileRows[g], uploads[g], removals[g], stored)
    BY DEF FilesInv
  <2>3. RowIsMadeOnce(g, fileRows[g], uploads[g], stored')
    BY <1>5, <2>2 DEF FileIsSound, RowIsMadeOnce
  <2>4. fileRows[g] # NoFile /\ fileRows[g].kind # "asset" => fileRows[g].blob \in stored'
    BY <1>2, <1>5, <2>2 DEF FileIsSound, RowIsMadeOnce
  <2> QED
    BY <2>1, <2>2, <2>3, <2>4 DEF FileIsSound
<1>6. \A g \in FileIds : FileIsSound(g, fileRows'[g], uploads'[g], removals'[g], stored')
  BY <1>4, <1>5
<1> QED
  BY <1>1, <1>3, <1>6 DEF FilesInv

\* What a step of one file starts from.
LEMMA FileFacts ==
  ASSUME FilesInv, NEW f \in FileIds
  PROVE  /\ fileRows[f] \in FileRow /\ uploads[f] \in Upload /\ removals[f] \in Removal
         /\ fileRows = [fileRows EXCEPT ![f] = fileRows[f]]
         /\ uploads = [uploads EXCEPT ![f] = uploads[f]]
         /\ removals = [removals EXCEPT ![f] = removals[f]]
         /\ FileIsSound(f, fileRows[f], uploads[f], removals[f], stored)
         /\ f \notin MailBlobs /\ MailBlobs \subseteq stored
  BY FilesConstants DEF FilesInv, FilesTypeOK, MailBlobsStay

LEMMA StoreBlobKeeps ==
  ASSUME FilesInv, NEW f \in FileIds, NEW k \in Kinds, StoreBlob(f, k) PROVE FilesInv'
<1> DEFINE up == [kind |-> k, step |-> "stored"]
<1>1. up \in Upload /\ up.step = "stored" /\ up.kind = k
  BY DEF Upload
<1>2. /\ uploads' = [uploads EXCEPT ![f] = up] /\ stored' = stored \cup {f}
      /\ fileRows' = fileRows /\ removals' = removals /\ uploads[f].step = "idle"
  BY DEF StoreBlob
<1> HIDE DEF up
<1>3. FileIsSound(f, fileRows[f], up, removals[f], stored')
  BY <1>1, <1>2, FileFacts, NothingsAreFiles DEF FileIsSound, RowIsMadeOnce, RemovalTakesTheRow
<1> QED
  BY <1>1, <1>2, <1>3, FileFacts, OneFile

LEMMA WriteRowKeeps ==
  ASSUME FilesInv, NEW f \in FileIds, WriteRow(f) PROVE FilesInv'
<1> DEFINE k == uploads[f].kind
           row == [NoFile EXCEPT !.kind = k, !.blob = f, !.on = k = "asset"]
<1>1. PICK s \in Answered(f) : uploads' = [uploads EXCEPT ![f].step = s]
  BY DEF WriteRow
<1> DEFINE up == [uploads[f] EXCEPT !.step = s]
<1>2. s \in {"row", "done", "doubt"}
  BY DEF Answered
<1>3. up \in Upload /\ up.step = s /\ up.kind = k
  BY <1>2, FileFacts DEF Upload
<1>4. k \in Kinds \cup {"none"} /\ (k = "asset") \in BOOLEAN /\ f \in Blobs
  BY FileFacts DEF Upload, Blobs
<1>5. row \in FileRow /\ row.kind = k /\ row.blob = f
  BY <1>4, NothingsAreFiles DEF FileRow
<1>6. /\ uploads' = [uploads EXCEPT ![f] = up] /\ fileRows' = [fileRows EXCEPT ![f] = row]
      /\ stored' = stored /\ removals' = removals /\ uploads[f].step = "stored"
  BY <1>1 DEF WriteRow
<1> HIDE DEF row, up
<1>7. FileIsSound(f, row, up, removals[f], stored')
  BY <1>2, <1>3, <1>5, <1>6, FileFacts, NothingsAreFiles DEF FileIsSound, RowIsMadeOnce, RemovalTakesTheRow
<1> QED
  BY <1>3, <1>5, <1>6, <1>7, FileFacts, OneFile

LEMMA WriteFailsKeeps ==
  ASSUME FilesInv, NEW f \in FileIds, WriteFails(f) PROVE FilesInv'
<1> DEFINE s == IF uploads[f].kind \in {"job", "tenancy"} THEN "done" ELSE "doubt"
           up == [uploads[f] EXCEPT !.step = s]
<1>1. s \in {"done", "doubt"}
  OBVIOUS
<1>2. up \in Upload /\ up.step = s /\ up.kind = uploads[f].kind
  BY <1>1, FileFacts DEF Upload
<1>3. /\ uploads' = [uploads EXCEPT ![f] = up] /\ stored' = stored
      /\ fileRows' = fileRows /\ removals' = removals /\ uploads[f].step = "stored"
  BY DEF WriteFails
<1> HIDE DEF s, up
<1>4. FileIsSound(f, fileRows[f], up, removals[f], stored')
  BY <1>1, <1>2, <1>3, FileFacts DEF FileIsSound, RowIsMadeOnce, RemovalTakesTheRow
<1> QED
  BY <1>2, <1>3, <1>4, FileFacts, OneFile

LEMMA LinkDocumentKeeps ==
  ASSUME FilesInv, NEW f \in FileIds, LinkDocument(f) PROVE FilesInv'
<1> DEFINE row == [fileRows[f] EXCEPT !.on = TRUE]
           up == [uploads[f] EXCEPT !.step = "done"]
<1>1. row \in FileRow /\ row.kind = fileRows[f].kind /\ row.blob = fileRows[f].blob
  BY FileFacts DEF FileRow
<1>2. up \in Upload /\ up.step = "done" /\ up.kind = uploads[f].kind
  BY FileFacts DEF Upload
<1>3. /\ fileRows' = [fileRows EXCEPT ![f] = row] /\ uploads' = [uploads EXCEPT ![f] = up]
      /\ stored' = stored /\ removals' = removals
      /\ uploads[f].step = "row" /\ fileRows[f].kind = "tenancy"
  BY DEF LinkDocument
<1> HIDE DEF row, up
<1>4. FileIsSound(f, row, up, removals[f], stored')
  BY <1>1, <1>2, <1>3, FileFacts, NothingsAreFiles DEF FileIsSound, RowIsMadeOnce, RemovalTakesTheRow
<1> QED
  BY <1>1, <1>2, <1>3, <1>4, FileFacts, OneFile

LEMMA CleanUpKeeps ==
  ASSUME FilesInv, NEW f \in FileIds, CleanUp(f) PROVE FilesInv'
<1> DEFINE up == [uploads[f] EXCEPT !.step = "done"]
<1>1. up \in Upload /\ up.step = "done" /\ up.kind = uploads[f].kind
  BY FileFacts DEF Upload
<1>2. /\ uploads' = [uploads EXCEPT ![f] = up]
      /\ fileRows' = fileRows /\ removals' = removals /\ uploads[f].step = "doubt"
  BY DEF CleanUp
<1>3. stored \ {f} \subseteq stored' /\ (~CleansUp(f) => stored' = stored)
  BY DEF CleanUp
<1> HIDE DEF up
<1>4. fileRows[f] # NoFile /\ fileRows[f].kind # "asset" => stored' = stored
  BY <1>3, FileFacts, NothingsAreFiles DEF CleansUp, FileIsSound, RowIsMadeOnce
<1>5. FileIsSound(f, fileRows[f], up, removals[f], stored')
  BY <1>1, <1>2, <1>4, FileFacts DEF FileIsSound, RowIsMadeOnce, RemovalTakesTheRow
<1> QED
  BY <1>1, <1>2, <1>3, <1>5, FileFacts, OneFile

LEMMA ClaimKeeps ==
  ASSUME FilesInv, NEW f \in FileIds, NEW b \in MailBlobs, ClaimEmailAttachment(f, b) PROVE FilesInv'
<1> DEFINE row == [NoFile EXCEPT !.kind = "job", !.blob = b]
           up == [kind |-> "job", step |-> "done"]
<1>1. row \in FileRow /\ row.kind = "job" /\ row.blob = b
  BY NothingsAreFiles DEF FileRow, Kinds, Blobs
<1>2. up \in Upload /\ up.step = "done" /\ up.kind = "job" /\ "job" \in Kinds
  BY DEF Upload, Kinds
<1>3. /\ fileRows' = [fileRows EXCEPT ![f] = row] /\ uploads' = [uploads EXCEPT ![f] = up]
      /\ stored' = stored /\ removals' = removals /\ uploads[f].step = "idle"
  BY DEF ClaimEmailAttachment
<1> HIDE DEF row, up
<1>4. FileIsSound(f, row, up, removals[f], stored')
  BY <1>1, <1>2, <1>3, FileFacts, NothingsAreFiles DEF FileIsSound, RowIsMadeOnce, RemovalTakesTheRow
<1> QED
  BY <1>1, <1>2, <1>3, <1>4, FileFacts, OneFile

\* Attaching, detaching, asking and archiving change what a row is put to, not its blob.
LEMMA RowUseKeeps ==
  ASSUME FilesInv, NEW f \in FileIds, NEW row \in FileRow, NEW rem \in Removal,
         row.kind = fileRows[f].kind, row.blob = fileRows[f].blob, row.kind # "none",
         rem.step = removals[f].step, rem.blob = removals[f].blob,
         fileRows' = [fileRows EXCEPT ![f] = row], removals' = [removals EXCEPT ![f] = rem],
         stored' = stored, uploads' = uploads
  PROVE  FilesInv'
<1>1. row # NoFile /\ fileRows[f] # NoFile
  BY NothingsAreFiles
<1>2. FileIsSound(f, row, uploads[f], rem, stored')
  BY <1>1, FileFacts DEF FileIsSound, RowIsMadeOnce, RemovalTakesTheRow
<1>3. uploads' = [uploads EXCEPT ![f] = uploads[f]] /\ uploads[f] \in Upload /\ stored \ {f} \subseteq stored'
  BY FileFacts
<1> QED
  BY <1>2, <1>3, OneFile

LEMMA AttachKeeps ==
  ASSUME FilesInv, NEW f \in FileIds, NEW r \in MoneyRecords, AttachTo(f, r) PROVE FilesInv'
<1> DEFINE row == [fileRows[f] EXCEPT !.links = @ \cup {r}]
           l == IF removals[f].step = "checked" /\ r \notin fileRows[f].links
                THEN removals[f].late \cup {r} ELSE removals[f].late
           rem == [removals[f] EXCEPT !.late = l]
<1>1. row \in FileRow /\ row.kind = fileRows[f].kind /\ row.blob = fileRows[f].blob
  BY FileFacts DEF FileRow
<1>2. l \in SUBSET MoneyRecords
  BY FileFacts DEF Removal
<1>3. rem \in Removal /\ rem.step = removals[f].step /\ rem.blob = removals[f].blob
  BY <1>2, FileFacts DEF Removal
<1>4. /\ fileRows' = [fileRows EXCEPT ![f] = row] /\ removals' = [removals EXCEPT ![f] = rem]
      /\ stored' = stored /\ uploads' = uploads /\ fileRows[f].kind = "job"
  BY DEF AttachTo, OnJob
<1> HIDE DEF row, l, rem
<1> QED
  BY <1>1, <1>3, <1>4, RowUseKeeps

LEMMA RowChangeKeeps ==
  ASSUME FilesInv, NEW f \in FileIds,
         \/ \E r \in MoneyRecords : DetachFrom(f, r)
         \/ AskAbout(f) \/ ArchiveDocument(f)
  PROVE  FilesInv'
<1>1. PICK l \in SUBSET MoneyRecords, a \in BOOLEAN, s \in BOOLEAN :
        fileRows' = [fileRows EXCEPT ![f] = [fileRows[f] EXCEPT !.links = l, !.asked = a, !.shelved = s]]
  <2>1. fileRows[f] \in FileRow
    BY FileFacts
  <2>2. ASSUME NEW r \in MoneyRecords, DetachFrom(f, r)
        PROVE  fileRows' = [fileRows EXCEPT ![f] = [fileRows[f] EXCEPT !.links = fileRows[f].links \ {r},
                                        !.asked = fileRows[f].asked, !.shelved = fileRows[f].shelved]]
    BY <2>1, <2>2 DEF DetachFrom, FileRow
  <2>3. ASSUME AskAbout(f)
        PROVE  fileRows' = [fileRows EXCEPT ![f] = [fileRows[f] EXCEPT !.links = fileRows[f].links,
                                        !.asked = TRUE, !.shelved = fileRows[f].shelved]]
    BY <2>1, <2>3 DEF AskAbout, FileRow
  <2>4. ASSUME ArchiveDocument(f)
        PROVE  fileRows' = [fileRows EXCEPT ![f] = [fileRows[f] EXCEPT !.links = fileRows[f].links,
                                        !.asked = fileRows[f].asked, !.shelved = TRUE]]
    BY <2>1, <2>4 DEF ArchiveDocument, FileRow
  <2>5. /\ fileRows[f].links \in SUBSET MoneyRecords /\ fileRows[f].asked \in BOOLEAN
        /\ fileRows[f].shelved \in BOOLEAN
        /\ \A r : fileRows[f].links \ {r} \in SUBSET MoneyRecords
    BY <2>1 DEF FileRow
  <2> QED
    BY <2>2, <2>3, <2>4, <2>5
<1> DEFINE row == [fileRows[f] EXCEPT !.links = l, !.asked = a, !.shelved = s]
<1>2. row \in FileRow /\ row.kind = fileRows[f].kind /\ row.blob = fileRows[f].blob
  BY FileFacts DEF FileRow
<1>3. fileRows[f].kind # "none"
  <2>1. (\E r \in MoneyRecords : DetachFrom(f, r)) => fileRows[f].links # {}
    BY DEF DetachFrom
  <2>2. AskAbout(f) \/ ArchiveDocument(f) => fileRows[f].kind # "none"
    BY DEF AskAbout, ArchiveDocument, OnJob, OnTenancy
  <2>3. fileRows[f].kind = "none" => fileRows[f] = NoFile
    BY FileFacts DEF FileIsSound, RowIsMadeOnce
  <2> QED
    BY <2>1, <2>2, <2>3 DEF NoFile
<1>4. stored' = stored /\ uploads' = uploads /\ removals' = removals
  BY DEF DetachFrom, AskAbout, ArchiveDocument
<1>5. fileRows' = [fileRows EXCEPT ![f] = row]
  BY <1>1
<1>6. removals' = [removals EXCEPT ![f] = removals[f]] /\ removals[f] \in Removal
  BY <1>4, FileFacts
<1> HIDE DEF row
<1> QED
  BY <1>2, <1>3, <1>4, <1>5, <1>6, RowUseKeeps

LEMMA BeginRemovalKeeps ==
  ASSUME FilesInv, NEW f \in FileIds, BeginRemoval(f) PROVE FilesInv'
<1> DEFINE rem == [NoRemoval EXCEPT !.blob = fileRows[f].blob, !.step = "checked"]
<1>1. fileRows[f].blob \in Blobs
  BY FileFacts DEF FileRow
<1>2. rem \in Removal /\ rem.blob = fileRows[f].blob /\ rem.step = "checked"
  BY <1>1, NothingsAreFiles DEF Removal
<1>3. /\ removals' = [removals EXCEPT ![f] = rem]
      /\ stored' = stored /\ fileRows' = fileRows /\ uploads' = uploads
      /\ fileRows[f].kind \in {"job", "tenancy", "asset"}
  BY DEF BeginRemoval
<1> HIDE DEF rem
<1>4. FileIsSound(f, fileRows[f], uploads[f], rem, stored')
  BY <1>2, <1>3, FileFacts DEF FileIsSound, RowIsMadeOnce, RemovalTakesTheRow
<1> QED
  BY <1>2, <1>3, <1>4, FileFacts, OneFile

LEMMA RemoveRowKeeps ==
  ASSUME FilesInv, NEW f \in FileIds, RemoveRow(f) PROVE FilesInv'
<1> DEFINE rem == [removals[f] EXCEPT !.step = "gone", !.late = {}]
<1>1. rem \in Removal /\ rem.step = "gone" /\ rem.blob = removals[f].blob
  BY FileFacts DEF Removal
<1>2. /\ fileRows' = [fileRows EXCEPT ![f] = NoFile] /\ removals' = [removals EXCEPT ![f] = rem]
      /\ stored' = stored /\ uploads' = uploads /\ removals[f].step = "checked"
  BY DEF RemoveRow
<1> HIDE DEF rem
<1>3. FileIsSound(f, NoFile, uploads[f], rem, stored')
  BY <1>1, <1>2, FileFacts, NothingsAreFiles DEF FileIsSound, RowIsMadeOnce, RemovalTakesTheRow
<1> QED
  BY <1>1, <1>2, <1>3, FileFacts, NothingsAreFiles, OneFile

LEMMA RemovalRefusedKeeps ==
  ASSUME FilesInv, NEW f \in FileIds, RemovalRefused(f) PROVE FilesInv'
<1>1. /\ removals' = [removals EXCEPT ![f] = NoRemoval]
      /\ stored' = stored /\ fileRows' = fileRows /\ uploads' = uploads
  BY DEF RemovalRefused
<1>2. FileIsSound(f, fileRows[f], uploads[f], NoRemoval, stored')
  BY <1>1, FileFacts, NothingsAreFiles DEF FileIsSound, RowIsMadeOnce, RemovalTakesTheRow
<1> QED
  BY <1>1, <1>2, FileFacts, NothingsAreFiles, OneFile

\* The blob goes after the row, and only the file's own: no other row names it.
LEMMA RemoveBlobKeeps ==
  ASSUME FilesInv, NEW f \in FileIds, RemoveBlob(f) PROVE FilesInv'
<1> DEFINE rem == [removals[f] EXCEPT !.step = "over"]
<1>1. rem \in Removal /\ rem.step = "over" /\ rem.blob = removals[f].blob
  BY FileFacts DEF Removal
<1>2. /\ removals' = [removals EXCEPT ![f] = rem]
      /\ fileRows' = fileRows /\ uploads' = uploads /\ removals[f].step = "gone"
  BY DEF RemoveBlob
<1>3. removals[f].blob \in {f} \cup MailBlobs /\ fileRows[f].kind = "none" /\ uploads[f].step \in {"row", "done", "doubt"}
  BY <1>2, FileFacts DEF FileIsSound, RemovalTakesTheRow
<1>4. stored \ {f} \subseteq stored'
  BY <1>3 DEF RemoveBlob, OwnsBlob
<1> HIDE DEF rem
<1>5. FileIsSound(f, fileRows[f], uploads[f], rem, stored')
  BY <1>1, <1>2, <1>3, FileFacts DEF FileIsSound, RowIsMadeOnce, RemovalTakesTheRow
<1> QED
  BY <1>1, <1>2, <1>4, <1>5, FileFacts, OneFile

LEMMA FilesStep == FilesInv /\ [FilesNext]_fileVars => FilesInv'
<1> SUFFICES ASSUME FilesInv, [FilesNext]_fileVars PROVE FilesInv'
  OBVIOUS
<1>1. ASSUME UNCHANGED <<stored, fileRows, uploads, removals>> PROVE FilesInv'
  BY <1>1 DEF FilesInv, FilesTypeOK, MailBlobsStay, FileIsSound, RowIsMadeOnce
<1>2. ASSUME NEW f \in FileIds, UploadStep(f) PROVE FilesInv'
  BY <1>2, StoreBlobKeeps, WriteRowKeeps, WriteFailsKeeps, LinkDocumentKeeps, CleanUpKeeps, ClaimKeeps
     DEF UploadStep
<1>3. ASSUME NEW f \in FileIds, UseStep(f) PROVE FilesInv'
  BY <1>3, AttachKeeps, RowChangeKeeps DEF UseStep
<1>4. ASSUME NEW f \in FileIds, RemovalStep(f) PROVE FilesInv'
  BY <1>4, BeginRemovalKeeps, RemoveRowKeeps, RemovalRefusedKeeps, RemoveBlobKeeps DEF RemovalStep
<1>5. ASSUME NEW r \in MoneyRecords, RecordMoves(r) PROVE FilesInv'
  BY <1>1, <1>5 DEF RecordMoves
<1>6. ASSUME NEW p \in usable, PlaceCloses(p) PROVE FilesInv'
  BY <1>1, <1>6 DEF PlaceCloses
<1>7. CASE EventStep
  BY <1>1, <1>7 DEF EventStep, CreateMajorEvent, GetMajorEvent, UpdateMajorEvent, CloseMajorEvent,
                    EditConflict, AddMajorEventEntry
<1>8. CASE UNCHANGED fileVars
  BY <1>1, <1>8 DEF fileVars
<1> QED
  BY <1>2, <1>3, <1>4, <1>5, <1>6, <1>7, <1>8 DEF FilesNext

(* A row of a job, a tenancy, an event or the register always has its blob in *)
(* storage, whatever fails and in whatever order uploads, claims of email     *)
(* attachments and removals run (the deferred clean-ups of the handlers).     *)
THEOREM RowsKeepTheirFile == FilesSpec => []RowsHaveTheirFile
<1>1. FilesInv => RowsHaveTheirFile
  BY DEF FilesInv, FileIsSound, RowsHaveTheirFile
<1> QED
  BY <1>1, FilesStart, FilesStep, PTL DEF FilesSpec

-----------------------------------------------------------------------------
(* TenancyParts: the history of areas.                                     *)

Area == [cell : Cells \cup {NoCell}, holder : Lessees \cup {NoLessee}, archived : BOOLEAN]

\* The lines of the history are of areas that can be made, so a deletion looks at each.
PartsInv ==
  /\ areas \in [AreaRows -> Area]
  /\ areaLog \subseteq AreaRows \X Lessees
  /\ \A o \in AreaRows : areas[o].holder # NoLessee => <<o, areas[o].holder>> \in areaLog

LEMMA PartsStart == PartsInit => PartsInv
<1>1. NoArea \in Area /\ NoArea.holder = NoLessee
  BY DEF NoArea, Area
<1> QED
  BY <1>1 DEF PartsInit, PartsInv

\* One area is written, by an id or at its cell, and its history gets the line.
LEMMA AreaIsWritten ==
  ASSUME PartsInv, NEW o \in AreaRows, NEW c \in Cells, NEW t \in Lessees,
         NEW from \in Lessees \cup {NoLessee}, UpsertOccupancy(o, c, t, from)
  PROVE  PartsInv' /\ areaLog \subseteq areaLog'
<1> DEFINE x == IF Found(o, c) = {} THEN o ELSE CHOOSE y \in Found(o, c) : TRUE
           row == [cell |-> c, holder |-> t, archived |-> FALSE]
<1>1. x \in AreaRows
  BY DEF Found, AtCell
<1>2. row \in Area /\ row.holder = t
  BY DEF Area
<1>3. areas' = [areas EXCEPT ![x] = row] /\ areaLog' = areaLog \cup {<<x, t>>}
  BY DEF UpsertOccupancy, Remembered
<1> HIDE DEF x, row
<1> QED
  BY <1>1, <1>2, <1>3 DEF PartsInv

\* A draft that holds nothing takes nothing with it.
LEMMA NothingGoesWithADraft ==
  ASSUME PartsInv, NEW t \in Lessees, DeleteTenancyDraft(t)
  PROVE  areas' = areas /\ areaLog' = areaLog
<1>1. \A o \in AreaRows : areas[o].holder # t
  BY DEF DeleteTenancyDraft, DraftDeletionRefusal, HoldsNow
<1>2. areas' = areas
  BY <1>1 DEF DeleteTenancyDraft, PartsInv
<1>3. \A h \in areaLog : areas[h[1]].holder # t
  BY <1>1 DEF PartsInv
<1> QED
  BY <1>2, <1>3 DEF DeleteTenancyDraft

LEMMA AreasAreArchived ==
  ASSUME PartsInv, NEW O \in SUBSET AreaRows, NEW archive \in BOOLEAN, SetAreasArchived(O, archive)
  PROVE  PartsInv' /\ areaLog' = areaLog
<1>1. \A a \in Area : [a EXCEPT !.archived = archive] \in Area
                      /\ [a EXCEPT !.archived = archive].holder = a.holder
  BY DEF Area
<1>2. \A o \in AreaRows : areas'[o] \in Area /\ areas'[o].holder = areas[o].holder
  BY <1>1 DEF SetAreasArchived, PartsInv
<1>3. areas' \in [AreaRows -> Area] /\ areaLog' = areaLog
  BY <1>2 DEF SetAreasArchived
<1> QED
  BY <1>2, <1>3 DEF PartsInv

LEMMA PartsStep == PartsInv /\ [PartsNext]_partVars => PartsInv' /\ areaLog \subseteq areaLog'
<1> SUFFICES ASSUME PartsInv, [PartsNext]_partVars PROVE PartsInv' /\ areaLog \subseteq areaLog'
  OBVIOUS
<1>1. ASSUME areas' = areas, areaLog' = areaLog PROVE PartsInv' /\ areaLog \subseteq areaLog'
  BY <1>1 DEF PartsInv
<1>2. ASSUME NEW t \in Lessees, UpsertTenant(t) \/ FillIn(t) \/ SetArchived(t) \/ DeleteTenancyDraft(t)
      PROVE  PartsInv' /\ areaLog \subseteq areaLog'
  BY <1>1, <1>2, NothingGoesWithADraft DEF UpsertTenant, FillIn, SetArchived
<1>3. ASSUME NEW archive \in BOOLEAN, NEW B \in SUBSET Bays, SetBaysArchived(B, archive)
      PROVE  PartsInv' /\ areaLog \subseteq areaLog'
  BY <1>1, <1>3 DEF SetBaysArchived
<1>4. ASSUME NEW e \in BayEditors,
             \/ \E b \in Bays : ReadBay(e, b)
             \/ \E t \in Lessees \cup {NoLessee} : UpsertCarparkRow(e, t)
             \/ UpsertCarparkFails(e)
      PROVE  PartsInv' /\ areaLog \subseteq areaLog'
  BY <1>1, <1>4 DEF ReadBay, UpsertCarparkRow, UpsertCarparkFails
<1>5. ASSUME NEW n \in Notes, SetTenantNoteArchived(n) \/ \E t \in Lessees : CreateTenantNote(n, t)
      PROVE  PartsInv' /\ areaLog \subseteq areaLog'
  BY <1>1, <1>5 DEF SetTenantNoteArchived, CreateTenantNote
<1>6. CASE UNCHANGED partVars
  BY <1>1, <1>6 DEF partVars
<1> QED
  BY <1>2, <1>3, <1>4, <1>5, <1>6, AreaIsWritten, AreasAreArchived DEF PartsNext

(* Who has held an area stays on record, for any tenancies, areas and car      *)
(* parks: deleting a draft cascades into areas and from each area into its      *)
(* history, and takes no line because a tenancy that holds one is refused.     *)
THEOREM HoldingsStayOnRecord == PartsSpec => HoldingsAreRemembered
<1>1. PartsSpec => []PartsInv
  BY PartsStart, PartsStep, PTL DEF PartsSpec
<1>2. PartsInv /\ [PartsNext]_partVars => [areaLog \subseteq areaLog']_partVars
  BY PartsStep
<1> QED
  BY <1>1, <1>2, PTL DEF PartsSpec, HoldingsAreRemembered
-----------------------------------------------------------------------------
(* Vacancies: what is outside the database.                                *)

VacRow == [status : {"none", "draft", "published", "deleted"}, post : Posts \cup {NoPost},
           images : SUBSET Pics, slot : SUBSET Pics]

PostRow == [status : {"none", "live", "draft"}, vac : SUBSET Vacs]

VacReq == [op : {"none", "publish", "upload", "unpublish", "delete", "dropImage", "reorder", "setSlot", "clearSlot"},
           step : {"none", "callOut", "unpublish", "write", "erase", "dropBlob"},
           vac : SUBSET Vacs, seen : VacRow, post : Posts \cup {NoPost}, pic : SUBSET Pics]

\* How far each handler can be.
Stages == {<<"publish", "callOut">>, <<"publish", "write">>, <<"upload", "callOut">>, <<"upload", "write">>,
           <<"unpublish", "unpublish">>, <<"unpublish", "write">>, <<"delete", "unpublish">>, <<"delete", "erase">>,
           <<"dropImage", "write">>, <<"reorder", "write">>, <<"setSlot", "dropBlob">>, <<"setSlot", "callOut">>,
           <<"setSlot", "write">>, <<"clearSlot", "dropBlob">>, <<"clearSlot", "write">>}

Under(r) == r = NoReq \/ (<<r.op, r.step>> \in Stages /\ \E v \in Vacs : r.vac = {v})

VacTypeOK ==
  /\ vacs \in [Vacs -> VacRow] /\ wp \in [Posts -> PostRow] /\ vreqs \in [VacReqs -> VacReq]
  /\ \A q \in VacReqs : Under(vreqs[q])
  /\ \A q \in VacReqs, v \in Vacs : vreqs[q].vac = {v} => vacs[v].status # "none"

\* A post is one vacancy's, for its row and for every handler on it.
PostIsOf(p, v) == wp[p].vac = {v} /\ wp[p].status # "none"
PostsOfOne ==
  /\ \A v \in Vacs : vacs[v].post # NoPost => PostIsOf(vacs[v].post, v)
  /\ \A q \in VacReqs, v \in Vacs : vreqs[q].vac = {v} /\ vreqs[q].post # NoPost => PostIsOf(vreqs[q].post, v)

\* A picture is one vacancy's: its row lists it, or a handler on it has it in hand.
InHand(r) == r.pic \cup Lists(r.seen)
Holds(v, c) == c \in Lists(vacs[v]) \/ \E q \in VacReqs : vreqs[q].vac = {v} /\ c \in InHand(vreqs[q])
PicsOfOne == \A v, w \in Vacs : \A c \in Pics : Holds(v, c) /\ Holds(w, c) => v = w

\* No live post of the vacancy is one its row should know.
TakenDown(v) == \A p \in Posts : wp[p] = [status |-> "live", vac |-> {v}] => p \in unrecorded

\* What a handler that has a vacancy to itself read still stands.
Snapshot(r, v) ==
  /\ r.op \notin {"publish", "unpublish", "upload"} => r.seen = vacs[v]
  /\ r.op \in OnSite /\ r.step \in {"callOut", "unpublish"} => r.post = vacs[v].post
  /\ r.op = "publish" /\ r.step = "write" => vacs[v].post \in {NoPost, r.post}
  /\ r.step = "erase" \/ (r.op = "unpublish" /\ r.step = "write") => TakenDown(v)
  /\ r.op \in {"upload", "setSlot"} => r.pic \cap Lists(vacs[v]) = {}
  /\ r.op = "upload" /\ r.step = "write" => r.pic \subseteq blobs

PostsNamed(v) ==
  \A p \in Posts : wp[p] = [status |-> "live", vac |-> {v}] /\ p \notin unrecorded =>
    \/ vacs[v].post = p
    \/ \E q \in VacReqs : At(q, "publish", "write") /\ vreqs[q].post = p

PicsStored(v) == vacs[v].images \subseteq blobs /\ vacs[v].images \cap vacs[v].slot = {}

UncrossedIsSound(v) ==
  /\ \A q, r \in VacReqs : vreqs[q].vac = {v} /\ vreqs[r].vac = {v} => q = r
  /\ \A q \in VacReqs : vreqs[q].vac = {v} => Snapshot(vreqs[q], v)
  /\ PostsNamed(v) /\ PicsStored(v)

VacInv == VacTypeOK /\ PostsOfOne /\ PicsOfOne /\ \A v \in Vacs \ crossed : UncrossedIsSound(v)

LEMMA VacsAgree == VacInv => OutsideIsKnown
BY DEF VacInv, UncrossedIsSound, PostsNamed, PicsStored, OutsideIsKnown, LivePostIsNamed, ListedIsStored

LEMMA NothingIsAsked == NoReq \in VacReq /\ NoVac \in VacRow /\ NoReq.vac = {} /\ InHand(NoReq) = {} /\ Lists(NoVac) = {}
BY DEF NoReq, NoVac, VacReq, VacRow, InHand, Lists

LEMMA VacStart == VacInit => VacInv
<1> SUFFICES ASSUME VacInit PROVE VacInv
  OBVIOUS
<1>1. /\ \A v \in Vacs : vacs[v] = NoVac
      /\ \A q \in VacReqs : vreqs[q] = NoReq
      /\ \A p \in Posts : wp[p] = [status |-> "none", vac |-> {}]
  BY DEF VacInit
<1>2. VacTypeOK
  BY <1>1, NothingIsAsked DEF VacInit, VacTypeOK, Under, PostRow
<1>3. PostsOfOne /\ PicsOfOne
  BY SMTT(30), <1>1, NothingIsAsked DEF PostsOfOne, PicsOfOne, Holds, NoVac
<1>4. \A v \in Vacs : UncrossedIsSound(v)
  BY <1>1, NothingIsAsked DEF UncrossedIsSound, PostsNamed, PicsStored, NoVac
<1> QED
  BY <1>2, <1>3, <1>4 DEF VacInv

\* A handler on one vacancy leaves the others as they were.
LEMMA Elsewhere ==
  ASSUME VacInv, NEW q \in VacReqs, NEW v \in Vacs, NEW w \in Vacs \ crossed, w # v,
         vacs'[w] = vacs[w], \A r \in VacReqs \ {q} : vreqs'[r] = vreqs[r],
         vreqs[q].vac \in {{}, {v}}, vreqs'[q].vac \in {{}, {v}},
         \A p \in Posts : wp'[p] = wp[p] \/ wp'[p].vac = {v},
         \A c \in blobs \ blobs' : Holds(v, c), unrecorded \subseteq unrecorded'
  PROVE  UncrossedIsSound(w)'
<1>1. UncrossedIsSound(w)
  BY DEF VacInv
<1>2. \A r \in VacReqs : vreqs'[r].vac = {w} => r # q /\ vreqs'[r] = vreqs[r]
  OBVIOUS
<1>3. \A p \in Posts : wp'[p].vac = {w} => wp'[p] = wp[p]
  OBVIOUS
<1>4. ASSUME NEW c \in blobs, c \in Pics, Holds(w, c) PROVE c \in blobs'
  BY <1>4 DEF VacInv, PicsOfOne
<1>5. \A r \in VacReqs : vreqs[r].vac = {w} => vreqs[r].pic \subseteq Pics
  BY DEF VacInv, VacTypeOK, VacReq
<1>6. vacs[w].images \subseteq Pics
  BY DEF VacInv, VacTypeOK, VacRow
<1>7. PicsStored(w)'
  BY <1>1, <1>4, <1>6 DEF UncrossedIsSound, PicsStored, Holds, Lists
<1>8. \A r \in VacReqs : vreqs'[r].vac = {w} => Snapshot(vreqs[r], w)
  BY <1>1, <1>2 DEF UncrossedIsSound
<1>9. TakenDown(w) => TakenDown(w)'
  <2> SUFFICES ASSUME TakenDown(w), NEW p \in Posts, wp'[p] = [status |-> "live", vac |-> {w}]
               PROVE  p \in unrecorded'
    BY DEF TakenDown
  <2> QED
    BY <1>3 DEF TakenDown
<1>10. ASSUME NEW r \in VacReqs, vreqs'[r].vac = {w} PROVE Snapshot(vreqs[r], w)'
  <2>1. Snapshot(vreqs[r], w) /\ vreqs'[r] = vreqs[r]
    BY <1>2, <1>8, <1>10
  <2>2. vreqs[r].pic \subseteq blobs => vreqs[r].pic \subseteq blobs'
    BY <1>2, <1>4, <1>5, <1>10 DEF Holds, InHand
  <2> QED
    BY <1>9, <2>1, <2>2 DEF Snapshot
<1>11. PostsNamed(w)'
  <2> SUFFICES ASSUME NEW p \in Posts, wp'[p] = [status |-> "live", vac |-> {w}], p \notin unrecorded'
               PROVE  vacs'[w].post = p \/ \E r \in VacReqs : At(r, "publish", "write")' /\ vreqs'[r].post = p
    BY DEF PostsNamed
  <2>1. wp[p] = [status |-> "live", vac |-> {w}] /\ p \notin unrecorded
    BY <1>3
  <2>2. CASE vacs[w].post = p
    BY <2>2
  <2>3. ASSUME NEW r \in VacReqs, At(r, "publish", "write"), vreqs[r].post = p
        PROVE  r # q
    <3>1. p # NoPost
      BY DEF Posts, NoPost
    <3>2. Under(vreqs[r]) /\ vreqs[r] # NoReq
      BY <2>3 DEF VacInv, VacTypeOK, At, NoReq
    <3>3. PICK u \in Vacs : vreqs[r].vac = {u}
      BY <3>2 DEF Under
    <3>4. wp[p].vac = {u}
      BY <2>3, <3>1, <3>3 DEF VacInv, PostsOfOne, PostIsOf
    <3>5. u = w
      BY <2>1, <3>4
    <3> QED
      BY <3>3, <3>5
  <2> QED
    <3>1. vacs[w].post = p \/ \E r \in VacReqs : At(r, "publish", "write") /\ vreqs[r].post = p
      BY <1>1, <2>1 DEF UncrossedIsSound, PostsNamed
    <3>2. ASSUME NEW r \in VacReqs, At(r, "publish", "write"), vreqs[r].post = p
          PROVE  At(r, "publish", "write")' /\ vreqs'[r].post = p
      <4>1. vreqs'[r] = vreqs[r]
        BY <2>3, <3>2
      <4> QED
        BY <3>2, <4>1 DEF At
    <3> QED
      BY <2>2, <3>1, <3>2
<1>12. \A r, s \in VacReqs : vreqs'[r].vac = {w} /\ vreqs'[s].vac = {w} => r = s
  BY <1>1, <1>2 DEF UncrossedIsSound
<1> QED
  BY <1>7, <1>10, <1>11, <1>12 DEF UncrossedIsSound
\* One handler's step on its vacancy: what else the invariant asks of the step.
LEMMA VacancyStep ==
  ASSUME VacInv, NEW q \in VacReqs, NEW v \in Vacs, NEW nr \in VacReq, NEW nv \in VacRow,
         Under(nr), nr.vac \in {{}, {v}}, vreqs[q].vac \in {{}, {v}}, nv.status # "none",
         vreqs' = [vreqs EXCEPT ![q] = nr], vacs' = [vacs EXCEPT ![v] = nv], wp' \in [Posts -> PostRow],
         \A p \in Posts : \/ wp'[p] = wp[p]
                          \/ wp'[p].vac = {v} /\ wp'[p].status # "none" /\ (wp[p].vac = {v} \/ wp[p].status = "none"),
         nv.post # NoPost => wp'[nv.post].vac = {v} /\ wp'[nv.post].status # "none",
         nr.vac = {v} /\ nr.post # NoPost => wp'[nr.post].vac = {v} /\ wp'[nr.post].status # "none",
         \A c \in Pics : c \in Lists(nv) \cup InHand(nr) => Holds(v, c) \/ Free(c),
         \A c \in blobs \ blobs' : Holds(v, c),
         crossed \subseteq crossed', unrecorded \subseteq unrecorded',
         v \in Vacs \ crossed' => UncrossedIsSound(v)'
  PROVE  VacInv'
<1>1. /\ vacs \in [Vacs -> VacRow] /\ wp \in [Posts -> PostRow] /\ vreqs \in [VacReqs -> VacReq]
      /\ \A r \in VacReqs : Under(vreqs[r])
      /\ \A r \in VacReqs, w \in Vacs : vreqs[r].vac = {w} => vacs[w].status # "none"
  BY DEF VacInv, VacTypeOK
<1>2. /\ \A r \in VacReqs : vreqs'[r] = IF r = q THEN nr ELSE vreqs[r]
      /\ \A w \in Vacs : vacs'[w] = IF w = v THEN nv ELSE vacs[w]
      /\ vacs' \in [Vacs -> VacRow] /\ vreqs' \in [VacReqs -> VacReq]
  BY <1>1
<1>3. VacTypeOK'
  <2>1. \A r \in VacReqs : Under(vreqs'[r])
    BY <1>1, <1>2
  <2>2. \A r \in VacReqs : Under(vreqs[r])'
    BY <2>1 DEF Under
  <2>3. \A r \in VacReqs, w \in Vacs : vreqs'[r].vac = {w} => vacs'[w].status # "none"
    BY <1>1, <1>2
  <2> QED
    BY <1>2, <2>2, <2>3 DEF VacTypeOK
<1>4. PostsOfOne'
  <2>1. PostsOfOne
    BY DEF VacInv
  <2>2. ASSUME NEW p \in Posts, NEW w \in Vacs, PostIsOf(p, w) PROVE PostIsOf(p, w)'
    BY <2>2 DEF PostIsOf
  <2>3. ASSUME NEW w \in Vacs, vacs'[w].post # NoPost PROVE PostIsOf(vacs[w].post, w)'
    <3>1. CASE w = v
      BY <1>2, <2>3, <3>1 DEF PostIsOf
    <3>2. CASE w # v
      <4>1. vacs'[w] = vacs[w] /\ vacs[w].post \in Posts /\ PostIsOf(vacs[w].post, w)
        BY <1>1, <1>2, <2>1, <2>3, <3>2 DEF PostsOfOne, VacRow
      <4> QED
        BY <2>2, <4>1 DEF PostIsOf
    <3> QED
      BY <3>1, <3>2
  <2>4. ASSUME NEW r \in VacReqs, NEW w \in Vacs, vreqs'[r].vac = {w}, vreqs'[r].post # NoPost
        PROVE  PostIsOf(vreqs[r].post, w)'
    <3>1. CASE r = q
      <4>1. w = v
        BY <1>2, <2>4, <3>1
      <4> QED
        BY <1>2, <2>4, <3>1, <4>1 DEF PostIsOf
    <3>2. CASE r # q
      <4>1. vreqs'[r] = vreqs[r] /\ vreqs[r].post \in Posts /\ PostIsOf(vreqs[r].post, w)
        BY <1>1, <1>2, <2>1, <2>4, <3>2 DEF PostsOfOne, VacReq
      <4> QED
        BY <2>2, <4>1 DEF PostIsOf
    <3> QED
      BY <3>1, <3>2
  <2> QED
    BY <2>3, <2>4 DEF PostsOfOne
<1>5. PicsOfOne'
  <2>1. ASSUME NEW w \in Vacs, NEW c \in Pics, w # v, Holds(w, c)' PROVE Holds(w, c)
    <3>1. vacs'[w] = vacs[w]
      BY <1>2, <2>1
    <3>2. \A r \in VacReqs : vreqs'[r].vac = {w} => vreqs'[r] = vreqs[r]
      BY <1>2, <2>1
    <3> QED
      BY <2>1, <3>1, <3>2 DEF Holds, InHand
  <2>2. ASSUME NEW c \in Pics, Holds(v, c)' PROVE Holds(v, c) \/ Free(c)
    <3>1. CASE c \in Lists(vacs'[v])
      BY <1>2, <3>1
    <3>2. ASSUME NEW r \in VacReqs, vreqs'[r].vac = {v}, c \in InHand(vreqs'[r])
          PROVE  Holds(v, c) \/ Free(c)
      <4>1. CASE r = q
        BY <1>2, <3>2, <4>1
      <4>2. CASE r # q
        BY <1>2, <3>2, <4>2 DEF Holds
      <4> QED
        BY <4>1, <4>2
    <3>3. c \in Lists(vacs'[v]) \/ \E r \in VacReqs : vreqs'[r].vac = {v} /\ c \in InHand(vreqs'[r])
      BY <2>2 DEF Holds, InHand, Lists
    <3> QED
      BY <3>1, <3>2, <3>3
  <2>3. ASSUME NEW w \in Vacs, NEW c \in Pics, Free(c) PROVE ~Holds(w, c)
    BY <2>3 DEF Free, Holds, InHand
  <2>4. PicsOfOne
    BY DEF VacInv
  <2>5. ASSUME NEW u \in Vacs, NEW w \in Vacs, NEW c \in Pics, Holds(u, c)', Holds(w, c)' PROVE u = w
    BY <2>1, <2>2, <2>3, <2>4, <2>5 DEF PicsOfOne
  <2> QED
    BY <2>5 DEF PicsOfOne
<1>6. ASSUME NEW w \in Vacs \ crossed' PROVE UncrossedIsSound(w)'
  <2>1. CASE w = v
    BY <1>6, <2>1
  <2>2. CASE w # v
    <3>1. /\ w \in Vacs \ crossed /\ vacs'[w] = vacs[w]
          /\ \A r \in VacReqs \ {q} : vreqs'[r] = vreqs[r]
          /\ vreqs'[q].vac \in {{}, {v}}
          /\ \A p \in Posts : wp'[p] = wp[p] \/ wp'[p].vac = {v}
      BY <1>2, <1>6, <2>2
    <3> QED
      BY <2>2, <3>1, Elsewhere
  <2> QED
    BY <2>1, <2>2
<1> QED
  BY <1>3, <1>4, <1>5, <1>6 DEF VacInv

\* A handler that is at some stage is on one vacancy, which has a row.
LEMMA HandlerIsOn ==
  ASSUME VacInv, NEW q \in VacReqs, vreqs[q].step # "none"
  PROVE  /\ VacOf(q) \in Vacs /\ vreqs[q].vac = {VacOf(q)} /\ vacs[VacOf(q)].status # "none"
         /\ <<vreqs[q].op, vreqs[q].step>> \in Stages
         /\ vreqs[q] \in VacReq /\ vacs[VacOf(q)] \in VacRow
         /\ vreqs[q].post # NoPost => PostIsOf(vreqs[q].post, VacOf(q))
         /\ vacs[VacOf(q)].post # NoPost => PostIsOf(vacs[VacOf(q)].post, VacOf(q))
<1>1. Under(vreqs[q]) /\ vreqs[q] # NoReq
  BY DEF VacInv, VacTypeOK, NoReq
<1>2. PICK v \in Vacs : vreqs[q].vac = {v}
  BY <1>1 DEF Under
<1>3. VacOf(q) = v
  BY <1>2 DEF VacOf
<1>4. /\ <<vreqs[q].op, vreqs[q].step>> \in Stages
      /\ vreqs[q] \in VacReq /\ vacs[v] \in VacRow /\ vacs[v].status # "none"
  BY <1>1, <1>2 DEF VacInv, VacTypeOK, Under
<1> QED
  BY <1>2, <1>3, <1>4 DEF VacInv, PostsOfOne

\* A step of a handler that has its vacancy to itself leaves it sound.
LEMMA AloneStep ==
  ASSUME VacInv, NEW q \in VacReqs, NEW v \in Vacs \ crossed, NEW nr,
         vreqs[q].vac = {v}, vreqs' = [vreqs EXCEPT ![q] = nr], nr = NoReq \/ nr.vac = {v},
         nr # NoReq => Snapshot(vreqs[q], v)', PostsNamed(v)', PicsStored(v)'
  PROVE  UncrossedIsSound(v)'
<1>1. \A r \in VacReqs : vreqs[r].vac = {v} => r = q
  BY DEF VacInv, UncrossedIsSound
<1>2. vreqs \in [VacReqs -> VacReq]
  BY DEF VacInv, VacTypeOK
<1>3. \A r \in VacReqs : vreqs'[r] = IF r = q THEN nr ELSE vreqs[r]
  BY <1>2
<1>4. \A r \in VacReqs : vreqs'[r].vac = {v} => r = q /\ nr # NoReq
  BY <1>1, <1>3 DEF NoReq
<1> QED
  BY <1>4 DEF UncrossedIsSound
\* What is known of a handler's vacancy while it is not crossed.
LEMMA HandlerKnows ==
  ASSUME VacInv, NEW q \in VacReqs, NEW v \in Vacs \ crossed, vreqs[q].vac = {v}
  PROVE  /\ Snapshot(vreqs[q], v) /\ PostsNamed(v) /\ PicsStored(v)
         /\ \A r \in VacReqs : vreqs[r].vac = {v} => r = q
BY DEF VacInv, UncrossedIsSound

\* A handler ends and its row, the site and the pictures stay as they are.
LEMMA Ends ==
  ASSUME VacInv, NEW q \in VacReqs, vreqs[q].step # "none", Answer(q), UNCHANGED <<vacs, wp, blobs, crossed>>,
         unrecorded \subseteq unrecorded', At(q, "publish", "write") => vreqs[q].post \in unrecorded'
  PROVE  VacInv'
<1>1. PICK v \in Vacs :
        /\ vreqs[q].vac = {v} /\ vacs[v].status # "none" /\ vacs[v] \in VacRow
        /\ vacs[v].post # NoPost => PostIsOf(vacs[v].post, v)
  BY HandlerIsOn
<1>2. vacs \in [Vacs -> VacRow] /\ wp \in [Posts -> PostRow] /\ vreqs \in [VacReqs -> VacReq]
  BY DEF VacInv, VacTypeOK
<1>3. vacs' = [vacs EXCEPT ![v] = vacs[v]] /\ vreqs' = [vreqs EXCEPT ![q] = NoReq]
  BY <1>1, <1>2 DEF Answer
<1>4. ASSUME v \notin crossed PROVE UncrossedIsSound(v)'
  <2>1. PostsNamed(v)'
    <3> SUFFICES ASSUME NEW p \in Posts, wp'[p] = [status |-> "live", vac |-> {v}], p \notin unrecorded'
                 PROVE  vacs'[v].post = p \/ \E r \in VacReqs : At(r, "publish", "write")' /\ vreqs'[r].post = p
      BY DEF PostsNamed
    <3>1. vacs[v].post = p \/ \E r \in VacReqs : At(r, "publish", "write") /\ vreqs[r].post = p
      BY <1>1, <1>4, HandlerKnows DEF PostsNamed
    <3>2. ASSUME NEW r \in VacReqs, At(r, "publish", "write"), vreqs[r].post = p
          PROVE  At(r, "publish", "write")' /\ vreqs'[r].post = p
      <4>1. r # q
        BY <3>2
      <4>2. vreqs'[r] = vreqs[r]
        BY <1>2, <1>3, <4>1
      <4> QED
        BY <3>2, <4>2 DEF At
    <3> QED
      BY <3>1, <3>2
  <2>2. PicsStored(v)'
    BY <1>1, <1>4, HandlerKnows DEF PicsStored
  <2> QED
    BY <1>1, <1>3, <1>4, <2>1, <2>2, AloneStep
<1>5. \A c \in Pics : c \in Lists(vacs[v]) \cup InHand(NoReq) => Holds(v, c)
  BY NothingIsAsked DEF Holds
<1>6. vacs[v].post # NoPost => wp'[vacs[v].post].vac = {v} /\ wp'[vacs[v].post].status # "none"
  BY <1>1 DEF PostIsOf
<1>7. Under(NoReq)
  BY DEF Under
<1> QED
  BY <1>1, <1>2, <1>3, <1>4, <1>5, <1>6, <1>7, NothingIsAsked, VacancyStep

LEMMA EndingsKeep == ASSUME VacInv, NEW q \in VacReqs, UnpublishFails(q) \/ Fails(q) PROVE VacInv'
<1>1. vreqs[q].step # "none" /\ Answer(q) /\ UNCHANGED <<vacs, wp, blobs, crossed>> /\ unrecorded \subseteq unrecorded'
  BY DEF UnpublishFails, GivesUp, Fails
<1>2. At(q, "publish", "write") => vreqs[q].post \in unrecorded'
  BY DEF UnpublishFails, GivesUp, Fails, At
<1> QED
  BY <1>1, <1>2, Ends

\* A handler that writes its row and ends.
LEMMA RowWritten ==
  ASSUME VacInv, NEW q \in VacReqs, vreqs[q].step # "none", NEW nv \in VacRow, nv.status # "none",
         vacs' = [vacs EXCEPT ![VacOf(q)] = nv], Answer(q), UNCHANGED <<wp, crossed, unrecorded>>,
         nv.post \in {NoPost, vacs[VacOf(q)].post, vreqs[q].post},
         Lists(nv) \subseteq Lists(vacs[VacOf(q)]) \cup InHand(vreqs[q]),
         \A c \in blobs \ blobs' : c \in Lists(vacs[VacOf(q)]) \cup InHand(vreqs[q]),
         VacOf(q) \notin crossed =>
           /\ nv.images \subseteq blobs' /\ nv.images \cap nv.slot = {}
           /\ \A p \in Posts : /\ wp[p] = [status |-> "live", vac |-> {VacOf(q)}] /\ p \notin unrecorded
                               /\ vacs[VacOf(q)].post = p \/ (At(q, "publish", "write") /\ vreqs[q].post = p)
                               => nv.post = p
  PROVE  VacInv'
<1>1. PICK v \in Vacs :
        /\ v = VacOf(q) /\ vreqs[q].vac = {v} /\ vacs[v] \in VacRow /\ vreqs[q] \in VacReq
        /\ vacs[v].post # NoPost => PostIsOf(vacs[v].post, v)
        /\ vreqs[q].post # NoPost => PostIsOf(vreqs[q].post, v)
  BY HandlerIsOn
<1>2. /\ vacs' = [vacs EXCEPT ![v] = nv]
      /\ nv.post \in {NoPost, vacs[v].post, vreqs[q].post}
      /\ Lists(nv) \subseteq Lists(vacs[v]) \cup InHand(vreqs[q])
      /\ \A c \in blobs \ blobs' : c \in Lists(vacs[v]) \cup InHand(vreqs[q])
      /\ v \notin crossed =>
           /\ nv.images \subseteq blobs' /\ nv.images \cap nv.slot = {}
           /\ \A p \in Posts : /\ wp[p] = [status |-> "live", vac |-> {v}] /\ p \notin unrecorded
                               /\ vacs[v].post = p \/ (At(q, "publish", "write") /\ vreqs[q].post = p)
                               => nv.post = p
  BY <1>1
<1>3. vacs \in [Vacs -> VacRow] /\ wp \in [Posts -> PostRow] /\ vreqs \in [VacReqs -> VacReq]
  BY DEF VacInv, VacTypeOK
<1>4. vreqs' = [vreqs EXCEPT ![q] = NoReq] /\ vacs'[v] = nv
  BY <1>1, <1>2, <1>3 DEF Answer
<1>5. ASSUME v \notin crossed PROVE UncrossedIsSound(v)'
  <2>1. PostsNamed(v)'
    <3> SUFFICES ASSUME NEW p \in Posts, wp'[p] = [status |-> "live", vac |-> {v}], p \notin unrecorded'
                 PROVE  vacs'[v].post = p \/ \E r \in VacReqs : At(r, "publish", "write")' /\ vreqs'[r].post = p
      BY DEF PostsNamed
    <3>1. wp[p] = [status |-> "live", vac |-> {v}] /\ p \notin unrecorded
      OBVIOUS
    <3>2. vacs[v].post = p \/ \E r \in VacReqs : At(r, "publish", "write") /\ vreqs[r].post = p
      BY <1>1, <1>5, <3>1, HandlerKnows DEF PostsNamed
    <3>3. vacs[v].post = p \/ (At(q, "publish", "write") /\ vreqs[q].post = p) => nv.post = p
      BY <1>2, <1>5, <3>1
    <3>4. ASSUME NEW r \in VacReqs, r # q, At(r, "publish", "write"), vreqs[r].post = p
          PROVE  At(r, "publish", "write")' /\ vreqs'[r].post = p
      BY <1>3, <1>4, <3>4 DEF At
    <3> QED
      BY <1>4, <3>2, <3>3, <3>4
  <2>2. PicsStored(v)'
    BY <1>2, <1>4, <1>5 DEF PicsStored
  <2> QED
    BY <1>1, <1>4, <1>5, <2>1, <2>2, AloneStep
<1>6. \A c \in Pics : c \in Lists(nv) \cup InHand(NoReq) => Holds(v, c)
  BY <1>1, <1>2, NothingIsAsked DEF Holds
<1>7. \A c \in blobs \ blobs' : Holds(v, c)
  BY <1>1, <1>2 DEF Holds
<1>8. nv.post # NoPost => wp'[nv.post].vac = {v} /\ wp'[nv.post].status # "none"
  BY <1>1, <1>2 DEF PostIsOf
<1>9. Under(NoReq)
  BY DEF Under
<1> QED
  BY <1>1, <1>2, <1>3, <1>4, <1>5, <1>6, <1>7, <1>8, <1>9, NothingIsAsked, VacancyStep
LEMMA PublishedKeeps == ASSUME VacInv, NEW q \in VacReqs, WritePublished(q) PROVE VacInv'
<1>1. PICK v \in Vacs :
        /\ v = VacOf(q) /\ vreqs[q].vac = {v} /\ vacs[v] \in VacRow /\ vreqs[q] \in VacReq
  BY HandlerIsOn DEF WritePublished, At
<1> DEFINE nv == [vacs[v] EXCEPT !.status = "published", !.post = vreqs[q].post]
<1>2. /\ vreqs[q].op = "publish" /\ vreqs[q].step = "write" /\ Answer(q)
      /\ vacs' = [vacs EXCEPT ![v] = nv] /\ UNCHANGED <<wp, blobs, crossed, unrecorded>>
  BY <1>1 DEF WritePublished, At
<1>3. /\ nv \in VacRow /\ nv.status = "published" /\ nv.post = vreqs[q].post
      /\ nv.images = vacs[v].images /\ nv.slot = vacs[v].slot
  BY <1>1 DEF VacRow, VacReq
<1> HIDE DEF nv
<1>4. ASSUME v \notin crossed PROVE /\ vacs[v].images \subseteq blobs /\ vacs[v].images \cap vacs[v].slot = {}
                                    /\ vacs[v].post \in {NoPost, vreqs[q].post}
  BY <1>1, <1>2, <1>4, HandlerKnows DEF PicsStored, Snapshot
<1>5. \A p \in Posts : p # NoPost
  BY DEF Posts, NoPost
<1> QED
  BY <1>1, <1>2, <1>3, <1>4, <1>5, RowWritten DEF Lists

LEMMA UnpublishedKeeps == ASSUME VacInv, NEW q \in VacReqs, WriteUnpublished(q) PROVE VacInv'
<1>1. PICK v \in Vacs :
        /\ v = VacOf(q) /\ vreqs[q].vac = {v} /\ vacs[v] \in VacRow /\ vreqs[q] \in VacReq
  BY HandlerIsOn DEF WriteUnpublished, At
<1> DEFINE nv == [vacs[v] EXCEPT !.status = "draft", !.post = NoPost]
<1>2. /\ vreqs[q].op = "unpublish" /\ vreqs[q].step = "write" /\ Answer(q)
      /\ vacs' = [vacs EXCEPT ![v] = nv] /\ UNCHANGED <<wp, blobs, crossed, unrecorded>>
  BY <1>1 DEF WriteUnpublished, At
<1>3. /\ nv \in VacRow /\ nv.status = "draft" /\ nv.post = NoPost
      /\ nv.images = vacs[v].images /\ nv.slot = vacs[v].slot
  BY <1>1 DEF VacRow
<1> HIDE DEF nv
<1>4. ASSUME v \notin crossed PROVE /\ vacs[v].images \subseteq blobs /\ vacs[v].images \cap vacs[v].slot = {}
                                    /\ TakenDown(v)
  BY <1>1, <1>2, <1>4, HandlerKnows DEF PicsStored, Snapshot
<1> QED
  BY <1>1, <1>2, <1>3, <1>4, RowWritten DEF Lists, TakenDown

LEMMA EraseKeeps == ASSUME VacInv, NEW q \in VacReqs, EraseRow(q) PROVE VacInv'
<1>1. PICK v \in Vacs :
        /\ v = VacOf(q) /\ vreqs[q].vac = {v} /\ vacs[v] \in VacRow /\ vreqs[q] \in VacReq
  BY HandlerIsOn DEF EraseRow, At
<1> DEFINE nv == [NoVac EXCEPT !.status = "deleted"]
<1>2. /\ vreqs[q].op = "delete" /\ vreqs[q].step = "erase" /\ Answer(q)
      /\ vacs' = [vacs EXCEPT ![v] = nv] /\ UNCHANGED <<wp, crossed, unrecorded>>
      /\ \A c \in blobs \ blobs' : c \in Lists(vreqs[q].seen)
  BY <1>1 DEF EraseRow, At
<1>3. /\ nv \in VacRow /\ nv.status = "deleted" /\ nv.post = NoPost /\ nv.images = {} /\ nv.slot = {}
  BY DEF VacRow, NoVac
<1> HIDE DEF nv
<1>4. ASSUME v \notin crossed PROVE TakenDown(v)
  BY <1>1, <1>2, <1>4, HandlerKnows DEF Snapshot
<1> QED
  BY <1>1, <1>2, <1>3, <1>4, RowWritten DEF Lists, TakenDown, InHand

LEMMA AppendKeeps == ASSUME VacInv, NEW q \in VacReqs, AppendImage(q) PROVE VacInv'
<1>1. PICK v \in Vacs :
        /\ v = VacOf(q) /\ vreqs[q].vac = {v} /\ vacs[v] \in VacRow /\ vreqs[q] \in VacReq /\ vacs[v].status # "none"
  BY HandlerIsOn DEF AppendImage, At
<1> DEFINE images == vacs[v].images \cup vreqs[q].pic
           nv == [vacs[v] EXCEPT !.images = images]
<1>2. /\ vreqs[q].op = "upload" /\ vreqs[q].step = "write" /\ Answer(q)
      /\ vacs' = [vacs EXCEPT ![v] = nv] /\ UNCHANGED <<wp, blobs, crossed, unrecorded>>
  BY <1>1 DEF AppendImage, At
<1>3. images \in SUBSET Pics
  BY <1>1 DEF VacRow, VacReq
<1>4. /\ nv \in VacRow /\ nv.status = vacs[v].status /\ nv.post = vacs[v].post
      /\ nv.images = images /\ nv.slot = vacs[v].slot
  BY <1>1, <1>3 DEF VacRow
<1> HIDE DEF nv
<1>5. ASSUME v \notin crossed PROVE images \subseteq blobs /\ images \cap vacs[v].slot = {}
  BY <1>1, <1>2, <1>5, HandlerKnows DEF PicsStored, Snapshot, Lists
<1>6. images \subseteq Lists(vacs[v]) \cup InHand(vreqs[q])
  BY DEF Lists, InHand
<1> QED
  BY <1>1, <1>2, <1>4, <1>5, <1>6, RowWritten DEF Lists, At

LEMMA DropKeeps == ASSUME VacInv, NEW q \in VacReqs, DropImage(q) PROVE VacInv'
<1>1. PICK v \in Vacs :
        /\ v = VacOf(q) /\ vreqs[q].vac = {v} /\ vacs[v] \in VacRow /\ vreqs[q] \in VacReq /\ vacs[v].status # "none"
  BY HandlerIsOn DEF DropImage, At
<1> DEFINE images == vreqs[q].seen.images \ vreqs[q].pic
           nv == [vacs[v] EXCEPT !.images = images]
<1>2. /\ vreqs[q].op = "dropImage" /\ vreqs[q].step = "write" /\ Answer(q)
      /\ vacs' = [vacs EXCEPT ![v] = nv] /\ UNCHANGED <<wp, crossed, unrecorded>>
      /\ \A c \in blobs \ blobs' : c \in vreqs[q].pic
  BY <1>1 DEF DropImage, RowFirst, At
<1>3. images \in SUBSET Pics
  BY <1>1 DEF VacRow, VacReq
<1>4. /\ nv \in VacRow /\ nv.status = vacs[v].status /\ nv.post = vacs[v].post
      /\ nv.images = images /\ nv.slot = vacs[v].slot
  BY <1>1, <1>3 DEF VacRow
<1> HIDE DEF nv
<1>5. ASSUME v \notin crossed PROVE images \subseteq blobs' /\ images \cap vacs[v].slot = {}
  <2>1. vreqs[q].seen = vacs[v]
    BY <1>1, <1>2, <1>5, HandlerKnows DEF Snapshot
  <2>2. vacs[v].images \subseteq blobs /\ vacs[v].images \cap vacs[v].slot = {}
    BY <1>1, <1>5, HandlerKnows DEF PicsStored
  <2> QED
    BY <1>2, <2>1, <2>2
<1>6. images \subseteq InHand(vreqs[q]) /\ vreqs[q].pic \subseteq InHand(vreqs[q])
  BY DEF Lists, InHand
<1> HIDE DEF images
<1> QED
  BY <1>1, <1>2, <1>4, <1>5, <1>6, RowWritten DEF Lists, At

LEMMA ReorderKeeps == ASSUME VacInv, NEW q \in VacReqs, Reorder(q) PROVE VacInv'
<1>1. PICK v \in Vacs :
        /\ v = VacOf(q) /\ vreqs[q].vac = {v} /\ vacs[v] \in VacRow /\ vreqs[q] \in VacReq /\ vacs[v].status # "none"
  BY HandlerIsOn DEF Reorder, At
<1> DEFINE images == vreqs[q].seen.images
           nv == [vacs[v] EXCEPT !.images = images]
<1>2. /\ vreqs[q].op = "reorder" /\ vreqs[q].step = "write" /\ Answer(q)
      /\ vacs' = [vacs EXCEPT ![v] = nv] /\ UNCHANGED <<wp, blobs, crossed, unrecorded>>
  BY <1>1 DEF Reorder, At
<1>3. images \in SUBSET Pics
  BY <1>1 DEF VacRow, VacReq
<1>4. /\ nv \in VacRow /\ nv.status = vacs[v].status /\ nv.post = vacs[v].post
      /\ nv.images = images /\ nv.slot = vacs[v].slot
  BY <1>1, <1>3 DEF VacRow
<1> HIDE DEF nv
<1>5. ASSUME v \notin crossed PROVE images \subseteq blobs /\ images \cap vacs[v].slot = {}
  BY <1>1, <1>2, <1>5, HandlerKnows DEF PicsStored, Snapshot
<1>6. images \subseteq InHand(vreqs[q])
  BY DEF Lists, InHand
<1> HIDE DEF images
<1> QED
  BY <1>1, <1>2, <1>4, <1>5, <1>6, RowWritten DEF Lists, At

LEMMA SlotKeeps == ASSUME VacInv, NEW q \in VacReqs, WriteSlot(q) PROVE VacInv'
<1>1. PICK v \in Vacs :
        /\ v = VacOf(q) /\ vreqs[q].vac = {v} /\ vacs[v] \in VacRow /\ vreqs[q] \in VacReq /\ vacs[v].status # "none"
  BY HandlerIsOn DEF WriteSlot, At
<1> DEFINE slot == IF vreqs[q].op = "setSlot" THEN vreqs[q].pic ELSE {}
           nv == [vacs[v] EXCEPT !.slot = slot]
<1>2. /\ vreqs[q].op \in {"setSlot", "clearSlot"} /\ vreqs[q].step = "write" /\ Answer(q)
      /\ vacs' = [vacs EXCEPT ![v] = nv] /\ UNCHANGED <<wp, blobs, crossed, unrecorded>>
  BY <1>1 DEF WriteSlot, At
<1>3. slot \in SUBSET Pics
  BY <1>1 DEF VacReq
<1>4. /\ nv \in VacRow /\ nv.status = vacs[v].status /\ nv.post = vacs[v].post
      /\ nv.images = vacs[v].images /\ nv.slot = slot
  BY <1>1, <1>3 DEF VacRow
<1> HIDE DEF nv
<1>5. ASSUME v \notin crossed PROVE vacs[v].images \subseteq blobs /\ vacs[v].images \cap slot = {}
  BY <1>1, <1>2, <1>5, HandlerKnows DEF PicsStored, Snapshot, Lists
<1>6. slot \subseteq InHand(vreqs[q])
  BY DEF InHand
<1> HIDE DEF slot
<1> QED
  BY <1>1, <1>2, <1>4, <1>5, <1>6, RowWritten DEF Lists, At
\* Whoever has a post of the vacancy to write down is on it.
LEMMA WriterIsOn ==
  ASSUME VacInv, NEW r \in VacReqs, NEW v \in Vacs, At(r, "publish", "write"), vreqs[r].post \in Posts,
         wp[vreqs[r].post].vac = {v}
  PROVE  vreqs[r].vac = {v}
<1>1. vreqs[r].post # NoPost /\ vreqs[r].step # "none"
  BY DEF Posts, NoPost, At
<1>2. PICK u \in Vacs : vreqs[r].vac = {u} /\ PostIsOf(vreqs[r].post, u)
  BY <1>1, HandlerIsOn
<1> QED
  BY <1>2 DEF PostIsOf

\* A handler that goes on to its next step.
LEMMA MovesOn ==
  ASSUME VacInv, NEW q \in VacReqs, NEW v \in Vacs, vreqs[q].vac = {v}, vreqs[q].step # "none", NEW nr \in VacReq,
         nr.op = vreqs[q].op, nr.vac = {v}, InHand(nr) = InHand(vreqs[q]), <<nr.op, nr.step>> \in Stages,
         vreqs' = [vreqs EXCEPT ![q] = nr], UNCHANGED <<vacs, crossed, unrecorded>>, wp' \in [Posts -> PostRow],
         \A p \in Posts : \/ wp'[p] = wp[p]
                          \/ wp'[p].vac = {v} /\ wp'[p].status # "none" /\ (wp[p].vac = {v} \/ wp[p].status = "none"),
         nr.post # NoPost => wp'[nr.post].vac = {v} /\ wp'[nr.post].status # "none",
         \A c \in blobs \ blobs' : c \in InHand(vreqs[q]),
         v \notin crossed => Snapshot(vreqs[q], v)' /\ PostsNamed(v)' /\ PicsStored(v)'
  PROVE  VacInv'
<1>1. /\ vacs[v] \in VacRow /\ vacs[v].status # "none" /\ vacs' = [vacs EXCEPT ![v] = vacs[v]]
      /\ vacs[v].post # NoPost => PostIsOf(vacs[v].post, v)
  BY DEF VacInv, VacTypeOK, PostsOfOne
<1>2. vacs[v].post # NoPost => wp'[vacs[v].post].vac = {v} /\ wp'[vacs[v].post].status # "none"
  <2> SUFFICES ASSUME vacs[v].post # NoPost
               PROVE  wp'[vacs[v].post].vac = {v} /\ wp'[vacs[v].post].status # "none"
    OBVIOUS
  <2>1. vacs[v].post \in Posts
    BY <1>1 DEF VacRow
  <2> QED
    BY <1>1, <2>1 DEF PostIsOf
<1>3. v \in Vacs \ crossed' => UncrossedIsSound(v)'
  BY AloneStep
<1>4. Under(nr)
  BY DEF Under
<1>5. /\ \A c \in Pics : c \in Lists(vacs[v]) \cup InHand(nr) => Holds(v, c)
      /\ \A c \in blobs \ blobs' : Holds(v, c)
  BY DEF Holds
<1> QED
  BY <1>1, <1>2, <1>3, <1>4, <1>5, VacancyStep

LEMMA CallUnpublishKeeps == ASSUME VacInv, NEW q \in VacReqs, CallUnpublish(q) PROVE VacInv'
<1>1. PICK v \in Vacs :
        /\ vreqs[q].vac = {v} /\ vacs[v] \in VacRow /\ vreqs[q] \in VacReq
        /\ <<vreqs[q].op, vreqs[q].step>> \in Stages
        /\ vreqs[q].post # NoPost => PostIsOf(vreqs[q].post, v)
  BY HandlerIsOn DEF CallUnpublish
<1> DEFINE s == NextStep(q)
           nr == [vreqs[q] EXCEPT !.step = s]
<1>2. /\ vreqs[q].step = "unpublish" /\ vreqs' = [vreqs EXCEPT ![q] = nr]
      /\ wp' = (IF vreqs[q].post = NoPost THEN wp ELSE [wp EXCEPT ![vreqs[q].post].status = "draft"])
      /\ UNCHANGED <<vacs, blobs, crossed, unrecorded>>
  BY DEF CallUnpublish, GoTo
<1>3. vreqs[q].op \in {"unpublish", "delete"}
  BY <1>1, <1>2 DEF Stages
<1>4. (vreqs[q].op = "unpublish" /\ s = "write") \/ (vreqs[q].op = "delete" /\ s = "erase")
  BY <1>3 DEF NextStep
<1> HIDE DEF s
<1>5. /\ nr \in VacReq /\ nr.op = vreqs[q].op /\ nr.step = s /\ nr.vac = {v} /\ nr.post = vreqs[q].post
      /\ nr.pic = vreqs[q].pic /\ nr.seen = vreqs[q].seen
  BY <1>1, <1>4 DEF VacReq
<1> HIDE DEF nr
<1>6. wp \in [Posts -> PostRow] /\ vreqs \in [VacReqs -> VacReq]
  BY DEF VacInv, VacTypeOK
<1>7. /\ wp' \in [Posts -> PostRow]
      /\ \A p \in Posts : /\ wp'[p].vac = wp[p].vac
                          /\ p # vreqs[q].post => wp'[p] = wp[p]
                          /\ p = vreqs[q].post => wp'[p].status = "draft"
  <2>1. CASE vreqs[q].post = NoPost
    BY <1>2, <1>6, <2>1 DEF Posts, NoPost
  <2>2. CASE vreqs[q].post # NoPost
    <3>1. vreqs[q].post \in Posts
      BY <1>1, <2>2 DEF VacReq
    <3> DEFINE np == [wp[vreqs[q].post] EXCEPT !.status = "draft"]
    <3>2. np \in PostRow /\ np.vac = wp[vreqs[q].post].vac /\ np.status = "draft"
      BY <1>6, <3>1 DEF PostRow
    <3>3. wp' = [wp EXCEPT ![vreqs[q].post] = np]
      BY <1>2, <2>2
    <3> HIDE DEF np
    <3> QED
      BY <1>6, <3>1, <3>2, <3>3
  <2> QED
    BY <2>1, <2>2
<1>8. ASSUME v \notin crossed PROVE Snapshot(vreqs[q], v)' /\ PostsNamed(v)' /\ PicsStored(v)'
  <2>1. Snapshot(vreqs[q], v) /\ PostsNamed(v) /\ PicsStored(v) /\ \A r \in VacReqs : vreqs[r].vac = {v} => r = q
    BY <1>1, <1>8, HandlerKnows
  <2>2. vacs[v].post = vreqs[q].post
    BY <1>2, <1>3, <2>1 DEF Snapshot, OnSite
  <2>3. TakenDown(v)'
    <3> SUFFICES ASSUME NEW p \in Posts, wp'[p] = [status |-> "live", vac |-> {v}], p \notin unrecorded
                 PROVE  FALSE
      BY <1>2 DEF TakenDown
    <3>1. p # vreqs[q].post /\ wp[p] = [status |-> "live", vac |-> {v}]
      BY <1>7
    <3>2. PICK r \in VacReqs : At(r, "publish", "write") /\ vreqs[r].post = p
      BY <2>1, <2>2, <3>1 DEF PostsNamed
    <3>3. vreqs[r].vac = {v}
      BY <3>1, <3>2, WriterIsOn
    <3> QED
      BY <1>2, <2>1, <3>2, <3>3 DEF At
  <2>4. vreqs'[q] = nr
    BY <1>2, <1>6
  <2>5. Snapshot(vreqs[q], v)'
    BY <1>2, <1>3, <1>4, <1>5, <2>1, <2>2, <2>3, <2>4 DEF Snapshot
  <2>6. PostsNamed(v)'
    BY <2>3 DEF TakenDown, PostsNamed
  <2>7. PicsStored(v)'
    BY <1>2, <2>1 DEF PicsStored
  <2> QED
    BY <2>5, <2>6, <2>7
<1>9. <<nr.op, nr.step>> \in Stages /\ InHand(nr) = InHand(vreqs[q])
  BY <1>4, <1>5 DEF Stages, InHand
<1>10. \A p \in Posts : \/ wp'[p] = wp[p]
                        \/ wp'[p].vac = {v} /\ wp'[p].status # "none" /\ wp[p].vac = {v}
  BY <1>1, <1>7 DEF PostIsOf, Posts, NoPost
<1>11. nr.post # NoPost => wp'[nr.post].vac = {v} /\ wp'[nr.post].status # "none"
  <2> SUFFICES ASSUME nr.post # NoPost PROVE wp'[nr.post].vac = {v} /\ wp'[nr.post].status # "none"
    OBVIOUS
  <2>1. nr.post \in Posts
    BY <1>1, <1>5 DEF VacReq
  <2> QED
    BY <1>1, <1>5, <1>7, <2>1 DEF PostIsOf
<1> QED
  BY <1>1, <1>2, <1>5, <1>7, <1>8, <1>9, <1>10, <1>11, MovesOn

LEMMA UploadKeeps == ASSUME VacInv, NEW q \in VacReqs, UploadBlob(q) PROVE VacInv'
<1>1. PICK v \in Vacs :
        /\ vreqs[q].vac = {v} /\ vreqs[q] \in VacReq
        /\ vreqs[q].post # NoPost => PostIsOf(vreqs[q].post, v)
  BY HandlerIsOn DEF UploadBlob, At
<1> DEFINE nr == [vreqs[q] EXCEPT !.step = "write"]
<1>2. /\ vreqs[q].step = "callOut" /\ vreqs[q].op \in {"upload", "setSlot"} /\ vreqs' = [vreqs EXCEPT ![q] = nr]
      /\ blobs' = blobs \cup vreqs[q].pic /\ UNCHANGED <<vacs, wp, crossed, unrecorded>>
  BY DEF UploadBlob, GoTo, At
<1>3. /\ nr \in VacReq /\ nr.op = vreqs[q].op /\ nr.step = "write" /\ nr.vac = {v} /\ nr.post = vreqs[q].post
      /\ nr.pic = vreqs[q].pic /\ nr.seen = vreqs[q].seen
  BY <1>1 DEF VacReq
<1> HIDE DEF nr
<1>4. wp \in [Posts -> PostRow] /\ vreqs \in [VacReqs -> VacReq] /\ vreqs'[q] = nr
  BY <1>2 DEF VacInv, VacTypeOK
<1>5. ASSUME v \notin crossed PROVE Snapshot(vreqs[q], v)' /\ PostsNamed(v)' /\ PicsStored(v)'
  <2>1. Snapshot(vreqs[q], v) /\ PostsNamed(v) /\ PicsStored(v)
    BY <1>1, <1>5, HandlerKnows
  <2>2. Snapshot(vreqs[q], v)'
    BY <1>2, <1>3, <1>4, <2>1 DEF Snapshot
  <2>3. PicsStored(v)'
    BY <1>2, <2>1 DEF PicsStored
  <2>4. \A r \in VacReqs : At(r, "publish", "write") => vreqs'[r] = vreqs[r]
    BY <1>2, <1>4 DEF At
  <2>5. PostsNamed(v)'
    BY <1>2, <2>1, <2>4 DEF PostsNamed, At
  <2> QED
    BY <2>2, <2>3, <2>5
<1>6. <<nr.op, nr.step>> \in Stages /\ InHand(nr) = InHand(vreqs[q])
  BY <1>2, <1>3 DEF Stages, InHand
<1>7. nr.post # NoPost => wp'[nr.post].vac = {v} /\ wp'[nr.post].status # "none"
  BY <1>1, <1>2, <1>3 DEF PostIsOf
<1> QED
  BY <1>1, <1>2, <1>3, <1>4, <1>5, <1>6, <1>7, MovesOn

LEMMA DropSlotKeeps == ASSUME VacInv, NEW q \in VacReqs, DropSlotBlob(q) PROVE VacInv'
<1>1. PICK v \in Vacs :
        /\ vreqs[q].vac = {v} /\ vreqs[q] \in VacReq /\ <<vreqs[q].op, vreqs[q].step>> \in Stages
        /\ vreqs[q].post # NoPost => PostIsOf(vreqs[q].post, v)
  BY HandlerIsOn DEF DropSlotBlob
<1> DEFINE s == IF vreqs[q].op = "setSlot" THEN "callOut" ELSE "write"
           nr == [vreqs[q] EXCEPT !.step = s]
<1>2. /\ vreqs[q].step = "dropBlob" /\ vreqs' = [vreqs EXCEPT ![q] = nr]
      /\ blobs' \in {blobs, blobs \ vreqs[q].seen.slot} /\ UNCHANGED <<vacs, wp, crossed, unrecorded>>
  BY DEF DropSlotBlob, GoTo
<1>3. vreqs[q].op \in {"setSlot", "clearSlot"}
  BY <1>1, <1>2 DEF Stages
<1>4. (vreqs[q].op = "setSlot" /\ s = "callOut") \/ (vreqs[q].op = "clearSlot" /\ s = "write")
  BY <1>3
<1> HIDE DEF s
<1>5. /\ nr \in VacReq /\ nr.op = vreqs[q].op /\ nr.step = s /\ nr.vac = {v} /\ nr.post = vreqs[q].post
      /\ nr.pic = vreqs[q].pic /\ nr.seen = vreqs[q].seen
  BY <1>1, <1>4 DEF VacReq
<1> HIDE DEF nr
<1>6. wp \in [Posts -> PostRow] /\ vreqs \in [VacReqs -> VacReq] /\ vreqs'[q] = nr
  BY <1>2 DEF VacInv, VacTypeOK
<1>7. ASSUME v \notin crossed PROVE Snapshot(vreqs[q], v)' /\ PostsNamed(v)' /\ PicsStored(v)'
  <2>1. Snapshot(vreqs[q], v) /\ PostsNamed(v) /\ PicsStored(v)
    BY <1>1, <1>7, HandlerKnows
  <2>2. vreqs[q].seen = vacs[v]
    BY <1>3, <2>1 DEF Snapshot
  <2>3. Snapshot(vreqs[q], v)'
    BY <1>2, <1>4, <1>5, <1>6, <2>1 DEF Snapshot, OnSite
  <2>4. PicsStored(v)'
    BY <1>2, <2>1, <2>2 DEF PicsStored
  <2>5. \A r \in VacReqs : At(r, "publish", "write") => vreqs'[r] = vreqs[r]
    BY <1>2, <1>6 DEF At
  <2>6. PostsNamed(v)'
    BY <1>2, <2>1, <2>5 DEF PostsNamed, At
  <2> QED
    BY <2>3, <2>4, <2>6
<1>8. /\ <<nr.op, nr.step>> \in Stages /\ InHand(nr) = InHand(vreqs[q])
      /\ \A c \in blobs \ blobs' : c \in InHand(vreqs[q])
  BY <1>2, <1>4, <1>5 DEF Stages, InHand, Lists
<1>9. nr.post # NoPost => wp'[nr.post].vac = {v} /\ wp'[nr.post].status # "none"
  BY <1>1, <1>2, <1>5 DEF PostIsOf
<1> QED
  BY <1>1, <1>2, <1>5, <1>6, <1>7, <1>8, <1>9, MovesOn
LEMMA CallPublishKeeps == ASSUME VacInv, NEW q \in VacReqs, CallPublish(q) PROVE VacInv'
<1>1. PICK v \in Vacs :
        /\ vreqs[q].vac = {v} /\ vreqs[q] \in VacReq /\ vacs[v] \in VacRow /\ vacs[v].status # "none"
        /\ vreqs[q].post # NoPost => PostIsOf(vreqs[q].post, v)
        /\ vacs[v].post # NoPost => PostIsOf(vacs[v].post, v)
  BY HandlerIsOn DEF CallPublish, At
<1>2. PICK p \in Posts :
        /\ At(q, "publish", "callOut")
        /\ IF vreqs[q].post # NoPost THEN p = vreqs[q].post ELSE wp[p].status = "none"
        /\ wp' = [wp EXCEPT ![p] = [status |-> "live", vac |-> vreqs[q].vac]]
        /\ \/ vreqs' = [vreqs EXCEPT ![q].step = "write", ![q].post = p] /\ UNCHANGED unrecorded
           \/ Answer(q) /\ unrecorded' = unrecorded \cup {p}
        /\ UNCHANGED <<vacs, blobs, crossed>>
  BY DEF CallPublish
<1> DEFINE now == [status |-> "live", vac |-> {v}]
<1>3. /\ vacs \in [Vacs -> VacRow] /\ wp \in [Posts -> PostRow] /\ vreqs \in [VacReqs -> VacReq]
      /\ now \in PostRow /\ now.vac = {v} /\ now.status = "live" /\ wp' = [wp EXCEPT ![p] = now]
  BY <1>1, <1>2 DEF VacInv, VacTypeOK, PostRow
<1>4. wp' \in [Posts -> PostRow] /\ wp'[p] = now /\ \A o \in Posts \ {p} : wp'[o] = wp[o]
  BY <1>3
<1> HIDE DEF now
<1>5. p # NoPost /\ vreqs[q].op = "publish" /\ vreqs[q].step = "callOut"
  BY <1>2 DEF Posts, NoPost, At
<1>6. \A o \in Posts : \/ wp'[o] = wp[o]
                       \/ wp'[o].vac = {v} /\ wp'[o].status # "none" /\ (wp[o].vac = {v} \/ wp[o].status = "none")
  BY <1>1, <1>2, <1>3, <1>4 DEF PostIsOf
<1>7. ASSUME v \notin crossed
      PROVE  /\ vacs[v].post \in {NoPost, p} /\ PicsStored(v)'
             /\ \A o \in Posts \ {p} : wp'[o] = [status |-> "live", vac |-> {v}] /\ o \notin unrecorded' =>
                   \/ vacs'[v].post = o
                   \/ \E r \in VacReqs \ {q} : At(r, "publish", "write") /\ vreqs[r].post = o
  <2>1. Snapshot(vreqs[q], v) /\ PostsNamed(v) /\ PicsStored(v)
    BY <1>1, <1>7, HandlerKnows
  <2>2. vacs[v].post \in {NoPost, p}
    BY <1>2, <1>5, <2>1 DEF Snapshot, OnSite
  <2>3. PicsStored(v)'
    BY <1>2, <2>1 DEF PicsStored
  <2>4. unrecorded \subseteq unrecorded'
    BY <1>2
  <2>5. ASSUME NEW o \in Posts \ {p}, wp'[o] = [status |-> "live", vac |-> {v}], o \notin unrecorded'
        PROVE  \/ vacs'[v].post = o
               \/ \E r \in VacReqs \ {q} : At(r, "publish", "write") /\ vreqs[r].post = o
    <3>1. vacs[v].post = o \/ \E r \in VacReqs : At(r, "publish", "write") /\ vreqs[r].post = o
      BY <1>4, <2>1, <2>4, <2>5 DEF PostsNamed
    <3>2. ~At(q, "publish", "write")
      BY <1>5 DEF At
    <3> QED
      BY <1>2, <3>1, <3>2
  <2> QED
    BY <2>2, <2>3, <2>5
<1>8. CASE vreqs' = [vreqs EXCEPT ![q].step = "write", ![q].post = p] /\ UNCHANGED unrecorded
  <2> DEFINE nr == [vreqs[q] EXCEPT !.step = "write", !.post = p]
  <2>1. /\ nr \in VacReq /\ nr.op = "publish" /\ nr.step = "write" /\ nr.vac = {v} /\ nr.post = p
        /\ nr.pic = vreqs[q].pic /\ nr.seen = vreqs[q].seen /\ vreqs' = [vreqs EXCEPT ![q] = nr]
    BY <1>1, <1>5, <1>8 DEF VacReq
  <2> HIDE DEF nr
  <2>2. vreqs'[q] = nr /\ \A r \in VacReqs \ {q} : vreqs'[r] = vreqs[r]
    BY <1>3, <2>1
  <2>3. ASSUME v \notin crossed PROVE Snapshot(vreqs[q], v)' /\ PostsNamed(v)' /\ PicsStored(v)'
    <3>1. Snapshot(vreqs[q], v)'
      BY <1>2, <1>7, <2>1, <2>2, <2>3 DEF Snapshot, OnSite
    <3>2. PostsNamed(v)'
      <4> SUFFICES ASSUME NEW o \in Posts, wp'[o] = [status |-> "live", vac |-> {v}], o \notin unrecorded'
                   PROVE  vacs'[v].post = o \/ \E r \in VacReqs : At(r, "publish", "write")' /\ vreqs'[r].post = o
        BY DEF PostsNamed
      <4>1. CASE o = p
        BY <2>1, <2>2, <4>1 DEF At
      <4>2. CASE o # p
        <5>1. ASSUME NEW r \in VacReqs \ {q}, At(r, "publish", "write"), vreqs[r].post = o
              PROVE  At(r, "publish", "write")' /\ vreqs'[r].post = o
          BY <2>2, <5>1 DEF At
        <5> QED
          BY <1>7, <2>3, <4>2, <5>1
      <4> QED
        BY <4>1, <4>2
    <3> QED
      BY <1>7, <2>3, <3>1, <3>2
  <2>4. <<nr.op, nr.step>> \in Stages /\ InHand(nr) = InHand(vreqs[q])
    BY <2>1 DEF Stages, InHand
  <2>5. wp'[nr.post].vac = {v} /\ wp'[nr.post].status # "none"
    BY <1>3, <1>4, <2>1
  <2>6. nr.op = vreqs[q].op /\ vreqs[q].step # "none" /\ nr.vac = {v}
    BY <1>5, <2>1
  <2>7. \A c \in blobs \ blobs' : c \in InHand(vreqs[q])
    BY <1>2
  <2>8. UNCHANGED <<vacs, crossed, unrecorded>>
    BY <1>2, <1>8
  <2> QED
    BY <1>1, <1>4, <1>6, <2>1, <2>3, <2>4, <2>5, <2>6, <2>7, <2>8, MovesOn
<1>9. CASE Answer(q) /\ unrecorded' = unrecorded \cup {p}
  <2>1. vreqs' = [vreqs EXCEPT ![q] = NoReq] /\ vacs' = [vacs EXCEPT ![v] = vacs[v]]
    BY <1>2, <1>3, <1>9 DEF Answer
  <2>2. \A r \in VacReqs \ {q} : vreqs'[r] = vreqs[r]
    BY <1>3, <2>1
  <2>3. ASSUME v \notin crossed PROVE UncrossedIsSound(v)'
    <3>1. PostsNamed(v)'
      <4> SUFFICES ASSUME NEW o \in Posts, wp'[o] = [status |-> "live", vac |-> {v}], o \notin unrecorded'
                   PROVE  vacs'[v].post = o \/ \E r \in VacReqs : At(r, "publish", "write")' /\ vreqs'[r].post = o
        BY DEF PostsNamed
      <4>1. o # p
        BY <1>9
      <4>2. ASSUME NEW r \in VacReqs \ {q}, At(r, "publish", "write"), vreqs[r].post = o
            PROVE  At(r, "publish", "write")' /\ vreqs'[r].post = o
        BY <2>2, <4>2 DEF At
      <4> QED
        BY <1>7, <2>3, <4>1, <4>2
    <3> QED
      BY <1>1, <1>7, <2>1, <2>3, <3>1, AloneStep
  <2>4. \A c \in Pics : c \in Lists(vacs[v]) \cup InHand(NoReq) => Holds(v, c)
    BY NothingIsAsked DEF Holds
  <2>5. vacs[v].post # NoPost => wp'[vacs[v].post].vac = {v} /\ wp'[vacs[v].post].status # "none"
    <3> SUFFICES ASSUME vacs[v].post # NoPost
                 PROVE  wp'[vacs[v].post].vac = {v} /\ wp'[vacs[v].post].status # "none"
      OBVIOUS
    <3>1. vacs[v].post \in Posts
      BY <1>1 DEF VacRow
    <3> QED
      BY <1>1, <1>6, <3>1 DEF PostIsOf
  <2>6. Under(NoReq)
    BY DEF Under
  <2> QED
    BY <1>1, <1>2, <1>4, <1>6, <1>9, <2>1, <2>3, <2>4, <2>5, <2>6, NothingIsAsked, VacancyStep
<1> QED
  BY <1>2, <1>8, <1>9

LEMMA StartKeeps ==
  ASSUME VacInv, NEW q \in VacReqs, NEW v \in Vacs, NEW pic \in Pics,
         NEW op \in {"publish", "upload", "unpublish", "delete", "dropImage", "reorder", "setSlot", "clearSlot"},
         Start(q, v, op, pic)
  PROVE  VacInv'
<1> DEFINE step == FirstStep(op)
           seen == IF op \in {"publish", "unpublish", "upload"} THEN NoVac ELSE vacs[v]
           post == IF op \in OnSite THEN vacs[v].post ELSE NoPost
           mine == IF op \in OnSite \cup {"reorder"} THEN {} ELSE {pic}
           nr == [op |-> op, step |-> step, vac |-> {v}, seen |-> seen, post |-> post, pic |-> mine]
<1>1. /\ vreqs[q] = NoReq /\ HasRow(v)
      /\ op \in {"upload", "setSlot"} => Free(pic)
      /\ op = "dropImage" => pic \in vacs[v].images
      /\ op = "clearSlot" => vacs[v].slot = {pic}
      /\ vreqs' = [vreqs EXCEPT ![q] = nr]
      /\ crossed' = (IF \E r \in VacReqs \ {q} : vreqs[r].vac = {v} THEN crossed \cup {v} ELSE crossed)
      /\ UNCHANGED <<vacs, wp, blobs, unrecorded>>
  BY DEF Start
<1>2. /\ vacs \in [Vacs -> VacRow] /\ wp \in [Posts -> PostRow] /\ vreqs \in [VacReqs -> VacReq]
      /\ vacs[v] \in VacRow /\ vacs' = [vacs EXCEPT ![v] = vacs[v]] /\ vacs[v].status # "none"
      /\ vacs[v].post # NoPost => PostIsOf(vacs[v].post, v)
  BY <1>1 DEF VacInv, VacTypeOK, PostsOfOne, HasRow
<1>3. <<op, step>> \in Stages /\ step \in {"callOut", "unpublish", "write", "dropBlob"}
  BY DEF FirstStep, Stages
<1>5. seen \in VacRow /\ post \in Posts \cup {NoPost} /\ mine \in SUBSET Pics
  BY <1>2, NothingIsAsked DEF VacRow
<1>6. /\ op \notin {"publish", "unpublish", "upload"} => seen = vacs[v]
      /\ op \in OnSite => post = vacs[v].post
      /\ post # NoPost => post = vacs[v].post
      /\ op \in {"upload", "setSlot"} => mine = {pic}
      /\ seen \in {NoVac, vacs[v]}
      /\ mine = {} \/ (mine = {pic} /\ op \in {"upload", "dropImage", "setSlot", "clearSlot"})
  BY DEF OnSite
<1> HIDE DEF step, seen, post, mine
<1>7. /\ nr \in VacReq /\ nr.op = op /\ nr.step = step /\ nr.vac = {v} /\ nr.seen = seen /\ nr.post = post /\ nr.pic = mine
  BY <1>3, <1>5 DEF VacReq
<1> HIDE DEF nr
<1>8. Under(nr)
  BY <1>3, <1>7 DEF Under
<1>9. \A c \in Pics : c \in Lists(vacs[v]) \cup InHand(nr) => Holds(v, c) \/ Free(c)
  <2>1. \A c \in Lists(vacs[v]) : Holds(v, c)
    BY DEF Holds
  <2>2. \A c \in Lists(seen) : c \in Lists(vacs[v])
    BY <1>6, NothingIsAsked
  <2>3. \A c \in mine : Free(c) \/ c \in Lists(vacs[v])
    BY <1>1, <1>6 DEF Lists
  <2> QED
    BY <1>7, <2>1, <2>2, <2>3 DEF InHand
<1>10. ASSUME v \notin crossed' PROVE UncrossedIsSound(v)'
  <2>1. v \notin crossed /\ \A r \in VacReqs : vreqs[r].vac = {v} => r = q
    BY <1>1, <1>10
  <2>2. \A r \in VacReqs : vreqs'[r] = IF r = q THEN nr ELSE vreqs[r]
    BY <1>1, <1>2
  <2>3. PostsNamed(v) /\ PicsStored(v)
    BY <2>1 DEF VacInv, UncrossedIsSound
  <2>4. \A r \in VacReqs : At(r, "publish", "write") => vreqs'[r] = vreqs[r]
    BY <1>1, <2>2 DEF At, NoReq
  <2>5. UNCHANGED <<vacs, wp, blobs, unrecorded>>
    BY <1>1
  <2>9. PostsNamed(v)'
    BY <2>3, <2>4, <2>5 DEF PostsNamed, At
  <2>10. PicsStored(v)'
    BY <2>3, <2>5 DEF PicsStored
  <2>6. op \in {"upload", "setSlot"} => mine \cap Lists(vacs[v]) = {}
    BY <1>1, <1>6 DEF Free
  <2>7. ~(step = "erase" \/ (op = "unpublish" /\ step = "write")) /\ ~(op = "publish" /\ step = "write")
        /\ ~(op = "upload" /\ step = "write")
    BY DEF step, FirstStep
  <2>8. Snapshot(vreqs[q], v)'
    BY <1>1, <1>6, <1>7, <2>2, <2>6, <2>7 DEF Snapshot
  <2> QED
    BY <2>1, <2>2, <2>8, <2>9, <2>10 DEF UncrossedIsSound
<1>11. post # NoPost => wp'[post].vac = {v} /\ wp'[post].status # "none"
  BY <1>1, <1>2, <1>6 DEF PostIsOf
<1>12. vacs[v].post # NoPost => wp'[vacs[v].post].vac = {v} /\ wp'[vacs[v].post].status # "none"
  BY <1>1, <1>2 DEF PostIsOf
<1>13. vreqs[q].vac = {} /\ crossed \subseteq crossed'
  BY <1>1, NothingIsAsked
<1> QED
  BY <1>1, <1>2, <1>7, <1>8, <1>9, <1>10, <1>11, <1>12, <1>13, VacancyStep

\* A new row has no post, no pictures and nobody on it.
LEMMA CreateVacancyKeeps == ASSUME VacInv, NEW v \in Vacs, CreateVacancy(v) PROVE VacInv'
<1> DEFINE nv == [vacs[v] EXCEPT !.status = "draft"]
<1>1. /\ vacs \in [Vacs -> VacRow] /\ vacs[v] \in VacRow /\ vacs[v].status = "none"
      /\ vacs' = [vacs EXCEPT ![v] = nv] /\ UNCHANGED <<wp, blobs, vreqs, crossed, unrecorded>>
  BY DEF CreateVacancy, VacInv, VacTypeOK
<1>2. /\ nv \in VacRow /\ nv.status = "draft" /\ nv.post = vacs[v].post
      /\ nv.images = vacs[v].images /\ nv.slot = vacs[v].slot
  BY <1>1 DEF VacRow
<1> HIDE DEF nv
<1>3. /\ vacs' \in [Vacs -> VacRow]
      /\ \A w \in Vacs : /\ vacs'[w].post = vacs[w].post /\ vacs'[w].images = vacs[w].images
                         /\ vacs'[w].slot = vacs[w].slot
                         /\ vacs'[w].status # "none" \/ vacs'[w] = vacs[w]
                         /\ w # v => vacs'[w] = vacs[w]
  BY <1>1, <1>2
<1>4. VacTypeOK'
  <2>1. VacTypeOK
    BY DEF VacInv
  <2>2. \A q \in VacReqs : Under(vreqs[q])'
    BY <1>1, <2>1 DEF VacTypeOK, Under
  <2>3. \A q \in VacReqs, w \in Vacs : vreqs'[q].vac = {w} => vacs'[w].status # "none"
    BY <1>1, <1>3, <2>1 DEF VacTypeOK
  <2> QED
    BY <1>1, <1>3, <2>1, <2>2, <2>3 DEF VacTypeOK
<1>5. PostsOfOne'
  BY <1>1, <1>3 DEF VacInv, PostsOfOne, PostIsOf
<1>6. \A w \in Vacs, c \in Pics : Holds(w, c)' <=> Holds(w, c)
  BY <1>1, <1>3 DEF Holds, InHand, Lists
<1>7. PicsOfOne'
  BY <1>6 DEF VacInv, PicsOfOne
<1>8. ASSUME NEW w \in Vacs \ crossed' PROVE UncrossedIsSound(w)'
  <2>1. UncrossedIsSound(w)
    BY <1>1 DEF VacInv
  <2>2. \A q \in VacReqs : vreqs[q].vac = {w} => vacs'[w] = vacs[w]
    <3>1. \A q \in VacReqs : vreqs[q].vac = {w} => vacs[w].status # "none"
      BY DEF VacInv, VacTypeOK
    <3> QED
      BY <1>1, <1>3, <3>1
  <2>3. \A q \in VacReqs : vreqs[q].vac = {w} => Snapshot(vreqs[q], w)'
    BY <1>1, <2>1, <2>2 DEF UncrossedIsSound, Snapshot, TakenDown
  <2>4. PostsNamed(w)' /\ PicsStored(w)'
    BY <1>1, <1>3, <2>1 DEF UncrossedIsSound, PostsNamed, PicsStored, At
  <2> QED
    BY <1>1, <2>1, <2>3, <2>4 DEF UncrossedIsSound
<1> QED
  BY <1>4, <1>5, <1>7, <1>8 DEF VacInv

LEMMA VacStep == VacInv /\ [VacNext]_vacVars => VacInv'
<1> SUFFICES ASSUME VacInv, [VacNext]_vacVars PROVE VacInv'
  OBVIOUS
<1>1. CASE UNCHANGED vacVars
  <2>1. UNCHANGED <<vacs, wp, blobs, vreqs, crossed, unrecorded>>
    BY <1>1 DEF vacVars
  <2>2. VacTypeOK'
    BY <2>1 DEF VacInv, VacTypeOK, Under
  <2>3. PostsOfOne'
    BY <2>1 DEF VacInv, PostsOfOne, PostIsOf
  <2>4. PicsOfOne'
    BY <2>1 DEF VacInv, PicsOfOne, Holds, InHand
  <2>5. \A v \in Vacs, q \in VacReqs : Snapshot(vreqs[q], v) => Snapshot(vreqs[q], v)'
    BY <2>1 DEF Snapshot, TakenDown
  <2>6. \A v \in Vacs : PostsNamed(v) => PostsNamed(v)'
    BY <2>1 DEF PostsNamed, At
  <2>7. \A v \in Vacs : PicsStored(v) => PicsStored(v)'
    BY <2>1 DEF PicsStored
  <2>8. \A v \in Vacs \ crossed' : UncrossedIsSound(v)'
    BY <2>1, <2>5, <2>6, <2>7 DEF VacInv, UncrossedIsSound
  <2> QED
    BY <2>2, <2>3, <2>4, <2>8 DEF VacInv
<1>2. ASSUME NEW q \in VacReqs,
             \/ CallPublish(q) \/ WritePublished(q)
             \/ CallUnpublish(q) \/ UnpublishFails(q) \/ WriteUnpublished(q) \/ EraseRow(q)
             \/ UploadBlob(q) \/ AppendImage(q) \/ DropImage(q) \/ Reorder(q)
             \/ DropSlotBlob(q) \/ WriteSlot(q) \/ Fails(q)
      PROVE  VacInv'
  BY <1>2, CallPublishKeeps, PublishedKeeps, CallUnpublishKeeps, EndingsKeep, UnpublishedKeeps, EraseKeeps,
     UploadKeeps, AppendKeeps, DropKeeps, ReorderKeeps, DropSlotKeeps, SlotKeeps
<1> QED
  BY <1>1, <1>2, StartKeeps, CreateVacancyKeeps DEF VacNext

(* A vacancy's row tells of what is outside the database, for any vacancies, pictures *)
(* and requests: unless two handlers crossed on it, no live post is one nobody can     *)
(* take down from here and every listed picture is there, wherever the calls to the    *)
(* website and the picture store failed (publishVacancy, deleteVacancy, uploads).      *)
THEOREM OutsideStaysKnown == VacSpec => []OutsideIsKnown
BY VacsAgree, VacStart, VacStep, PTL DEF VacSpec

-----------------------------------------------------------------------------
(* Inspections: findings through replays, merges and raises.               *)

AddPointOf(p) == <<"addPoint", p>>
AddRoomOf(r) == <<"addRoom", r>>
Sent(op) == \E i \in Insps : <<op, i>> \in queued

InspTypeOK ==
  /\ insp = [i \in Insps |-> insp[i]]
  /\ levels \subseteq Insps \X LevelNames
  /\ rooms \in [Rooms -> (Insps \X LevelNames) \cup {Nowhere}]
  /\ finds \in [Findings -> [room : Rooms \cup {Nowhere}, photo : BOOLEAN]]
  /\ made \in [Findings -> Nat]

\* What was sent is in the log of its inspection, as long as there is one.
SentIsLogged ==
  \A i \in Insps : \A op : <<op, i>> \in queued =>
    <<op, i>> \in oplog \/ (insp[i].status = "gone" /\ insp[i].into = Nowhere)

\* A finding or a room that is anywhere was sent by a phone.
SentFirst ==
  /\ \A p \in Findings : finds[p].room # Nowhere \/ made[p] > 0 \/ p \in desk.index => Sent(AddPointOf(p))
  /\ \A r \in Rooms : rooms[r] # Nowhere => Sent(AddRoomOf(r))

\* Findings are in rooms that are on levels.
InPlace ==
  /\ \A p \in Findings : finds[p].room # Nowhere => rooms[finds[p].room] # Nowhere
  /\ \A r \in Rooms : rooms[r] # Nowhere => rooms[r] \in levels

\* The inspection a finding is in.
HomeOf(p) == rooms[finds[p].room][1]

\* A job was raised from a finding at most once, and its inspection says so.
RaisedOnce ==
  \A p \in Findings : finds[p].room # Nowhere /\ made[p] > 0 => made[p] = 1 /\ <<HomeOf(p), p>> \in links

\* What somebody is about to raise jobs from is its inspection's own, unless that was merged.
RaisesItsOwn ==
  desk.pc = "raise" =>
    /\ desk.insp \in Insps /\ insp[desk.insp].status \in {"draft", "complete", "merged"}
    /\ insp[desk.insp].status # "merged" =>
         \A p \in Findings : p \in desk.index /\ finds[p].room # Nowhere => HomeOf(p) = desk.insp

KeptOrRecorded == \A p \in Findings : Sent(AddPointOf(p)) => finds[p].room # Nowhere \/ p \in recorded \cup wiped

DeskSays == desk.pc \in {"idle", "delete", "raise"} /\ (desk.pc = "delete" => desk.insp \in Insps)

InspInv == /\ InspTypeOK /\ SentIsLogged /\ SentFirst /\ InPlace /\ RaisedOnce /\ RaisesItsOwn
           /\ KeptOrRecorded /\ DeskSays

LEMMA FindingsAgree == InspInv => FindingsAreKept
<1> SUFFICES ASSUME InspInv, NEW p \in Findings
             PROVE  /\ (\E i \in Insps : <<<<"addPoint", p>>, i>> \in queued) =>
                         finds[p].room # Nowhere \/ p \in recorded \cup wiped
                    /\ finds[p].room # Nowhere => made[p] <= 1
  BY DEF FindingsAreKept
<1>1. made[p] \in Nat /\ (finds[p].room # Nowhere /\ made[p] > 0 => made[p] = 1)
  BY DEF InspInv, InspTypeOK, RaisedOnce
<1>2. (\E i \in Insps : <<<<"addPoint", p>>, i>> \in queued) => finds[p].room # Nowhere \/ p \in recorded \cup wiped
  BY DEF InspInv, KeptOrRecorded, Sent, AddPointOf
<1> QED
  BY <1>1, <1>2

LEMMA InspStart == InspInit => InspInv
<1> SUFFICES ASSUME InspInit PROVE InspInv
  OBVIOUS
<1>1. /\ \A p \in Findings : finds[p] = NoFind /\ made[p] = 0
      /\ \A r \in Rooms : rooms[r] = Nowhere
      /\ \A i \in Insps : insp[i] = NoInsp
      /\ desk.pc = "idle" /\ desk.index = {} /\ queued = {} /\ NoFind.room = Nowhere
  BY DEF InspInit, DeskIdle, NoFind
<1>2. InspTypeOK
  BY <1>1 DEF InspInit, InspTypeOK, NoFind, NoInsp
<1> QED
  BY <1>1, <1>2 DEF InspInv, SentIsLogged, SentFirst, InPlace, RaisedOnce, RaisesItsOwn, KeptOrRecorded,
     DeskSays, Sent
\* An operation that applies was not sent before, when its id is made for its inspection.
LEMMA NotSentBefore ==
  ASSUME InspInv, NEW i \in Insps, NEW op, Applies(op, i), NewHere(op, i) PROVE ~Sent(op)
<1>1. <<op, i>> \notin queued
  BY DEF InspInv, SentIsLogged, Applies, Seen, Is
<1> QED
  BY <1>1 DEF Sent, NewHere

\* An operation that leaves findings where they are, or drops or moves them within their
\* inspection, or puts new ones in.
LEMMA OperationKeeps ==
  ASSUME InspInv, NEW i \in Insps, NEW op, Applies(op, i), OpFrame, InspTypeOK',
         recorded \subseteq recorded',
         \A p \in Findings : finds'[p].room # Nowhere =>
           \/ finds[p].room # Nowhere /\ rooms'[finds'[p].room][1] = HomeOf(p)
           \/ ~Sent(AddPointOf(p)) /\ op = AddPointOf(p),
         \A p \in Findings : finds[p].room # Nowhere /\ finds'[p].room = Nowhere => p \in recorded',
         op \in {AddPointOf(p) : p \in Findings} => \A p \in Findings : op = AddPointOf(p) => finds'[p].room # Nowhere,
         InPlace', \A r \in Rooms : rooms'[r] # Nowhere => rooms[r] # Nowhere \/ op = AddRoomOf(r)
  PROVE  InspInv'
<1>1. /\ UNCHANGED <<insp, wiped, links, made, desk>>
      /\ oplog' = oplog \cup {<<op, i>>} /\ queued' = queued \cup {<<op, i>>}
  BY DEF OpFrame, Applies
<1>2. SentIsLogged'
  BY <1>1 DEF InspInv, SentIsLogged
<1>3. \A o : Sent(o)' <=> Sent(o) \/ o = op
  BY <1>1 DEF Sent
<1>4. ASSUME NEW p \in Findings, finds'[p].room # Nowhere \/ made'[p] > 0 \/ p \in desk'.index
      PROVE  Sent(AddPointOf(p))'
  <2>1. Sent(AddPointOf(p)) \/ op = AddPointOf(p)
    BY <1>1, <1>4 DEF InspInv, SentFirst
  <2> QED
    BY <1>3, <2>1
<1>5. ASSUME NEW r \in Rooms, rooms'[r] # Nowhere PROVE Sent(AddRoomOf(r))'
  <2>1. Sent(AddRoomOf(r)) \/ op = AddRoomOf(r)
    BY <1>5 DEF InspInv, SentFirst
  <2> QED
    BY <1>3, <2>1
<1>6. SentFirst'
  <2>1. \A p \in Findings : AddPointOf(p)' = AddPointOf(p)
    BY DEF AddPointOf
  <2> QED
    BY <1>4, <1>5, <2>1 DEF SentFirst, AddRoomOf, AddPointOf
<1>7. ASSUME NEW p \in Findings, finds'[p].room # Nowhere, made[p] > 0 \/ p \in desk.index
      PROVE  finds[p].room # Nowhere /\ rooms'[finds'[p].room][1] = HomeOf(p)
  <2>1. Sent(AddPointOf(p))
    BY <1>7 DEF InspInv, SentFirst
  <2> QED
    BY <1>7, <2>1
<1>8. RaisedOnce'
  BY <1>1, <1>7 DEF InspInv, RaisedOnce, HomeOf
<1>9. RaisesItsOwn'
  BY <1>1, <1>7 DEF InspInv, RaisesItsOwn, HomeOf
<1>10. ASSUME NEW p \in Findings, Sent(AddPointOf(p))'
       PROVE  finds'[p].room # Nowhere \/ p \in recorded' \cup wiped'
  <2>1. CASE op = AddPointOf(p)
    BY <2>1
  <2>2. CASE op # AddPointOf(p)
    <3>1. Sent(AddPointOf(p))
      BY <1>3, <1>10, <2>2 DEF AddPointOf
    <3>2. finds[p].room # Nowhere \/ p \in recorded \cup wiped
      BY <3>1 DEF InspInv, KeptOrRecorded
    <3> QED
      BY <1>1, <3>2
  <2> QED
    BY <2>1, <2>2
<1>11. KeptOrRecorded'
  BY <1>10 DEF KeptOrRecorded, AddPointOf
<1>12. DeskSays'
  BY <1>1 DEF InspInv, DeskSays
<1> QED
  BY <1>2, <1>6, <1>8, <1>9, <1>11, <1>12 DEF InspInv

\* What an operation names tells it apart.
LEMMA OpsDiffer ==
  /\ \A p, n, r : AddPointOf(p) \notin {<<"addLevel", n>>, <<"removeLevel", n>>, AddRoomOf(r), <<"removeRoom", r>>,
                       <<"removePoint", r>>, <<"addAttachment", r>>, <<"removeAttachment", r>>, <<"linkRooms", r, n>>}
  /\ \A p, q : AddPointOf(p) = AddPointOf(q) => p = q
  /\ \A p, q : AddRoomOf(p) = AddRoomOf(q) => p = q
BY DEF AddPointOf, AddRoomOf

LEMMA InspTypes ==
  ASSUME InspInv
  PROVE  /\ insp = [i \in Insps |-> insp[i]] /\ levels \subseteq Insps \X LevelNames
         /\ rooms \in [Rooms -> (Insps \X LevelNames) \cup {Nowhere}]
         /\ finds \in [Findings -> [room : Rooms \cup {Nowhere}, photo : BOOLEAN]]
         /\ made \in [Findings -> Nat]
         /\ \A p \in Findings : /\ finds[p].room \in Rooms \cup {Nowhere}
                                /\ finds[p].room # Nowhere => finds[p].room \in Rooms /\ rooms[finds[p].room] # Nowhere
         /\ \A r \in Rooms : rooms[r] # Nowhere => rooms[r] \in levels
BY DEF InspInv, InspTypeOK, InPlace

\* Rooms that go take their findings along, and the ledger has them.
LEMMA DropKeeps2 ==
  ASSUME InspInv, NEW i \in Insps, NEW op, Applies(op, i), OpFrame, NEW R \in SUBSET Rooms, Drop(R),
         levels' \subseteq levels, \A r \in Rooms \ R : rooms[r] # Nowhere => rooms[r] \in levels',
         \A p \in Findings : op # AddPointOf(p)
  PROVE  InspInv'
<1>1. NoFind \in [room : Rooms \cup {Nowhere}, photo : BOOLEAN] /\ NoFind.room = Nowhere
  BY DEF NoFind
<1>2. /\ \A r \in Rooms : rooms'[r] = IF r \in R THEN Nowhere ELSE rooms[r]
      /\ \A p \in Findings : finds'[p] = IF p \in FindsIn(R) THEN NoFind ELSE finds[p]
      /\ rooms' \in [Rooms -> (Insps \X LevelNames) \cup {Nowhere}]
      /\ finds' \in [Findings -> [room : Rooms \cup {Nowhere}, photo : BOOLEAN]]
  BY <1>1, InspTypes DEF Drop
<1>3. recorded' = recorded \cup FindsIn(R)
  BY DEF Drop, InLedger
<1>4. \A p \in Findings : p \in FindsIn(R) <=> finds[p].room \in R
  BY DEF FindsIn
<1>5. InspTypeOK'
  BY <1>2 DEF InspInv, InspTypeOK, OpFrame
<1>6. ASSUME NEW p \in Findings, finds'[p].room # Nowhere
      PROVE  /\ finds[p].room # Nowhere /\ finds'[p].room = finds[p].room
             /\ rooms'[finds'[p].room] = rooms[finds[p].room]
  BY <1>1, <1>2, <1>4, <1>6, InspTypes
<1>7. InPlace'
  BY <1>2, <1>6, InspTypes DEF InPlace
<1>8. \A p \in Findings : finds[p].room # Nowhere /\ finds'[p].room = Nowhere => p \in recorded'
  BY <1>2, <1>3
<1>9. \A p \in Findings : finds'[p].room # Nowhere =>
           finds[p].room # Nowhere /\ rooms'[finds'[p].room][1] = HomeOf(p)
  BY <1>6 DEF HomeOf
<1>10. \A r \in Rooms : rooms'[r] # Nowhere => rooms[r] # Nowhere
  BY <1>2
<1> QED
  BY <1>3, <1>5, <1>7, <1>8, <1>9, <1>10, OperationKeeps
LEMMA LevelsKeep ==
  ASSUME InspInv, NEW i \in Insps, NEW n \in LevelNames, AddLevel(i, n) \/ RemoveLevel(i, n) PROVE InspInv'
<1>1. CASE AddLevel(i, n)
  <2> DEFINE op == <<"addLevel", n>>
  <2>1. Applies(op, i) /\ OpFrame /\ levels' = levels \cup {<<i, n>>} /\ UNCHANGED <<rooms, finds, recorded>>
    BY <1>1 DEF AddLevel
  <2>2. \A p \in Findings : op # AddPointOf(p)
    BY OpsDiffer
  <2> HIDE DEF op
  <2>3. InspTypeOK'
    BY <2>1 DEF InspInv, InspTypeOK, OpFrame
  <2>4. InPlace'
    BY <2>1, InspTypes DEF InPlace
  <2>5. \A p \in Findings : finds'[p].room # Nowhere =>
             finds[p].room # Nowhere /\ rooms'[finds'[p].room][1] = HomeOf(p)
    BY <2>1 DEF HomeOf
  <2> QED
    BY <2>1, <2>2, <2>3, <2>4, <2>5, OperationKeeps
<1>2. CASE RemoveLevel(i, n)
  <2> DEFINE op == <<"removeLevel", n>>
             R == RoomsOn({<<i, n>>})
  <2>1. Applies(op, i) /\ OpFrame /\ levels' = levels \ {<<i, n>>} /\ Drop(R)
    BY <1>2 DEF RemoveLevel
  <2>2. \A p \in Findings : op # AddPointOf(p)
    BY OpsDiffer
  <2>3. R \in SUBSET Rooms /\ \A r \in Rooms \ R : rooms[r] # <<i, n>>
    BY DEF RoomsOn
  <2> HIDE DEF op, R
  <2>4. \A r \in Rooms \ R : rooms[r] # Nowhere => rooms[r] \in levels'
    BY <2>1, <2>3, InspTypes
  <2> QED
    BY <2>1, <2>2, <2>3, <2>4, DropKeeps2
<1> QED
  BY <1>1, <1>2

LEMMA AddRoomKeeps ==
  ASSUME InspInv, NEW i \in Insps, NEW n \in LevelNames, NEW r \in Rooms, AddRoom(i, n, r) PROVE InspInv'
<1> DEFINE op == AddRoomOf(r)
<1>1. /\ Applies(op, i) /\ OpFrame /\ NewHere(op, i) /\ <<i, n>> \in levels
      /\ rooms' = [rooms EXCEPT ![r] = <<i, n>>] /\ UNCHANGED <<levels, finds, recorded>>
  BY DEF AddRoom, AddRoomOf
<1>2. ~Sent(op) /\ \A p \in Findings : op # AddPointOf(p)
  BY <1>1, NotSentBefore, OpsDiffer
<1>3. rooms[r] = Nowhere
  BY <1>2 DEF InspInv, SentFirst
<1> HIDE DEF op
<1>4. \A p \in Findings : finds[p].room # Nowhere => finds[p].room # r
  BY <1>3, InspTypes
<1>5. rooms' \in [Rooms -> (Insps \X LevelNames) \cup {Nowhere}] /\ \A s \in Rooms : rooms'[s] = IF s = r THEN <<i, n>> ELSE rooms[s]
  BY <1>1, InspTypes
<1>6. InspTypeOK'
  BY <1>1, <1>5 DEF InspInv, InspTypeOK, OpFrame
<1>7. \A p \in Findings : finds[p].room # Nowhere => rooms'[finds[p].room] = rooms[finds[p].room]
  BY <1>4, <1>5, InspTypes
<1>8. InPlace'
  BY <1>1, <1>5, <1>7, InspTypes DEF InPlace
<1>9. \A p \in Findings : finds'[p].room # Nowhere =>
           finds[p].room # Nowhere /\ rooms'[finds'[p].room][1] = HomeOf(p)
  BY <1>1, <1>7 DEF HomeOf
<1>10. \A s \in Rooms : rooms'[s] # Nowhere => rooms[s] # Nowhere \/ op = AddRoomOf(s)
  BY <1>5 DEF op
<1> QED
  BY <1>1, <1>2, <1>6, <1>8, <1>9, <1>10, OperationKeeps

LEMMA RemoveRoomKeeps ==
  ASSUME InspInv, NEW i \in Insps, NEW r \in Rooms, RemoveRoom(i, r) PROVE InspInv'
<1> DEFINE op == <<"removeRoom", r>>
<1>1. Applies(op, i) /\ OpFrame /\ Drop({r}) /\ levels' = levels
  BY DEF RemoveRoom
<1>2. \A p \in Findings : op # AddPointOf(p)
  BY OpsDiffer
<1> HIDE DEF op
<1>3. \A s \in Rooms \ {r} : rooms[s] # Nowhere => rooms[s] \in levels'
  BY <1>1, InspTypes
<1> QED
  BY <1>1, <1>2, <1>3, DropKeeps2

LEMMA RoomsOfAre ==
  ASSUME InspInv, NEW i \in Insps, NEW r \in Rooms
  PROVE  r \in RoomsOf(i) <=> rooms[r] # Nowhere /\ rooms[r][1] = i
<1>1. \A l \in levels : l \in Insps \X LevelNames /\ l # Nowhere
  BY InspTypes, InspConstants
<1> QED
  BY <1>1, InspTypes DEF RoomsOf, RoomsOn

LEMMA AddPointKeeps ==
  ASSUME InspInv, NEW i \in Insps, NEW r \in Rooms, NEW p \in Findings, AddPoint(i, r, p) PROVE InspInv'
<1> DEFINE op == AddPointOf(p)
           f == [NoFind EXCEPT !.room = r]
<1>1. /\ Applies(op, i) /\ OpFrame /\ NewHere(op, i) /\ r \in RoomsOf(i)
      /\ finds' = [finds EXCEPT ![p] = f] /\ UNCHANGED <<levels, rooms, recorded>>
  BY DEF AddPoint, AddPointOf
<1>2. ~Sent(op) /\ rooms[r] # Nowhere /\ r # Nowhere
  BY <1>1, NotSentBefore, RoomsOfAre, InspConstants
<1>3. f \in [room : Rooms \cup {Nowhere}, photo : BOOLEAN] /\ f.room = r
  BY DEF NoFind
<1> HIDE DEF f
<1>4. /\ finds' \in [Findings -> [room : Rooms \cup {Nowhere}, photo : BOOLEAN]]
      /\ \A q \in Findings : finds'[q] = IF q = p THEN f ELSE finds[q]
  BY <1>1, <1>3, InspTypes
<1>5. InspTypeOK'
  BY <1>1, <1>4 DEF InspInv, InspTypeOK, OpFrame
<1>6. InPlace'
  BY <1>1, <1>2, <1>3, <1>4, InspTypes DEF InPlace
<1>7. \A q \in Findings : finds'[q].room # Nowhere =>
           \/ finds[q].room # Nowhere /\ rooms'[finds'[q].room][1] = HomeOf(q)
           \/ ~Sent(AddPointOf(q)) /\ op = AddPointOf(q)
  BY <1>1, <1>2, <1>4 DEF HomeOf
<1>8. \A q \in Findings : op = AddPointOf(q) => finds'[q].room # Nowhere
  BY <1>2, <1>3, <1>4, OpsDiffer
<1>9. \A q \in Findings : finds[q].room # Nowhere => finds'[q].room # Nowhere
  BY <1>2, <1>3, <1>4
<1> HIDE DEF op
<1> QED
  BY <1>1, <1>5, <1>6, <1>7, <1>8, <1>9, OperationKeeps

LEMMA PointsKeep ==
  ASSUME InspInv, NEW i \in Insps, NEW p \in Findings,
         RemovePoint(i, p) \/ AddAttachment(i, p) \/ RemoveAttachment(i, p)
  PROVE  InspInv'
<1>3. finds[p] \in [room : Rooms \cup {Nowhere}, photo : BOOLEAN]
  BY InspTypes
<1> DEFINE ops == {<<"removePoint", p>>, <<"addAttachment", p>>, <<"removeAttachment", p>>}
           Fits(f) == /\ f \in [room : Rooms \cup {Nowhere}, photo : BOOLEAN]
                      /\ f.room = finds[p].room \/ (f.room = Nowhere /\ p \in recorded')
<1>4. \E op \in ops, f \in [room : Rooms \cup {Nowhere}, photo : BOOLEAN] :
        /\ Applies(op, i) /\ OpFrame /\ finds' = [finds EXCEPT ![p] = f] /\ Fits(f)
        /\ UNCHANGED <<levels, rooms>> /\ recorded \subseteq recorded'
  <2>1. CASE RemovePoint(i, p)
    <3>1. Fits(NoFind) /\ recorded \subseteq recorded'
      BY <2>1 DEF RemovePoint, InLedger, NoFind
    <3> QED
      BY <2>1, <3>1 DEF RemovePoint
  <2>2. ASSUME NEW photo \in BOOLEAN, NEW op \in ops, Applies(op, i), OpFrame,
               finds' = [finds EXCEPT ![p].photo = photo], UNCHANGED <<levels, rooms, recorded>>
        PROVE  \E f \in [room : Rooms \cup {Nowhere}, photo : BOOLEAN] :
                 /\ Applies(op, i) /\ OpFrame /\ finds' = [finds EXCEPT ![p] = f] /\ Fits(f)
                 /\ UNCHANGED <<levels, rooms>> /\ recorded \subseteq recorded'
    <3>1. Fits([finds[p] EXCEPT !.photo = photo])
      BY <1>3
    <3>2. finds' = [finds EXCEPT ![p] = [finds[p] EXCEPT !.photo = photo]]
      BY <2>2
    <3> QED
      BY <2>2, <3>1, <3>2
  <2> QED
    BY <2>1, <2>2 DEF AddAttachment, RemoveAttachment
<1>1. PICK op \in ops, f \in [room : Rooms \cup {Nowhere}, photo : BOOLEAN] :
        /\ Applies(op, i) /\ OpFrame /\ finds' = [finds EXCEPT ![p] = f] /\ Fits(f)
        /\ UNCHANGED <<levels, rooms>> /\ recorded \subseteq recorded'
  BY <1>4
<1>2. \A q \in Findings : op # AddPointOf(q)
  BY <1>1, OpsDiffer
<1>5. /\ finds' \in [Findings -> [room : Rooms \cup {Nowhere}, photo : BOOLEAN]]
      /\ \A q \in Findings : finds'[q] = IF q = p THEN f ELSE finds[q]
  BY <1>1, InspTypes
<1>6. InspTypeOK'
  BY <1>1, <1>5 DEF InspInv, InspTypeOK, OpFrame
<1>7. \A q \in Findings : finds'[q].room # Nowhere => finds'[q].room = finds[q].room
  BY <1>1, <1>5
<1>8. InPlace'
  BY <1>1, <1>5, <1>7, InspTypes DEF InPlace
<1>9. \A q \in Findings : finds'[q].room # Nowhere =>
           finds[q].room # Nowhere /\ rooms'[finds'[q].room][1] = HomeOf(q)
  BY <1>1, <1>7 DEF HomeOf
<1>10. \A q \in Findings : finds[q].room # Nowhere /\ finds'[q].room = Nowhere => q \in recorded'
  BY <1>1, <1>5
<1> QED
  BY <1>1, <1>2, <1>6, <1>8, <1>9, <1>10, OperationKeeps

\* Linked rooms: their findings are in the room that is kept.
LEMMA LinkKeeps ==
  ASSUME InspInv, NEW i \in Insps, NEW keeper \in Rooms, NEW others \in SUBSET Rooms, LinkRooms(i, keeper, others)
  PROVE  InspInv'
<1> DEFINE R == {r \in others : rooms[r] = rooms[keeper]}
           now == Moved(keeper, R)
           op == <<"linkRooms", keeper, others>>
<1>1. /\ keeper \in RoomsOf(i) /\ keeper \notin others /\ Applies(op, i) /\ OpFrame
      /\ rooms' = [r \in Rooms |-> IF r \in R THEN Nowhere ELSE rooms[r]]
      /\ finds' = [p \in Findings |-> IF now[p].room \in R THEN NoFind ELSE now[p]]
      /\ UNCHANGED <<levels, recorded>>
  BY DEF LinkRooms
<1>2. \A p \in Findings : op # AddPointOf(p)
  BY OpsDiffer
<1>3. R \subseteq Rooms /\ keeper \notin R /\ keeper # Nowhere /\ \A r \in R : rooms[r] = rooms[keeper] /\ r # Nowhere
  BY <1>1, InspConstants
<1>4. rooms[keeper] # Nowhere
  BY <1>1, RoomsOfAre
<1> HIDE DEF op, R
<1>5. \A p \in Findings :
        /\ now[p] \in [room : Rooms \cup {Nowhere}, photo : BOOLEAN]
        /\ now[p].room = IF finds[p].room \in R THEN keeper ELSE finds[p].room
  <2> TAKE p \in Findings
  <2>1. now[p] = IF finds[p].room \in R THEN [finds[p] EXCEPT !.room = keeper] ELSE finds[p]
    BY DEF Moved, FindsIn
  <2>2. finds[p] \in [room : Rooms \cup {Nowhere}, photo : BOOLEAN]
    BY InspTypes
  <2> HIDE DEF now
  <2> QED
    BY <2>1, <2>2
<1> HIDE DEF now
<1>6. \A p \in Findings : now[p].room \notin R
  BY <1>3, <1>5
<1>7. /\ finds' \in [Findings -> [room : Rooms \cup {Nowhere}, photo : BOOLEAN]]
      /\ \A p \in Findings : finds'[p].room = IF finds[p].room \in R THEN keeper ELSE finds[p].room
      /\ rooms' \in [Rooms -> (Insps \X LevelNames) \cup {Nowhere}]
      /\ \A r \in Rooms : rooms'[r] = IF r \in R THEN Nowhere ELSE rooms[r]
  <2>1. \A p \in Findings : finds'[p] = now[p]
    BY <1>1, <1>6
  <2>2. finds' \in [Findings -> [room : Rooms \cup {Nowhere}, photo : BOOLEAN]]
    BY <1>1, <1>5, <1>6
  <2> QED
    BY <1>1, <1>5, <2>1, <2>2, InspTypes
<1>8. InspTypeOK'
  BY <1>1, <1>7 DEF InspInv, InspTypeOK, OpFrame
<1>9. \A p \in Findings : finds'[p].room # Nowhere =>
        finds[p].room # Nowhere /\ rooms'[finds'[p].room] = rooms[finds[p].room]
  BY <1>3, <1>7, InspTypes
<1>10. InPlace'
  BY <1>1, <1>7, <1>9, InspTypes DEF InPlace
<1>11. \A p \in Findings : finds'[p].room # Nowhere =>
           finds[p].room # Nowhere /\ rooms'[finds'[p].room][1] = HomeOf(p)
  BY <1>9 DEF HomeOf
<1>12. \A p \in Findings : finds[p].room # Nowhere => finds'[p].room # Nowhere
  BY <1>3, <1>7
<1>13. \A r \in Rooms : rooms'[r] # Nowhere => rooms[r] # Nowhere
  BY <1>7
<1> QED
  BY <1>1, <1>2, <1>8, <1>10, <1>11, <1>12, <1>13, OperationKeeps
\* Steps that change no finding, room or level.
LEMMA StatusKeeps ==
  ASSUME InspInv, NEW i \in Insps, CreateInspection(i) \/ CompleteInspection(i) \/ RevertInspection(i)
  PROVE  InspInv'
<1>1. PICK n : /\ insp' = [insp EXCEPT ![i] = n] /\ n.status \in {"draft", "complete"}
               /\ insp[i].status \in {"none", "draft", "complete"}
               /\ insp[i].status = "none" \/ insp[i].status \in {"draft", "complete"}
  <2>1. CASE CreateInspection(i)
    <3>1. [NoInsp EXCEPT !.status = "draft"].status = "draft"
      BY DEF NoInsp
    <3> QED
      BY <2>1, <3>1 DEF CreateInspection, Is
  <2>2. insp = [j \in Insps |-> insp[j]]
    BY InspTypes
  <2>3. CASE CompleteInspection(i)
    <3> DEFINE n == [insp[i] EXCEPT !.status = "complete"]
    <3>1. insp' = [insp EXCEPT ![i] = n] /\ insp[i].status = "draft"
      BY <2>3 DEF CompleteInspection, Is
    <3>2. n.status = "complete"
      BY <3>1
    <3> QED
      BY <3>1, <3>2
  <2>4. CASE RevertInspection(i)
    <3> DEFINE n == [insp[i] EXCEPT !.status = "draft"]
    <3>1. insp' = [insp EXCEPT ![i] = n] /\ insp[i].status = "complete"
      BY <2>4 DEF RevertInspection, Is
    <3>2. n.status = "draft"
      BY <3>1
    <3> QED
      BY <3>1, <3>2
  <2> QED
    BY <2>1, <2>3, <2>4
<1>2. UNCHANGED <<levels, rooms, finds, oplog, queued, recorded, wiped, links, made, desk>>
  BY DEF CreateInspection, CompleteInspection, RevertInspection
<1>3. insp' = [j \in Insps |-> insp'[j]] /\ \A j \in Insps : insp'[j] = IF j = i THEN n ELSE insp[j]
  BY <1>1, InspTypes
<1>4. InspTypeOK'
  BY <1>2, <1>3 DEF InspInv, InspTypeOK
<1>5. SentIsLogged'
  BY <1>1, <1>2, <1>3 DEF InspInv, SentIsLogged
<1>6. SentFirst' /\ InPlace' /\ RaisedOnce' /\ KeptOrRecorded' /\ DeskSays'
  BY <1>2 DEF InspInv, SentFirst, InPlace, RaisedOnce, HomeOf, KeptOrRecorded, DeskSays, Sent
<1>7. RaisesItsOwn'
  BY <1>1, <1>2, <1>3 DEF InspInv, RaisesItsOwn, HomeOf
<1> QED
  BY <1>4, <1>5, <1>6, <1>7 DEF InspInv

LEMMA ReadsKeep == ASSUME InspInv, NEW i \in Insps, DeleteReads(i) \/ RaiseReads(i) PROVE InspInv'
<1>1. UNCHANGED <<insp, levels, rooms, finds, oplog, queued, recorded, wiped, links, made>>
  BY DEF DeleteReads, RaiseReads
<1>2. /\ desk'.pc \in {"delete", "raise"} /\ desk'.insp = i /\ desk'.index \in {{}, FindsOf(i)}
      /\ desk'.pc = "raise" => insp[i].status = "complete"
  <2>1. CASE DeleteReads(i)
    <3>1. desk' = [DeskIdle EXCEPT !.pc = "delete", !.insp = i]
      BY <2>1 DEF DeleteReads
    <3>2. desk'.pc = "delete" /\ desk'.insp = i /\ desk'.index = {}
      BY <3>1 DEF DeskIdle
    <3> QED
      BY <3>2
  <2>2. CASE RaiseReads(i)
    BY <2>2 DEF RaiseReads, Is
  <2> QED
    BY <2>1, <2>2
<1>3. \A p \in Findings : p \in FindsOf(i) => finds[p].room # Nowhere /\ HomeOf(p) = i
  <2> SUFFICES ASSUME NEW p \in Findings, p \in FindsOf(i) PROVE finds[p].room # Nowhere /\ HomeOf(p) = i
    OBVIOUS
  <2>1. finds[p].room \in RoomsOf(i) /\ RoomsOf(i) \subseteq Rooms
    BY DEF FindsOf, FindsIn, RoomsOf, RoomsOn
  <2> QED
    BY <2>1, RoomsOfAre, InspConstants DEF HomeOf
<1>4. InspTypeOK' /\ SentIsLogged' /\ InPlace' /\ RaisedOnce' /\ KeptOrRecorded' /\ DeskSays'
  BY <1>1, <1>2 DEF InspInv, InspTypeOK, SentIsLogged, InPlace, RaisedOnce, HomeOf, KeptOrRecorded, DeskSays, Sent
<1>5. SentFirst'
  BY <1>1, <1>2, <1>3 DEF InspInv, SentFirst, Sent
<1>6. RaisesItsOwn'
  BY <1>1, <1>2, <1>3 DEF RaisesItsOwn, HomeOf
<1> QED
  BY <1>4, <1>5, <1>6 DEF InspInv

\* What a merge does to places and links goes together.
LEMMA MergeKeeps ==
  ASSUME InspInv, NEW S \in SUBSET Insps, NEW t \in Insps, MergeInspections(S, t) PROVE InspInv'
<1>1. /\ insp[t].status = "none" /\ \A i \in S : insp[i].status = "draft"
      /\ insp' = [i \in Insps |-> IF i = t THEN [NoInsp EXCEPT !.status = "draft"]
                                  ELSE IF i \in S THEN [status |-> "merged", into |-> t] ELSE insp[i]]
      /\ levels' = MergedLevels(S, t) /\ links' = MovedLinks(S, t)
      /\ rooms' = [r \in Rooms |-> IF r \in UNION {RoomsOf(i) : i \in S} THEN <<t, rooms[r][2]>> ELSE rooms[r]]
      /\ UNCHANGED <<finds, oplog, queued, recorded, wiped, made, desk>>
  BY DEF MergeInspections, Is
<1>2. \A r \in Rooms : rooms[r] \in (Insps \X LevelNames) \cup {Nowhere}
  BY InspTypes
<1>3. \A r \in Rooms : rooms'[r] = IF rooms[r] # Nowhere /\ rooms[r][1] \in S THEN <<t, rooms[r][2]>> ELSE rooms[r]
  <2> SUFFICES ASSUME NEW r \in Rooms
               PROVE  r \in UNION {RoomsOf(i) : i \in S} <=> rooms[r] # Nowhere /\ rooms[r][1] \in S
    BY <1>1
  <2>1. \A i \in S : r \in RoomsOf(i) <=> rooms[r] # Nowhere /\ rooms[r][1] = i
    BY RoomsOfAre
  <2> QED
    BY <2>1
<1>4. \A r \in Rooms : rooms[r] # Nowhere /\ rooms[r][1] \in S => <<t, rooms[r][2]>> \in Insps \X LevelNames
  BY <1>2
<1>5. rooms' \in [Rooms -> (Insps \X LevelNames) \cup {Nowhere}]
  BY <1>1, <1>2, <1>3, <1>4
<1>6. levels' \subseteq Insps \X LevelNames
  BY <1>1, InspTypes DEF MergedLevels
<1>7. \A r \in Rooms : rooms'[r] # Nowhere => rooms[r] # Nowhere /\ rooms'[r] \in levels'
  BY <1>1, <1>3, <1>4, InspTypes DEF MergedLevels
<1>8. \A r \in Rooms : rooms[r] # Nowhere => rooms'[r] # Nowhere
  BY <1>3, <1>4, InspConstants
<1>9. \A i \in Insps : insp'[i].status = IF i = t THEN "draft" ELSE IF i \in S THEN "merged" ELSE insp[i].status
  BY <1>1 DEF NoInsp
<1>10. InspTypeOK'
  BY <1>1, <1>5, <1>6 DEF InspInv, InspTypeOK
<1>11. SentIsLogged'
  <2>1. \A i \in Insps : insp[i].status = "gone" => insp'[i] = insp[i]
    BY <1>1
  <2> QED
    BY <1>1, <2>1 DEF InspInv, SentIsLogged
<1>12. SentFirst' /\ KeptOrRecorded' /\ DeskSays'
  BY <1>1, <1>7 DEF InspInv, SentFirst, KeptOrRecorded, DeskSays, Sent
<1>13. InPlace'
  BY <1>1, <1>7, <1>8, InspTypes DEF InPlace
<1>14. RaisedOnce'
  <2> SUFFICES ASSUME NEW p \in Findings, finds'[p].room # Nowhere, made'[p] > 0
               PROVE  made'[p] = 1 /\ <<rooms'[finds'[p].room][1], p>> \in links'
    BY DEF RaisedOnce, HomeOf
  <2>1. finds[p].room # Nowhere /\ made[p] = 1 /\ <<rooms[finds[p].room][1], p>> \in links
    BY <1>1 DEF InspInv, RaisedOnce, HomeOf
  <2>2. finds[p].room \in Rooms /\ rooms[finds[p].room] # Nowhere
    BY <2>1, InspTypes
  <2> DEFINE h == rooms[finds[p].room][1]
  <2>3. <<h, p>>[1] = h /\ <<h, p>>[2] = p
    OBVIOUS
  <2>4. CASE h \in S
    <3>0. rooms'[finds[p].room] = <<t, rooms[finds[p].room][2]>>
      BY <1>3, <2>2, <2>4
    <3>1. rooms'[finds[p].room][1] = t
      BY <3>0
    <3>2. <<t, p>> \in links'
      BY <1>1, <2>1, <2>3, <2>4 DEF MovedLinks
    <3> QED
      BY <1>1, <2>1, <3>1, <3>2
  <2>5. CASE h \notin S
    <3>1. rooms'[finds[p].room][1] = h
      BY <1>3, <2>2, <2>5
    <3>2. <<h, p>> \in links'
      BY <1>1, <2>1, <2>3, <2>5 DEF MovedLinks
    <3> QED
      BY <1>1, <2>1, <3>1, <3>2
  <2> QED
    BY <2>4, <2>5
<1>15. RaisesItsOwn'
  <2> SUFFICES ASSUME desk.pc = "raise"
               PROVE  /\ desk.insp \in Insps /\ insp'[desk.insp].status \in {"draft", "complete", "merged"}
                      /\ insp'[desk.insp].status # "merged" =>
                           \A p \in Findings : p \in desk.index /\ finds[p].room # Nowhere =>
                              rooms'[finds[p].room][1] = desk.insp
    BY <1>1 DEF RaisesItsOwn, HomeOf
  <2>1. /\ desk.insp \in Insps /\ insp[desk.insp].status \in {"draft", "complete", "merged"}
        /\ insp[desk.insp].status # "merged" =>
             \A p \in Findings : p \in desk.index /\ finds[p].room # Nowhere => rooms[finds[p].room][1] = desk.insp
    BY DEF InspInv, RaisesItsOwn, HomeOf
  <2>2. desk.insp # t
    BY <1>1, <2>1
  <2>3. insp'[desk.insp].status \in {"draft", "complete", "merged"}
    BY <1>9, <2>1, <2>2
  <2>4. ASSUME insp'[desk.insp].status # "merged", NEW p \in Findings, p \in desk.index, finds[p].room # Nowhere
        PROVE  rooms'[finds[p].room][1] = desk.insp
    <3>1. desk.insp \notin S /\ insp[desk.insp].status # "merged"
      BY <1>9, <2>1, <2>2, <2>4
    <3>2. rooms[finds[p].room][1] = desk.insp /\ finds[p].room \in Rooms
      BY <2>1, <2>4, <3>1, InspTypes
    <3> QED
      BY <1>3, <3>1, <3>2
  <2> QED
    BY <2>1, <2>3, <2>4
<1> QED
  BY <1>10, <1>11, <1>12, <1>13, <1>14, <1>15 DEF InspInv

\* A deleted inspection takes its rooms, findings and links, and what was merged into it comes back empty.
LEMMA DeleteKeeps == ASSUME InspInv, DeleteInspection PROVE InspInv'
<1>1. PICK i \in Insps : i = desk.insp
  BY DEF InspInv, DeskSays, DeleteInspection
<1> DEFINE R == RoomsOf(i)
<1>2. /\ insp' = [j \in Insps |-> IF j = i THEN [NoInsp EXCEPT !.status = "gone"]
                                  ELSE IF insp[j].into = i THEN [NoInsp EXCEPT !.status = "draft"] ELSE insp[j]]
      /\ levels' = {l \in levels : l[1] # i}
      /\ rooms' = [r \in Rooms |-> IF r \in R THEN Nowhere ELSE rooms[r]]
      /\ finds' = [p \in Findings |-> IF p \in FindsIn(R) THEN NoFind ELSE finds[p]]
      /\ wiped' = wiped \cup FindsIn(R)
      /\ oplog' = {e \in oplog : e[2] # i}
      /\ links' = {k \in links : k[1] # i}
      /\ desk' = DeskIdle /\ UNCHANGED <<queued, recorded, made>>
  BY <1>1 DEF DeleteInspection
<1>3. \A r \in Rooms : r \in R <=> rooms[r] # Nowhere /\ rooms[r][1] = i
  BY RoomsOfAre
<1>4. R \subseteq Rooms
  BY DEF RoomsOf, RoomsOn
<1> HIDE DEF R
<1>5. NoFind \in [room : Rooms \cup {Nowhere}, photo : BOOLEAN] /\ NoFind.room = Nowhere
  BY DEF NoFind
<1>6. /\ \A r \in Rooms : rooms'[r] = IF r \in R THEN Nowhere ELSE rooms[r]
      /\ \A p \in Findings : finds'[p] = IF finds[p].room \in R THEN NoFind ELSE finds[p]
      /\ rooms' \in [Rooms -> (Insps \X LevelNames) \cup {Nowhere}]
      /\ finds' \in [Findings -> [room : Rooms \cup {Nowhere}, photo : BOOLEAN]]
      /\ levels' \subseteq Insps \X LevelNames
  BY <1>2, <1>5, InspTypes DEF FindsIn
<1>7. \A p \in Findings : finds'[p].room # Nowhere =>
        /\ finds[p].room # Nowhere /\ finds'[p] = finds[p]
        /\ rooms'[finds'[p].room] = rooms[finds[p].room] /\ HomeOf(p) # i
  BY <1>3, <1>5, <1>6, InspTypes DEF HomeOf
<1>8. InspTypeOK'
  BY <1>2, <1>6 DEF InspInv, InspTypeOK
<1>9. SentIsLogged'
  <2> SUFFICES ASSUME NEW j \in Insps, NEW op, <<op, j>> \in queued
               PROVE  <<op, j>> \in oplog' \/ (insp'[j].status = "gone" /\ insp'[j].into = Nowhere)
    BY <1>2 DEF SentIsLogged
  <2>1. <<op, j>> \in oplog \/ (insp[j].status = "gone" /\ insp[j].into = Nowhere)
    BY DEF InspInv, SentIsLogged
  <2>2. CASE j = i
    BY <1>2, <2>2 DEF NoInsp
  <2>3. CASE j # i /\ <<op, j>> \in oplog
    BY <1>2, <2>3
  <2>4. CASE j # i /\ insp[j].status = "gone" /\ insp[j].into = Nowhere
    <3>1. insp[j].into # i
      BY <2>4, InspConstants
    <3> QED
      BY <1>2, <2>4, <3>1
  <2> QED
    BY <2>1, <2>2, <2>3, <2>4
<1>10. SentFirst'
  <2>1. desk'.index = {}
    BY <1>2 DEF DeskIdle
  <2> QED
    BY <1>2, <1>6, <1>7, <2>1 DEF InspInv, SentFirst, Sent
<1>11. InPlace'
  <2>1. \A r \in Rooms : rooms'[r] # Nowhere => rooms'[r] \in levels'
    BY <1>2, <1>3, <1>6, InspTypes
  <2> QED
    BY <1>7, <2>1, InspTypes DEF InPlace
<1>12. RaisedOnce'
  <2> SUFFICES ASSUME NEW p \in Findings, finds'[p].room # Nowhere, made'[p] > 0
               PROVE  made'[p] = 1 /\ <<rooms'[finds'[p].room][1], p>> \in links'
    BY DEF RaisedOnce, HomeOf
  <2>1. /\ finds[p].room # Nowhere /\ rooms'[finds'[p].room][1] = HomeOf(p) /\ HomeOf(p) # i
        /\ made[p] = 1 /\ <<HomeOf(p), p>> \in links
    BY <1>2, <1>7 DEF InspInv, RaisedOnce, HomeOf
  <2> QED
    BY <1>2, <2>1
<1>13. RaisesItsOwn' /\ DeskSays'
  <2>1. desk'.pc = "idle"
    BY <1>2 DEF DeskIdle
  <2> QED
    BY <2>1 DEF RaisesItsOwn, DeskSays
<1>14. KeptOrRecorded'
  <2> SUFFICES ASSUME NEW p \in Findings, Sent(AddPointOf(p))
               PROVE  finds'[p].room # Nowhere \/ p \in recorded' \cup wiped'
    BY <1>2 DEF KeptOrRecorded, Sent
  <2>1. finds[p].room # Nowhere \/ p \in recorded \cup wiped
    BY DEF InspInv, KeptOrRecorded
  <2> QED
    BY <1>2, <1>6, <2>1 DEF FindsIn
<1> QED
  BY <1>8, <1>9, <1>10, <1>11, <1>12, <1>13, <1>14 DEF InspInv

\* One job per finding: the link is looked for under the lock, where the finding still is.
LEMMA RaiseKeeps == ASSUME InspInv, RaiseJobsFromInspection PROVE InspInv'
<1>1. /\ desk.pc = "raise" /\ desk' = DeskIdle
      /\ UNCHANGED <<insp, levels, rooms, finds, oplog, queued, recorded, wiped>>
  BY DEF RaiseJobsFromInspection
<1>2. PICK new \in SUBSET desk.index :
        /\ new = {} \/ (insp[desk.insp].status = "complete" /\ new \cap RaisedHere(desk.insp) = {})
        /\ links' = links \cup {<<desk.insp, p>> : p \in new}
        /\ made' = [p \in Findings |-> IF p \in new THEN made[p] + 1 ELSE made[p]]
  <2>1. CASE Is(desk.insp, "complete")
    <3>1. PICK P \in (SUBSET desk.index) \ {{}} :
            /\ links' = links \cup {<<desk.insp, p>> : p \in P \ RaisedHere(desk.insp)}
            /\ made' = [p \in Findings |-> IF p \in P \ RaisedHere(desk.insp) THEN made[p] + 1 ELSE made[p]]
      BY <2>1 DEF RaiseJobsFromInspection
    <3>2. /\ P \ RaisedHere(desk.insp) \in SUBSET desk.index
          /\ (P \ RaisedHere(desk.insp)) \cap RaisedHere(desk.insp) = {}
      BY <3>1
    <3>3. insp[desk.insp].status = "complete"
      BY <2>1 DEF Is
    <3>4. PICK n \in SUBSET desk.index : n = P \ RaisedHere(desk.insp)
      BY <3>2
    <3>5. links' = links \cup {<<desk.insp, p>> : p \in n}
      BY <3>1, <3>4
    <3>6. made' = [p \in Findings |-> IF p \in n THEN made[p] + 1 ELSE made[p]]
      BY <3>1, <3>4
    <3>7. insp[desk.insp].status = "complete" /\ n \cap RaisedHere(desk.insp) = {}
      BY <3>2, <3>3, <3>4
    <3> QED
      BY <3>5, <3>6, <3>7, Zenon
  <2>2. CASE ~Is(desk.insp, "complete")
    <3>1. UNCHANGED <<links, made>>
      BY <2>2 DEF RaiseJobsFromInspection
    <3>2. made = [p \in Findings |-> made[p]]
      BY InspTypes
    <3>3. links' = links \cup {<<desk.insp, p>> : p \in {}} /\ made' = [p \in Findings |-> IF p \in {} THEN made[p] + 1 ELSE made[p]]
      BY <3>1, <3>2
    <3>4. PICK n \in SUBSET desk.index : n = {}
      OBVIOUS
    <3>5. /\ links' = links \cup {<<desk.insp, p>> : p \in n}
          /\ made' = [p \in Findings |-> IF p \in n THEN made[p] + 1 ELSE made[p]]
      BY <3>3, <3>4
    <3> QED
      BY <3>4, <3>5, Zenon
  <2> QED
    BY <2>1, <2>2
<1>3. \A p \in Findings : made[p] \in Nat /\ made'[p] = IF p \in new THEN made[p] + 1 ELSE made[p]
  BY <1>2, InspTypes
<1>4. made' \in [Findings -> Nat]
  BY <1>2, <1>3
<1>5. desk'.pc = "idle" /\ desk'.index = {}
  BY <1>1 DEF DeskIdle
<1>6. InspTypeOK' /\ SentIsLogged' /\ InPlace' /\ KeptOrRecorded' /\ DeskSays' /\ RaisesItsOwn'
  BY <1>1, <1>4, <1>5 DEF InspInv, InspTypeOK, SentIsLogged, InPlace, KeptOrRecorded, DeskSays, RaisesItsOwn, Sent
<1>7. SentFirst'
  BY <1>1, <1>2, <1>3, <1>5 DEF InspInv, SentFirst, Sent
<1>8. RaisedOnce'
  <2> SUFFICES ASSUME NEW p \in Findings, finds[p].room # Nowhere, made'[p] > 0
               PROVE  made'[p] = 1 /\ <<HomeOf(p), p>> \in links'
    BY <1>1 DEF RaisedOnce, HomeOf
  <2>1. CASE p \notin new
    BY <1>2, <1>3, <2>1 DEF InspInv, RaisedOnce
  <2>2. CASE p \in new
    <3>1. insp[desk.insp].status = "complete" /\ p \notin RaisedHere(desk.insp) /\ p \in desk.index
      BY <1>2, <2>2
    <3>2. HomeOf(p) = desk.insp
      BY <1>1, <3>1 DEF InspInv, RaisesItsOwn
    <3>3. <<desk.insp, p>> \notin links
      <4>1. <<desk.insp, p>>[1] = desk.insp /\ <<desk.insp, p>>[2] = p
        OBVIOUS
      <4> QED
        BY <3>1, <4>1 DEF RaisedHere
    <3>4. made[p] = 0
      BY <1>3, <3>2, <3>3 DEF InspInv, RaisedOnce
    <3> QED
      BY <1>2, <1>3, <2>2, <3>2, <3>4
  <2> QED
    BY <2>1, <2>2
<1> QED
  BY <1>6, <1>7, <1>8 DEF InspInv

LEMMA InspStep == InspInv /\ [InspNext]_inspVars => InspInv'
<1> SUFFICES ASSUME InspInv, [InspNext]_inspVars PROVE InspInv'
  OBVIOUS
<1>1. CASE UNCHANGED inspVars
  <2>1. UNCHANGED <<insp, levels, rooms, finds, oplog, queued, recorded, wiped, links, made, desk>>
    BY <1>1 DEF inspVars
  <2> QED
    BY <2>1 DEF InspInv, InspTypeOK, SentIsLogged, SentFirst, InPlace, RaisedOnce, HomeOf, RaisesItsOwn,
       KeptOrRecorded, DeskSays, Sent
<1> QED
  BY <1>1, StatusKeeps, ReadsKeep, LevelsKeep, AddRoomKeeps, RemoveRoomKeeps, AddPointKeeps, LinkKeeps,
     PointsKeep, MergeKeeps, DeleteKeeps, RaiseKeeps DEF InspNext

(* A finding that was taken down is in its inspection or in the ledger of removals, and *)
(* one that is on record is raised as one job at most, for any inspections, merges and  *)
(* replays of the phones' queues (applyOne, mergeInspections, raiseJobsFromInspection). *)
THEOREM FindingsStayKept == InspSpec => []FindingsAreKept
BY FindingsAgree, InspStart, InspStep, PTL DEF InspSpec

-----------------------------------------------------------------------------
(* RentReviews: what is settled was settled by right.                      *)

\* The fields of a row.  A rent is a sum by fold, of which nothing is known here, so
\* the rows are described by their fields and not by sets of values.
IsStep(x) == x = [set |-> x.set, by |-> x.by, rate |-> x.rate, end |-> x.end]

IsCalc(x) == x = [base |-> x.base, rate |-> x.rate, chosen |-> x.chosen, fresh |-> x.fresh,
                  keyed |-> x.keyed, waives |-> x.waives]

IsRecord(x) == x = [was |-> x.was, now |-> x.now, last |-> x.last, lastAfter |-> x.lastAfter,
                    cache |-> x.cache, cacheWas |-> x.cacheWas]

IsReview(x) ==
  /\ x = [state |-> x.state, date |-> x.date, owner |-> x.owner, basis |-> x.basis, calc |-> x.calc,
          prepared |-> x.prepared, editors |-> x.editors, rung |-> x.rung, approver |-> x.approver,
          record |-> x.record]
  /\ IsCalc(x.calc) /\ IsRecord(x.record)

IsSchedule(sched) == sched = [d \in 0..MaxDate |-> sched[d]] /\ \A d \in 0..MaxDate : IsStep(sched[d])

ReviewsAreRows == reviews = [r \in Reviews |-> reviews[r]] /\ \A r \in Reviews : IsReview(reviews[r])

SettledStates == {"approved", "waived"}
SettledSets == {"applied", "waived"}

\* What a reversal would put back settles nothing that is not settled: at its own date
\* there was an open row or none, and elsewhere only the end of a row was moved.
PutsBack(state, date, was, now) ==
  state = "approved" =>
    /\ DOMAIN was = DOMAIN now
    /\ date \in Dates => date \in DOMAIN now
    /\ \A d \in DOMAIN now : IsStep(was[d])
    /\ \A d \in DOMAIN now \cap Dates :
         IF d = date THEN was[d].set \notin SettledSets
                     ELSE was[d].set = now[d].set /\ was[d].by = now[d].by

RecordPutsBack(r) ==
  PutsBack(reviews[r].state, reviews[r].date, reviews[r].record.was, reviews[r].record.now)

RentInv ==
  /\ ReviewsAreRows /\ IsSchedule(steps)
  /\ \A r \in Reviews : RecordPutsBack(r)
  /\ SettledByRight

LEMMA RentStart == RentInit => RentInv
<1> SUFFICES ASSUME RentInit PROVE RentInv
  OBVIOUS
<1>1. IsStep(NoStep) /\ NoStep.set = "none"
  BY DEF IsStep, NoStep
<1>2. IsReview(NoRow) /\ NoRow.state = "none"
  BY DEF IsReview, IsCalc, IsRecord, NoRow, NoCalc, NoRecord
<1>3. IsSchedule(steps) /\ \A d \in 0..MaxDate : steps[d] = NoStep
  BY <1>1 DEF RentInit, IsSchedule
<1>4. ReviewsAreRows /\ \A r \in Reviews : reviews[r] = NoRow
  BY <1>2 DEF RentInit, ReviewsAreRows
<1>5. Dates \subseteq 0..MaxDate
  BY RentReviewConstants DEF Dates
<1> QED
  BY <1>1, <1>2, <1>3, <1>4, <1>5
     DEF RentInv, RecordPutsBack, PutsBack, SettledByRight, SettledRowHasItsReview, CutsAreADirectors, Settled

\* Where nothing is newly settled and no review enters or leaves a settled state, all stands.
Quiet(s) == reviews[s].state \notin SettledStates /\ reviews'[s].state \notin SettledStates

Stands(s) ==
  /\ reviews'[s].state = reviews[s].state /\ reviews'[s].date = reviews[s].date
  /\ reviews'[s].record.was = reviews[s].record.was /\ reviews'[s].record.now = reviews[s].record.now
  /\ reviews'[s].record.last = reviews[s].record.last
  /\ reviews'[s].calc.chosen = reviews[s].calc.chosen /\ reviews'[s].approver = reviews[s].approver
  /\ reviews'[s].calc.rate = reviews[s].calc.rate /\ reviews'[s].calc.base = reviews[s].calc.base
  /\ reviews'[s].calc.fresh => reviews[s].calc.fresh

LEMMA QuietKeeps ==
  ASSUME RentInv, ReviewsAreRows', IsSchedule(steps)',
         \A s \in Reviews : Quiet(s) \/ Stands(s),
         \A d \in Dates : Settled(steps', d) => steps'[d].set = steps[d].set /\ steps'[d].by = steps[d].by
  PROVE  RentInv'
<1>1. \A r \in Reviews : RecordPutsBack(r)'
  <2> SUFFICES ASSUME NEW r \in Reviews PROVE RecordPutsBack(r)'
    OBVIOUS
  <2>1. CASE Quiet(r)
    BY <2>1 DEF RecordPutsBack, PutsBack, Quiet, SettledStates
  <2>2. CASE Stands(r)
    BY <2>2 DEF RentInv, RecordPutsBack, Stands
  <2> QED
    BY <2>1, <2>2
<1>2. SettledRowHasItsReview'
  <2> SUFFICES ASSUME NEW d \in Dates, Settled(steps', d)
               PROVE  /\ steps'[d].by \in Reviews /\ reviews'[steps'[d].by].date = d
                      /\ reviews'[steps'[d].by].state = IF steps'[d].set = "waived" THEN "waived" ELSE "approved"
    BY DEF SettledRowHasItsReview, Settled
  <2>1. Settled(steps, d) /\ steps'[d].set = steps[d].set /\ steps'[d].by = steps[d].by
    BY DEF Settled
  <2>2. /\ steps[d].by \in Reviews /\ reviews[steps[d].by].date = d
        /\ reviews[steps[d].by].state = IF steps[d].set = "waived" THEN "waived" ELSE "approved"
    BY <2>1 DEF RentInv, SettledByRight, SettledRowHasItsReview
  <2>3. Stands(steps[d].by)
    BY <2>2 DEF Quiet, SettledStates
  <2> QED
    BY <2>1, <2>2, <2>3 DEF Stands
<1>3. CutsAreADirectors'
  <2> SUFFICES ASSUME NEW r \in Reviews, reviews'[r].state = "approved", reviews'[r].calc.chosen < 0
               PROVE  Director(reviews'[r].approver)
    BY DEF CutsAreADirectors, Director
  <2>1. Stands(r)
    BY DEF Quiet, SettledStates
  <2> QED
    BY <2>1 DEF Stands, RentInv, SettledByRight, CutsAreADirectors
<1> QED
  BY <1>1, <1>2, <1>3 DEF RentInv, SettledByRight

\* A placed row settles what it says; of the other rows only an end moves.
LEMMA PlacedRow ==
  ASSUME NEW sched, NEW d, NEW row, IsSchedule(sched), IsStep(row)
  PROVE  /\ IsSchedule(PlaceStep(sched, d, row))
         /\ \A e \in 0..MaxDate :
              /\ PlaceStep(sched, d, row)[e].set = IF e = d THEN row.set ELSE sched[e].set
              /\ PlaceStep(sched, d, row)[e].by = IF e = d THEN row.by ELSE sched[e].by
              /\ PlaceStep(sched, d, row)[e].rate = IF e = d THEN row.rate ELSE sched[e].rate
<1> DEFINE EndedAt(x, v) == [x EXCEPT !.end = v]
<1>0. \A x, v : IsStep(x) =>
        /\ IsStep(EndedAt(x, v))
        /\ EndedAt(x, v).set = x.set /\ EndedAt(x, v).by = x.by /\ EndedAt(x, v).rate = x.rate
  BY DEF IsStep
<1> DEFINE later == {e \in Dates : e > d /\ Exists(sched, e)}
           before == Max({e \in 0..MaxDate : e < d /\ Exists(sched, e)})
           ended == IF later = {} THEN 0 ELSE Min(later)
<1>1. CASE Exists(sched, d)
  <2> DEFINE after == [sched EXCEPT ![d] = [row EXCEPT !.end = sched[d].end]]
  <2>1. PlaceStep(sched, d, row) = after
    BY <1>1 DEF PlaceStep
  <2>2. \A e \in 0..MaxDate : after[e] = IF e = d THEN EndedAt(row, sched[d].end) ELSE sched[e]
    BY DEF IsSchedule
  <2>3. after = [e \in 0..MaxDate |-> after[e]]
    BY DEF IsSchedule
  <2> HIDE DEF after, EndedAt
  <2>4. \A e \in 0..MaxDate : /\ IsStep(after[e])
                              /\ after[e].set = IF e = d THEN row.set ELSE sched[e].set
                              /\ after[e].by = IF e = d THEN row.by ELSE sched[e].by
                              /\ after[e].rate = IF e = d THEN row.rate ELSE sched[e].rate
    BY <1>0, <2>2 DEF IsSchedule
  <2>5. IsSchedule(after)
    BY <2>3, <2>4 DEF IsSchedule
  <2> QED
    BY <2>1, <2>4, <2>5
<1>2. CASE ~Exists(sched, d)
  <2> DEFINE moved == IF sched[before].end = 0 THEN d ELSE sched[before].end
             mid == [sched EXCEPT ![d] = [row EXCEPT !.end = ended]]
             after == [sched EXCEPT ![d] = [row EXCEPT !.end = ended], ![before].end = IF @ = 0 THEN d ELSE @]
  <2>1. PlaceStep(sched, d, row) = after
    BY <1>2, Zenon DEF PlaceStep
  <2>2. after = [mid EXCEPT ![before].end = moved]
    OBVIOUS
  <2> HIDE DEF later, before, ended, moved, after
  <2>3. \A e \in 0..MaxDate : mid[e] = IF e = d THEN EndedAt(row, ended) ELSE sched[e]
    BY DEF IsSchedule
  <2>4. mid = [e \in 0..MaxDate |-> mid[e]]
    BY DEF IsSchedule
  <2> HIDE DEF mid, EndedAt
  <2>5. \A e \in 0..MaxDate : /\ IsStep(mid[e])
                              /\ mid[e].set = IF e = d THEN row.set ELSE sched[e].set
                              /\ mid[e].by = IF e = d THEN row.by ELSE sched[e].by
                              /\ mid[e].rate = IF e = d THEN row.rate ELSE sched[e].rate
    BY <1>0, <2>3 DEF IsSchedule
  <2>6. after = [e \in 0..MaxDate |-> after[e]]
    BY <2>2, <2>4
  <2>7. \A e \in 0..MaxDate : after[e] = IF e = before THEN EndedAt(mid[e], moved) ELSE mid[e]
    BY <2>2, <2>4 DEF EndedAt
  <2>8. \A e \in 0..MaxDate : /\ IsStep(after[e])
                              /\ after[e].set = IF e = d THEN row.set ELSE sched[e].set
                              /\ after[e].by = IF e = d THEN row.by ELSE sched[e].by
                              /\ after[e].rate = IF e = d THEN row.rate ELSE sched[e].rate
    BY <1>0, <2>5, <2>7
  <2>9. IsSchedule(after)
    BY <2>6, <2>8 DEF IsSchedule
  <2> QED
    BY <2>1, <2>8, <2>9
<1> QED
  BY <1>1, <1>2

\* A review that is neither approved nor waived may move among the other states.
LEMMA OpenRowKeeps ==
  ASSUME RentInv, NEW r \in Reviews, NEW row, UNCHANGED steps, SetReview(r, row), IsReview(row),
         reviews[r].state \notin SettledStates, row.state \notin SettledStates
  PROVE  RentInv'
<1>1. reviews' = [s \in Reviews |-> reviews'[s]] /\ \A s \in Reviews : reviews'[s] = IF s = r THEN row ELSE reviews[s]
  BY DEF SetReview, RentInv, ReviewsAreRows
<1>2. ReviewsAreRows'
  BY <1>1 DEF RentInv, ReviewsAreRows
<1>3. \A s \in Reviews : Quiet(s) \/ Stands(s)
  BY <1>1 DEF Quiet, Stands
<1>4. IsSchedule(steps)'
  BY DEF RentInv
<1> QED
  BY <1>2, <1>3, <1>4, QuietKeeps DEF Settled

LEMMA NothingMoves == ASSUME RentInv, UNCHANGED <<reviews, steps>> PROVE RentInv'
BY DEF RentInv, ReviewsAreRows, RecordPutsBack, SettledByRight, SettledRowHasItsReview, CutsAreADirectors,
   Settled, Director

\* The rows the planner makes and opens.
LEMMA PlannerKeeps == ASSUME RentInv, PlannerStep PROVE RentInv'
<1>1. PICK p \in Planners : PlanReads(p) \/ PlanActs(p) \/ ScheduleNext(p) \/ OpenWindow(p) \/ PlanIsLost(p)
  BY DEF PlannerStep
<1>2. CASE PlanReads(p) \/ PlanActs(p) \/ PlanIsLost(p)
  BY <1>2, NothingMoves DEF PlanReads, PlanActs, PlanIsLost
<1>3. CASE ScheduleNext(p)
  <2>1. CASE UNCHANGED reviews
    BY <1>3, <2>1, NothingMoves DEF ScheduleNext
  <2>2. CASE ~UNCHANGED reviews
    <3>1. PICK r \in Reviews :
            /\ reviews[r].state = "none"
            /\ SetReview(r, [NoRow EXCEPT !.state = "scheduled", !.date = plans[p].date])
      BY <1>3, <2>2 DEF ScheduleNext
    <3>2. PICK row : row = [NoRow EXCEPT !.state = "scheduled", !.date = plans[p].date]
      OBVIOUS
    <3>3. IsReview(row) /\ row.state = "scheduled"
      BY <3>2 DEF IsReview, IsCalc, IsRecord, NoRow, NoCalc, NoRecord
    <3>4. SetReview(r, row) /\ UNCHANGED steps
      BY <1>3, <3>1, <3>2 DEF ScheduleNext
    <3> QED
      BY <3>1, <3>3, <3>4, OpenRowKeeps DEF SettledStates
  <2> QED
    BY <2>1, <2>2
<1>4. CASE OpenWindow(p)
  <2>1. CASE plans[p].review \in Reviews /\ reviews[plans[p].review].state = "scheduled"
    <3>1. PICK r \in Reviews : r = plans[p].review
      BY <2>1
    <3>2. PICK row : row = [reviews[r] EXCEPT !.state = "due"]
      OBVIOUS
    <3>3. SetReview(r, row) /\ UNCHANGED steps
      BY <1>4, <2>1, <3>1, <3>2 DEF OpenWindow, SetReview
    <3>4. IsReview(row) /\ row.state = "due"
      BY <3>2 DEF IsReview, RentInv, ReviewsAreRows
    <3> QED
      BY <2>1, <3>1, <3>3, <3>4, OpenRowKeeps DEF SettledStates
  <2>2. CASE ~(plans[p].review \in Reviews /\ reviews[plans[p].review].state = "scheduled")
    <3>1. \A r \in Reviews : reviews[r] = [reviews[r] EXCEPT !.state = reviews[r].state]
      BY DEF IsReview, RentInv, ReviewsAreRows
    <3>2. reviews = [r \in Reviews |-> reviews[r]]
      BY DEF RentInv, ReviewsAreRows
    <3>3. UNCHANGED <<reviews, steps>>
      BY <1>4, <2>2, <3>1, <3>2 DEF OpenWindow
    <3> QED
      BY <3>3, NothingMoves
  <2> QED
    BY <2>1, <2>2
<1> QED
  BY <1>1, <1>2, <1>3, <1>4

\* The figures of a calculation count dollars.
CalcCounts(c) == c.rate \in Int /\ c.chosen \in Int

\* A calculation that review r has next: its figures count if those of the last one did, and
\* where it is fresh its base is that one's, or what the schedule says now.
CalcStands(c, r) ==
  /\ CalcCounts(reviews[r].calc) => CalcCounts(c)
  /\ c.fresh => \/ reviews[r].calc.fresh /\ c.base = reviews[r].calc.base
                \/ c.base = RentAt(steps, reviews[r].date - 1)

\* The row of a review at work, after a step that leaves it at work or cancels it.
UnsettledStates == OpenStates \cup {"cancelled"}
OpenRow(r, row) ==
  /\ UNCHANGED steps /\ SetReview(r, row) /\ IsReview(row)
  /\ reviews[r].state \in OpenStates /\ row.state \in UnsettledStates
  /\ row.date = reviews[r].date /\ CalcStands(row.calc, r)

\* A review that goes on: it may get a date of the lease, and a calculation that stands.
Works(s) ==
  /\ reviews'[s].state # "approved"
  /\ \/ /\ reviews'[s].date = reviews[s].date
        /\ reviews[s].state = "none" => reviews'[s].state = "none"
     \/ reviews'[s].date \in Dates /\ ~reviews'[s].calc.fresh
  /\ CalcStands(reviews'[s].calc, s)

LEMMA OpenRowStays == ASSUME RentInv, NEW r \in Reviews, NEW row, OpenRow(r, row) PROVE RentInv'
BY OpenRowKeeps DEF OpenRow, SettledStates, OpenStates, UnsettledStates

\* The rows that the handlers write have every field of a review.
LEMMA CalculatedFits ==
  ASSUME NEW v, NEW r, NEW rate \in Rates
  PROVE  IsCalc(Calculated(v, r, rate)) /\ CalcStands(Calculated(v, r, rate), r)
<1>1. PICK y, base : y = Calculated(v, r, rate) /\ base = RentAt(steps, reviews[r].date - 1)
  OBVIOUS
<1>2. IsCalc(y) /\ y.rate = rate /\ y.chosen = rate /\ y.base = base
  BY <1>1 DEF Calculated, NoCalc, IsCalc
<1>3. rate \in Int
  BY RentReviewConstants
<1> QED
  BY <1>1, <1>2, <1>3 DEF CalcStands, CalcCounts

LEMMA CalcFits ==
  ASSUME NEW x, NEW v, NEW w, IsReview(x), IsCalc(w)
  PROVE  /\ IsReview([x EXCEPT !.state = v, !.calc = w])
         /\ [x EXCEPT !.state = v, !.calc = w].date = x.date
<1>1. PICK y : y = [x EXCEPT !.state = v, !.calc = w]
  OBVIOUS
<1>2. y = [state |-> v, date |-> x.date, owner |-> x.owner, basis |-> x.basis, calc |-> w, prepared |-> x.prepared,
           editors |-> x.editors, rung |-> x.rung, approver |-> x.approver, record |-> x.record]
  BY <1>1 DEF IsReview
<1> QED
  BY <1>1, <1>2 DEF IsReview

LEMMA OverFits ==
  ASSUME NEW state, NEW x
  PROVE  /\ IsReview(Over(state, x)) /\ Over(state, x).state = state /\ Over(state, x).date = x.date
         /\ Over(state, x).calc = NoCalc
<1>1. PICK y : y = Over(state, x)
  OBVIOUS
<1>2. y = [state |-> state, date |-> x.date, owner |-> NoUser, basis |-> LeaseBasis, calc |-> NoCalc,
           prepared |-> NoUser, editors |-> {}, rung |-> 0, approver |-> NoUser, record |-> NoRecord]
  BY <1>1 DEF Over, NoRow
<1>3. IsCalc(NoCalc) /\ IsRecord(NoRecord)
  BY DEF IsCalc, IsRecord, NoCalc, NoRecord
<1> QED
  BY <1>1, <1>2, <1>3 DEF IsReview

\* Everything done to a review short of settling it.
LEMMA WorkDoes ==
  ASSUME RentInv, NEW r \in Reviews, NEW u,
         \/ CommenceRentReview(u, r) \/ CalculateRentReview(u, r) \/ ReturnRentReview(u, r)
         \/ \E basis \in Bases : UpdateRentReviewBasis(u, r, basis)
         \/ ResumeAwaitingIndex(r) \/ CalculateResumed(r) \/ ApprovalRungRises(r)
         \/ CancelRentReview(u, r)
  PROVE  \E row : OpenRow(r, row)
<1>1. PICK x : x = reviews[r]
  OBVIOUS
<1>2. IsReview(x) /\ IsCalc(x.calc)
  BY <1>1 DEF RentInv, ReviewsAreRows, IsReview
<1>3. IsCalc(NoCalc) /\ CalcStands(NoCalc, r) /\ CalcStands(x.calc, r)
  BY <1>1 DEF IsCalc, NoCalc, CalcStands, CalcCounts
<1>4. ASSUME NEW row, SetReview(r, row), UNCHANGED steps, IsReview(row), x.state \in OpenStates,
             row.state \in UnsettledStates, row.date = x.date, CalcStands(row.calc, r)
      PROVE  \E y : OpenRow(r, y)
  <2>1. OpenRow(r, row)
    BY <1>1, <1>4 DEF OpenRow
  <2> QED
    BY <2>1
<1>5. CASE CommenceRentReview(u, r)
  <2>1. PICK o, b : o = Owner(u) /\ b = LeaseBasis
    OBVIOUS
  <2>2. PICK row : row = [x EXCEPT !.state = "in_progress", !.owner = o, !.basis = b, !.editors = {}]
    OBVIOUS
  <2>3. IsReview(row) /\ row.state = "in_progress" /\ row.date = x.date /\ row.calc = x.calc
    BY <1>2, <2>2 DEF IsReview
  <2>4. SetReview(r, row) /\ UNCHANGED steps /\ x.state \in {"scheduled", "due"}
    BY <1>1, <1>5, <2>1, <2>2 DEF CommenceRentReview
  <2> QED
    BY <1>3, <1>4, <2>3, <2>4 DEF OpenStates, UnsettledStates
<1>6. CASE CalculateRentReview(u, r)
  <2>1. x.state = "in_progress" /\ UNCHANGED steps
    BY <1>1, <1>6 DEF CalculateRentReview
  <2>2. CASE SetReview(r, [reviews[r] EXCEPT !.state = "awaiting_index", !.calc = NoCalc])
    <3>1. PICK row : row = [x EXCEPT !.state = "awaiting_index", !.calc = NoCalc]
      OBVIOUS
    <3>2. IsReview(row) /\ row.state = "awaiting_index" /\ row.date = x.date /\ row.calc = NoCalc
      BY <1>2, <1>3, <3>1, CalcFits DEF IsReview
    <3>3. SetReview(r, row)
      BY <1>1, <2>2, <3>1
    <3> QED
      BY <1>3, <1>4, <2>1, <3>2, <3>3 DEF OpenStates, UnsettledStates
  <2>3. CASE \E rate \in Rates : SetReview(r, [reviews[r] EXCEPT !.calc = Calculated(u, r, rate)])
    <3>1. PICK rate \in Rates : SetReview(r, [reviews[r] EXCEPT !.calc = Calculated(u, r, rate)])
      BY <2>3
    <3>2. PICK c : c = Calculated(u, r, rate)
      OBVIOUS
    <3>3. PICK row : row = [x EXCEPT !.calc = c]
      OBVIOUS
    <3>4. IsReview(row) /\ row.state = x.state /\ row.date = x.date /\ row.calc = c
      BY <1>2, <3>2, <3>3, CalculatedFits DEF IsReview
    <3>5. SetReview(r, row) /\ CalcStands(row.calc, r)
      BY <1>1, <3>1, <3>2, <3>3, <3>4, CalculatedFits
    <3> QED
      BY <1>4, <2>1, <3>4, <3>5 DEF OpenStates, UnsettledStates
  <2> QED
    BY <1>6, <2>2, <2>3 DEF CalculateRentReview
<1>7. CASE ReturnRentReview(u, r)
  <2>1. PICK c : c = [x.calc EXCEPT !.chosen = x.calc.rate, !.waives = {}]
    OBVIOUS
  <2>2. IsCalc(c) /\ CalcStands(c, r)
    <3>1. c.base = x.calc.base /\ c.fresh = x.calc.fresh /\ c.rate = x.calc.rate /\ c.chosen = x.calc.rate /\ IsCalc(c)
      BY <1>2, <2>1 DEF IsCalc
    <3> QED
      BY <1>1, <3>1 DEF CalcStands, CalcCounts
  <2>3. PICK row : row = [x EXCEPT !.state = "in_progress", !.prepared = NoUser, !.rung = 0,
                                   !.calc.chosen = x.calc.rate, !.calc.waives = {}]
    OBVIOUS
  <2>4. row = [x EXCEPT !.state = "in_progress", !.prepared = NoUser, !.rung = 0, !.calc = c]
    BY <1>2, <2>1, <2>3 DEF IsReview
  <2>5. IsReview(row) /\ row.state = "in_progress" /\ row.date = x.date /\ row.calc = c
    BY <1>2, <2>2, <2>4 DEF IsReview
  <2>6. SetReview(r, row) /\ UNCHANGED steps /\ x.state = "awaiting_approval"
    BY <1>1, <1>7, <2>3 DEF ReturnRentReview
  <2> QED
    BY <1>4, <2>2, <2>5, <2>6 DEF OpenStates, UnsettledStates
<1>8. CASE \E basis \in Bases : UpdateRentReviewBasis(u, r, basis)
  <2>1. PICK basis \in Bases : UpdateRentReviewBasis(u, r, basis)
    BY <1>8
  <2>2. PICK e : e = x.editors \cup {Part(u)}
    OBVIOUS
  <2>3. PICK row : row = [x EXCEPT !.basis = basis, !.calc = NoCalc, !.editors = e]
    OBVIOUS
  <2>4. IsReview(row) /\ row.state = x.state /\ row.date = x.date /\ row.calc = NoCalc
    BY <1>2, <1>3, <2>3 DEF IsReview
  <2>5. SetReview(r, row) /\ UNCHANGED steps /\ x.state \in {"in_progress", "awaiting_index"}
    BY <1>1, <2>1, <2>2, <2>3 DEF UpdateRentReviewBasis
  <2> QED
    BY <1>3, <1>4, <2>4, <2>5 DEF OpenStates, UnsettledStates
<1>9. CASE ResumeAwaitingIndex(r)
  <2>1. PICK row : row = [x EXCEPT !.state = "in_progress"]
    OBVIOUS
  <2>2. IsReview(row) /\ row.state = "in_progress" /\ row.date = x.date /\ row.calc = x.calc
    BY <1>2, <2>1 DEF IsReview
  <2>3. SetReview(r, row) /\ UNCHANGED steps /\ x.state = "awaiting_index"
    BY <1>1, <1>9, <2>1 DEF ResumeAwaitingIndex, SetReview
  <2> QED
    BY <1>3, <1>4, <2>2, <2>3 DEF OpenStates, UnsettledStates
<1>10. CASE CalculateResumed(r)
  <2>1. PICK rate \in Rates : SetReview(r, [reviews[r] EXCEPT !.calc = Calculated(NoUser, r, rate)])
    BY <1>10 DEF CalculateResumed
  <2>2. PICK c : c = Calculated(NoUser, r, rate)
    OBVIOUS
  <2>3. PICK row : row = [x EXCEPT !.calc = c]
    OBVIOUS
  <2>4. IsReview(row) /\ row.state = x.state /\ row.date = x.date /\ row.calc = c
    BY <1>2, <2>2, <2>3, CalculatedFits DEF IsReview
  <2>5. SetReview(r, row) /\ CalcStands(row.calc, r)
    BY <1>1, <2>1, <2>2, <2>3, <2>4, CalculatedFits
  <2>6. UNCHANGED steps /\ x.state = "in_progress"
    BY <1>1, <1>10 DEF CalculateResumed
  <2> QED
    BY <1>4, <2>4, <2>5, <2>6 DEF OpenStates, UnsettledStates
<1>11. CASE ApprovalRungRises(r)
  <2>1. PICK n : n = x.rung + 1
    OBVIOUS
  <2>2. PICK row : row = [x EXCEPT !.rung = n]
    OBVIOUS
  <2>3. IsReview(row) /\ row.state = x.state /\ row.date = x.date /\ row.calc = x.calc
    BY <1>2, <2>2 DEF IsReview
  <2>4. SetReview(r, row) /\ UNCHANGED steps /\ x.state = "awaiting_approval"
    BY <1>1, <1>11, <2>1, <2>2 DEF ApprovalRungRises
  <2> QED
    BY <1>3, <1>4, <2>3, <2>4 DEF OpenStates, UnsettledStates
<1>12. CASE CancelRentReview(u, r)
  <2>1. PICK row : row = Over("cancelled", x)
    OBVIOUS
  <2>2. SetReview(r, row) /\ UNCHANGED steps /\ x.state \in OpenStates
    BY <1>1, <1>12, <2>1 DEF CancelRentReview
  <2>3. IsReview(row) /\ row.state = "cancelled" /\ row.date = x.date /\ row.calc = NoCalc
    BY <2>1, OverFits
  <2> QED
    BY <1>3, <1>4, <2>2, <2>3 DEF UnsettledStates
<1> QED
  BY <1>5, <1>6, <1>7, <1>8, <1>9, <1>10, <1>11, <1>12

\* A write of the schedule makes every calculation stale, and touches nothing else of a row.
StaleRow(x) == [x EXCEPT !.calc.fresh = FALSE]

LEMMA StaleFits ==
  ASSUME NEW x, IsReview(x)
  PROVE  /\ IsReview(StaleRow(x)) /\ StaleRow(x).state = x.state /\ StaleRow(x).date = x.date
         /\ StaleRow(x).record = x.record /\ StaleRow(x).approver = x.approver
         /\ StaleRow(x).calc.chosen = x.calc.chosen /\ StaleRow(x).calc.rate = x.calc.rate
         /\ StaleRow(x).calc.base = x.calc.base /\ ~StaleRow(x).calc.fresh
<1>1. PICK c : c = [x.calc EXCEPT !.fresh = FALSE]
  OBVIOUS
<1>2. IsCalc(c) /\ c.chosen = x.calc.chosen /\ c.rate = x.calc.rate /\ c.base = x.calc.base /\ ~c.fresh
  BY <1>1 DEF IsReview, IsCalc
<1>3. PICK y : y = StaleRow(x)
  OBVIOUS
<1>4. y = [x EXCEPT !.calc = c]
  BY <1>1, <1>3 DEF IsReview, StaleRow
<1>5. /\ IsReview(y) /\ y.state = x.state /\ y.date = x.date /\ y.record = x.record
      /\ y.approver = x.approver /\ y.calc = c
  BY <1>2, <1>4 DEF IsReview
<1> QED
  BY <1>2, <1>3, <1>5

LEMMA StaleRowStands ==
  ASSUME NEW s, IsReview(reviews[s]), reviews'[s] = StaleRow(reviews[s])
  PROVE  Stands(s) /\ ~reviews'[s].calc.fresh
<1>1. PICK x : x = reviews[s]
  OBVIOUS
<1>2. PICK y : y = StaleRow(x)
  OBVIOUS
<1>3. /\ y.state = x.state /\ y.date = x.date /\ y.record = x.record /\ y.approver = x.approver
      /\ y.calc.chosen = x.calc.chosen /\ y.calc.rate = x.calc.rate
      /\ y.calc.base = x.calc.base /\ ~y.calc.fresh
  BY <1>1, <1>2, StaleFits
<1> QED
  BY <1>1, <1>2, <1>3 DEF Stands

LEMMA StaleKeeps ==
  ASSUME RentInv, reviews' = Stale(reviews)
  PROVE  ReviewsAreRows' /\ \A s \in Reviews : Stands(s) /\ ~reviews'[s].calc.fresh
<1>1. reviews' = [s \in Reviews |-> reviews'[s]] /\ \A s \in Reviews : reviews'[s] = StaleRow(reviews[s])
  BY DEF Stale, StaleRow
<1>2. \A s \in Reviews : IsReview(reviews[s])
  BY DEF RentInv, ReviewsAreRows
<1>3. ReviewsAreRows'
  BY <1>1, <1>2, StaleFits DEF ReviewsAreRows
<1> QED
  BY <1>1, <1>2, <1>3, StaleRowStands

\* By hand a row is added open, given another rent or deleted: nothing is settled by it.
LEMMA HandWrites ==
  ASSUME IsSchedule(steps), NEW d \in Dates,
         DeleteScheduledRateStep(d) \/ \E rate \in Rates : UpsertScheduledRateStep(d, rate)
  PROVE  /\ reviews' = Stale(reviews) /\ IsSchedule(steps)'
         /\ \A e \in Dates : Settled(steps', e) => steps'[e].set = steps[e].set /\ steps'[e].by = steps[e].by
         /\ \A e \in 0..MaxDate : steps'[e].rate = steps[e].rate \/ steps'[e].rate \in Int
<1>1. \A e \in Dates : e \in 0..MaxDate
  BY RentReviewConstants DEF Dates
<1>2. Rates \subseteq Int
  BY RentReviewConstants
<1>3. reviews' = Stale(reviews)
  BY DEF DeleteScheduledRateStep, UpsertScheduledRateStep, ScheduleWrite
<1>4. CASE DeleteScheduledRateStep(d)
  <2>1. PICK row : row = NoStep
    OBVIOUS
  <2>2. IsStep(row) /\ row.set = "none" /\ row.rate = 0
    BY <2>1 DEF IsStep, NoStep
  <2>3. steps' = [steps EXCEPT ![d] = row]
    BY <1>4, <2>1 DEF DeleteScheduledRateStep, ScheduleWrite
  <2>4. \A e \in 0..MaxDate : steps'[e] = IF e = d THEN row ELSE steps[e]
    BY <2>3 DEF IsSchedule
  <2>5. steps' = [e \in 0..MaxDate |-> steps'[e]]
    BY <2>3 DEF IsSchedule
  <2> QED
    BY <1>1, <1>3, <2>2, <2>4, <2>5 DEF IsSchedule, Settled
<1>5. CASE \E rate \in Rates : UpsertScheduledRateStep(d, rate)
  <2>1. PICK rate \in Rates : UpsertScheduledRateStep(d, rate)
    BY <1>5
  <2>2. CASE Exists(steps, d)
    <3>1. PICK x, row : x = steps[d] /\ row = [x EXCEPT !.rate = rate]
      OBVIOUS
    <3>2. IsStep(x)
      BY <1>1, <3>1 DEF IsSchedule
    <3>3. IsStep(row) /\ row.set = x.set /\ row.by = x.by /\ row.rate = rate
      BY <3>1, <3>2 DEF IsStep
    <3>4. steps' = [steps EXCEPT ![d] = row]
      BY <2>1, <2>2, <3>1 DEF UpsertScheduledRateStep, ScheduleWrite
    <3>5. \A e \in 0..MaxDate : steps'[e] = IF e = d THEN row ELSE steps[e]
      BY <3>4 DEF IsSchedule
    <3>6. steps' = [e \in 0..MaxDate |-> steps'[e]]
      BY <3>4 DEF IsSchedule
    <3> QED
      BY <1>1, <1>2, <1>3, <3>1, <3>3, <3>5, <3>6 DEF IsSchedule, Settled
  <2>3. CASE ~Exists(steps, d)
    <3>1. PICK row : row = [NoStep EXCEPT !.set = "open", !.rate = rate]
      OBVIOUS
    <3>2. IsStep(row) /\ row.set = "open" /\ row.rate = rate
      BY <3>1 DEF IsStep, NoStep
    <3>3. steps' = PlaceStep(steps, d, row)
      BY <2>1, <2>3, <3>1 DEF UpsertScheduledRateStep, ScheduleWrite
    <3>4. PICK sched : sched = steps
      OBVIOUS
    <3>5. /\ IsSchedule(PlaceStep(sched, d, row))
          /\ \A e \in 0..MaxDate :
               /\ PlaceStep(sched, d, row)[e].set = IF e = d THEN row.set ELSE sched[e].set
               /\ PlaceStep(sched, d, row)[e].by = IF e = d THEN row.by ELSE sched[e].by
               /\ PlaceStep(sched, d, row)[e].rate = IF e = d THEN row.rate ELSE sched[e].rate
      BY <3>2, <3>4, PlacedRow
    <3> QED
      BY <1>1, <1>2, <1>3, <3>2, <3>3, <3>4, <3>5 DEF Settled
  <2> QED
    BY <2>2, <2>3
<1> QED
  BY <1>4, <1>5

LEMMA HandKeeps ==
  ASSUME RentInv, NEW d \in Dates,
         DeleteScheduledRateStep(d) \/ \E rate \in Rates : UpsertScheduledRateStep(d, rate)
  PROVE  RentInv'
<1>1. IsSchedule(steps)
  BY DEF RentInv
<1> QED
  BY <1>1, HandWrites, StaleKeeps, QuietKeeps

\* The cache of an approved review that was deferred is written when its date has come.
LEMMA DueCacheWrites ==
  ASSUME RentInv, NEW r \in Reviews, WriteDueRentCache(r)
  PROVE  UNCHANGED steps /\ ReviewsAreRows' /\ \A s \in Reviews : Stands(s)
<1>1. PICK x : x = reviews[r]
  OBVIOUS
<1>2. IsReview(x) /\ IsRecord(x.record)
  BY <1>1 DEF RentInv, ReviewsAreRows, IsReview
<1>3. PICK cache : cache = tenancy.cache
  OBVIOUS
<1>4. PICK record : record = [x.record EXCEPT !.cache = "written", !.cacheWas = cache]
  OBVIOUS
<1>5. /\ IsRecord(record) /\ record.was = x.record.was /\ record.now = x.record.now
      /\ record.last = x.record.last
  BY <1>2, <1>4 DEF IsRecord
<1>6. PICK row : row = [x EXCEPT !.record = record]
  OBVIOUS
<1>7. /\ IsReview(row) /\ row.record = record /\ row.state = x.state /\ row.date = x.date
      /\ row.calc = x.calc /\ row.approver = x.approver
  BY <1>2, <1>5, <1>6 DEF IsReview
<1>8. reviews' = [reviews EXCEPT ![r] = row] /\ UNCHANGED steps
  BY <1>1, <1>3, <1>4, <1>6 DEF WriteDueRentCache
<1>9. reviews' = [s \in Reviews |-> reviews'[s]] /\ \A s \in Reviews : reviews'[s] = IF s = r THEN row ELSE reviews[s]
  BY <1>8 DEF RentInv, ReviewsAreRows
<1>10. ReviewsAreRows'
  BY <1>7, <1>9 DEF RentInv, ReviewsAreRows
<1>11. \A s \in Reviews : Stands(s)
  BY <1>1, <1>5, <1>7, <1>9 DEF Stands
<1> QED
  BY <1>8, <1>10, <1>11

LEMMA DueCacheKeeps == ASSUME RentInv, NEW r \in Reviews, WriteDueRentCache(r) PROVE RentInv'
<1>1. UNCHANGED steps /\ ReviewsAreRows' /\ \A s \in Reviews : Stands(s)
  BY DueCacheWrites
<1>2. IsSchedule(steps)'
  BY <1>1 DEF RentInv
<1> QED
  BY <1>1, <1>2, QuietKeeps

\* A review that is settled where nothing was, by a director when the rent goes down.
LEMMA SettlingKeeps ==
  ASSUME RentInv, ReviewsAreRows', NEW r \in Reviews, NEW row, IsStep(row), row.by = r, row.set \in SettledSets,
         steps' = PlaceStep(steps, reviews[r].date, row), ~StepSettled(r),
         reviews[r].state \notin SettledStates,
         \A s \in Reviews \ {r} : Stands(s),
         reviews'[r].date = reviews[r].date,
         reviews'[r].state = IF row.set = "waived" THEN "waived" ELSE "approved",
         row.set = "applied" =>
           /\ reviews'[r].record.was = Rows(steps, Changed(steps, steps'))
           /\ reviews'[r].record.now = Rows(steps', Changed(steps, steps'))
           /\ reviews'[r].calc.chosen < 0 => Director(reviews'[r].approver)
  PROVE  RentInv'
<1>1. PICK date, sched : date = reviews[r].date /\ sched = steps
  OBVIOUS
<1>2. /\ IsSchedule(PlaceStep(sched, date, row))
      /\ \A e \in 0..MaxDate :
           /\ PlaceStep(sched, date, row)[e].set = IF e = date THEN row.set ELSE sched[e].set
           /\ PlaceStep(sched, date, row)[e].by = IF e = date THEN row.by ELSE sched[e].by
  BY <1>1, PlacedRow DEF RentInv
<1>3. IsSchedule(steps) /\ IsSchedule(steps')
  BY <1>1, <1>2 DEF RentInv
<1>4. \A e \in 0..MaxDate : /\ steps'[e].set = IF e = date THEN row.set ELSE steps[e].set
                            /\ steps'[e].by = IF e = date THEN r ELSE steps[e].by
  BY <1>1, <1>2
<1>5. \A e \in Dates : e \in 0..MaxDate
  BY RentReviewConstants DEF Dates
<1>6. date \in Dates => steps[date].set \notin SettledSets
  <2> SUFFICES ASSUME date \in Dates, steps[date].set \in SettledSets PROVE FALSE
    OBVIOUS
  <2>1. Settled(steps, date) /\ steps[date].by = r
    BY <1>1 DEF StepSettled, Settled, SettledSets
  <2>2. reviews[r].state = IF steps[date].set = "waived" THEN "waived" ELSE "approved"
    BY <2>1 DEF RentInv, SettledByRight, SettledRowHasItsReview
  <2> QED
    BY <2>2 DEF SettledStates
<1>7. \A s \in Reviews : RecordPutsBack(s)'
  <2>1. \A s \in Reviews \ {r} : RecordPutsBack(s)'
    BY DEF RentInv, RecordPutsBack, Stands
  <2>2. RecordPutsBack(r)'
    <3> SUFFICES ASSUME reviews'[r].state = "approved"
                 PROVE  PutsBack("approved", date, reviews'[r].record.was, reviews'[r].record.now)
      BY <1>1 DEF RecordPutsBack, PutsBack
    <3>1. row.set = "applied"
      BY DEF SettledSets
    <3>2. PICK D : D = Changed(steps, steps')
      OBVIOUS
    <3>3. PICK was, now : was = reviews'[r].record.was /\ now = reviews'[r].record.now
      OBVIOUS
    <3>4. was = [e \in D |-> steps[e]] /\ now = [e \in D |-> steps'[e]]
      BY <3>1, <3>2, <3>3 DEF Rows
    <3>5. D \subseteq 0..MaxDate /\ \A e \in 0..MaxDate : steps[e].set # steps'[e].set => e \in D
      BY <3>2 DEF Changed
    <3>6. date \in Dates => date \in D
      BY <1>4, <1>5, <1>6, <3>1, <3>5 DEF SettledSets
    <3>7. DOMAIN was = D /\ DOMAIN now = D /\ \A e \in D : was[e] = steps[e] /\ now[e] = steps'[e]
      BY <3>4
    <3>8. \A e \in D : IsStep(was[e])
      BY <1>3, <3>5, <3>7 DEF IsSchedule
    <3>9. \A e \in D \cap Dates : IF e = date THEN was[e].set \notin SettledSets
                                  ELSE was[e].set = now[e].set /\ was[e].by = now[e].by
      BY <1>4, <1>5, <1>6, <3>7
    <3> QED
      BY <3>3, <3>6, <3>7, <3>8, <3>9 DEF PutsBack
  <2> QED
    BY <2>1, <2>2
<1>8. SettledRowHasItsReview'
  <2> SUFFICES ASSUME NEW d \in Dates, Settled(steps', d)
               PROVE  /\ steps'[d].by \in Reviews /\ reviews'[steps'[d].by].date = d
                      /\ reviews'[steps'[d].by].state = IF steps'[d].set = "waived" THEN "waived" ELSE "approved"
    BY DEF SettledRowHasItsReview, Settled
  <2>1. CASE d = date
    BY <1>1, <1>4, <1>5, <2>1
  <2>2. CASE d # date
    <3>1. steps'[d].set = steps[d].set /\ steps'[d].by = steps[d].by
      BY <1>4, <1>5, <2>2
    <3>2. Settled(steps, d)
      BY <3>1 DEF Settled
    <3>3. /\ steps[d].by \in Reviews /\ reviews[steps[d].by].date = d
          /\ reviews[steps[d].by].state = IF steps[d].set = "waived" THEN "waived" ELSE "approved"
      BY <3>2 DEF RentInv, SettledByRight, SettledRowHasItsReview
    <3>4. Stands(steps[d].by)
      BY <1>1, <2>2, <3>3
    <3> QED
      BY <3>1, <3>3, <3>4 DEF Stands
  <2> QED
    BY <2>1, <2>2
<1>9. CutsAreADirectors'
  <2> SUFFICES ASSUME NEW s \in Reviews, reviews'[s].state = "approved", reviews'[s].calc.chosen < 0
               PROVE  Director(reviews'[s].approver)
    BY DEF CutsAreADirectors, Director
  <2>1. CASE s = r
    BY <2>1 DEF SettledSets
  <2>2. CASE s # r
    BY <2>2 DEF Stands, RentInv, SettledByRight, CutsAreADirectors
  <2> QED
    BY <2>1, <2>2
<1> QED
  BY <1>3, <1>7, <1>8, <1>9 DEF RentInv, SettledByRight

LEMMA StaledKeeps ==
  ASSUME RentInv, NEW r \in Reviews, NEW row, IsReview(row), reviews' = Stale([reviews EXCEPT ![r] = row])
  PROVE  /\ ReviewsAreRows' /\ \A s \in Reviews \ {r} : Stands(s)
         /\ reviews'[r].state = row.state /\ reviews'[r].date = row.date /\ reviews'[r].record = row.record
         /\ reviews'[r].approver = row.approver /\ reviews'[r].calc.chosen = row.calc.chosen
         /\ reviews'[r].calc.rate = row.calc.rate /\ reviews'[r].calc.base = row.calc.base
         /\ \A s \in Reviews : ~reviews'[s].calc.fresh
<1>1. reviews' = [s \in Reviews |-> reviews'[s]]
  BY DEF Stale
<1>2. \A s \in Reviews : reviews'[s] = StaleRow(IF s = r THEN row ELSE reviews[s])
  BY DEF Stale, StaleRow, RentInv, ReviewsAreRows
<1>3. \A s \in Reviews : IsReview(reviews[s])
  BY DEF RentInv, ReviewsAreRows
<1>4. ReviewsAreRows'
  BY <1>1, <1>2, <1>3, StaleFits DEF ReviewsAreRows
<1>5. ASSUME NEW s \in Reviews, s # r PROVE Stands(s)
  <2>1. reviews'[s] = StaleRow(reviews[s]) /\ IsReview(reviews[s])
    BY <1>2, <1>3, <1>5
  <2> QED
    BY <2>1, StaleRowStands
<1>6. ASSUME NEW s \in Reviews PROVE ~reviews'[s].calc.fresh
  <2>1. PICK x : x = (IF s = r THEN row ELSE reviews[s]) /\ IsReview(x)
    BY <1>3
  <2>2. reviews'[s] = StaleRow(x)
    BY <1>2, <2>1
  <2> QED
    BY <2>1, <2>2, StaleFits
<1>7. reviews'[r] = StaleRow(row)
  BY <1>2
<1> QED
  BY <1>4, <1>5, <1>6, <1>7, StaleFits

\* An application places the row and keeps what was there on record.
LEMMA ApplyDoes ==
  ASSUME RentInv, NEW u, NEW r \in Reviews, NEW c, ApplyReview(u, r, c)
  PROVE  /\ ReviewsAreRows' /\ \A s \in Reviews \ {r} : Stands(s)
         /\ \A s \in Reviews : ~reviews'[s].calc.fresh
         /\ steps' = PlaceStep(steps, reviews[r].date, [set |-> "applied", by |-> r, rate |-> c.chosen, end |-> 0])
         /\ reviews'[r].state = "approved" /\ reviews'[r].date = reviews[r].date /\ reviews'[r].approver = u
         /\ reviews'[r].calc.chosen = c.chosen /\ reviews'[r].calc.base = c.base /\ reviews'[r].calc.rate = 0
         /\ reviews'[r].record.was = Rows(steps, Changed(steps, steps'))
         /\ reviews'[r].record.now = Rows(steps', Changed(steps, steps'))
         /\ reviews'[r].record.last = tenancy.last
<1>1. PICK x : x = reviews[r]
  OBVIOUS
<1>2. IsReview(x)
  BY <1>1 DEF RentInv, ReviewsAreRows
<1>3. PICK placed : placed = [set |-> "applied", by |-> r, rate |-> c.chosen, end |-> 0]
  OBVIOUS
<1>4. steps' = PlaceStep(steps, reviews[r].date, placed)
  BY <1>3 DEF ApplyReview, ReviewStep
<1>5. PICK calc : calc = [NoCalc EXCEPT !.base = c.base, !.chosen = c.chosen]
  OBVIOUS
<1>6. IsCalc(calc) /\ calc.chosen = c.chosen /\ calc.base = c.base /\ calc.rate = 0
  BY <1>5 DEF IsCalc, NoCalc
<1>7. PICK last, cache, cacheWas :
        /\ last = IF x.date >= tenancy.last THEN x.date ELSE tenancy.last
        /\ cache = IF x.date <= today THEN "written" ELSE "deferred"
        /\ cacheWas = tenancy.cache
  OBVIOUS
<1>8. PICK was, now : was = Rows(steps, Changed(steps, steps')) /\ now = Rows(steps', Changed(steps, steps'))
  OBVIOUS
<1>9. PICK lastWas : lastWas = tenancy.last
  OBVIOUS
<1>10. PICK record : record = [was |-> was, now |-> now, last |-> lastWas, lastAfter |-> last, cache |-> cache, cacheWas |-> cacheWas]
  OBVIOUS
<1>11. IsRecord(record) /\ record.was = was /\ record.now = now /\ record.last = lastWas
  BY <1>10 DEF IsRecord
<1>12. PICK row : row = [x EXCEPT !.state = "approved", !.calc = calc, !.prepared = NoUser, !.rung = 0,
                                  !.approver = u, !.record = record]
  OBVIOUS
<1>13. row = [state |-> "approved", date |-> x.date, owner |-> x.owner, basis |-> x.basis, calc |-> calc,
              prepared |-> NoUser, editors |-> x.editors, rung |-> 0, approver |-> u, record |-> record]
  BY <1>2, <1>12 DEF IsReview
<1>14. /\ IsReview(row) /\ row.state = "approved" /\ row.date = x.date /\ row.calc = calc
       /\ row.approver = u /\ row.record = record
  BY <1>6, <1>11, <1>13 DEF IsReview
<1>15. reviews' = Stale([reviews EXCEPT ![r] = row])
  <2>1. steps' = ReviewStep(r, "applied", c.chosen)
    BY DEF ApplyReview
  <2>2. reviews' = Stale([reviews EXCEPT ![r] =
          [@ EXCEPT !.state = "approved", !.calc = [NoCalc EXCEPT !.base = c.base, !.chosen = c.chosen],
                    !.prepared = NoUser, !.rung = 0, !.approver = u,
                    !.record = [was |-> Rows(steps, Changed(steps, steps')),
                                now |-> Rows(steps', Changed(steps, steps')),
                                last |-> tenancy.last,
                                lastAfter |-> IF x.date >= tenancy.last THEN x.date ELSE tenancy.last,
                                cache |-> IF x.date <= today THEN "written" ELSE "deferred",
                                cacheWas |-> tenancy.cache]]])
    BY <1>1, <2>1, Zenon DEF ApplyReview
  <2>3. row = [reviews[r] EXCEPT
          !.state = "approved", !.calc = [NoCalc EXCEPT !.base = c.base, !.chosen = c.chosen],
          !.prepared = NoUser, !.rung = 0, !.approver = u,
          !.record = [was |-> Rows(steps, Changed(steps, steps')),
                      now |-> Rows(steps', Changed(steps, steps')),
                      last |-> tenancy.last,
                      lastAfter |-> IF x.date >= tenancy.last THEN x.date ELSE tenancy.last,
                      cache |-> IF x.date <= today THEN "written" ELSE "deferred",
                      cacheWas |-> tenancy.cache]]
    BY <1>1, <1>5, <1>7, <1>8, <1>9, <1>10, <1>12
  <2> QED
    BY <2>2, <2>3, Zenon
<1>16. /\ ReviewsAreRows' /\ \A s \in Reviews \ {r} : Stands(s)
       /\ reviews'[r].state = row.state /\ reviews'[r].date = row.date /\ reviews'[r].record = row.record
       /\ reviews'[r].approver = row.approver /\ reviews'[r].calc.chosen = row.calc.chosen
       /\ reviews'[r].calc.rate = row.calc.rate /\ reviews'[r].calc.base = row.calc.base
       /\ \A s \in Reviews : ~reviews'[s].calc.fresh
  BY <1>14, <1>15, StaledKeeps
<1>17. /\ row.date = reviews[r].date /\ row.calc.chosen = c.chosen /\ row.calc.base = c.base
       /\ row.calc.rate = 0
  BY <1>1, <1>6, <1>14
<1>18. /\ row.record.was = Rows(steps, Changed(steps, steps'))
       /\ row.record.now = Rows(steps', Changed(steps, steps'))
       /\ row.record.last = tenancy.last
  BY <1>8, <1>9, <1>11, <1>14
<1> QED
  BY <1>3, <1>4, <1>14, <1>16, <1>17, <1>18

LEMMA ApplyKeeps ==
  ASSUME RentInv, NEW u, NEW r \in Reviews, NEW c, ApplyReview(u, r, c), ~StepSettled(r),
         reviews[r].state \notin SettledStates, c.chosen < 0 => Director(u)
  PROVE  RentInv'
<1>1. PICK placed : placed = [set |-> "applied", by |-> r, rate |-> c.chosen, end |-> 0]
  OBVIOUS
<1>2. IsStep(placed) /\ placed.set = "applied" /\ placed.by = r
  BY <1>1 DEF IsStep
<1>3. steps' = PlaceStep(steps, reviews[r].date, placed)
  BY <1>1, ApplyDoes
<1>4. /\ ReviewsAreRows' /\ \A s \in Reviews \ {r} : Stands(s)
      /\ reviews'[r].state = "approved" /\ reviews'[r].date = reviews[r].date
      /\ reviews'[r].record.was = Rows(steps, Changed(steps, steps'))
      /\ reviews'[r].record.now = Rows(steps', Changed(steps, steps'))
  <2>1. ReviewsAreRows' /\ reviews'[r].state = "approved" /\ reviews'[r].date = reviews[r].date
    BY ApplyDoes
  <2>2. \A s \in Reviews \ {r} : Stands(s)
    BY ApplyDoes
  <2>3. /\ reviews'[r].record.was = Rows(steps, Changed(steps, steps'))
        /\ reviews'[r].record.now = Rows(steps', Changed(steps, steps'))
    BY ApplyDoes
  <2> QED
    BY <2>1, <2>2, <2>3
<1>5. reviews'[r].calc.chosen < 0 => Director(reviews'[r].approver)
  BY ApplyDoes
<1>6. placed.set \in SettledSets
  BY <1>2 DEF SettledSets
<1>7. reviews'[r].state = IF placed.set = "waived" THEN "waived" ELSE "approved"
  BY <1>2, <1>4
<1> QED
  BY <1>2, <1>3, <1>4, <1>5, <1>6, <1>7, SettlingKeeps

\* A submission applies the figure, when nothing asks for an approval, or waits for one.
LEMMA SubmitDoes ==
  ASSUME RentInv, NEW u \in Users, NEW r \in Reviews, NEW rate \in Rates, NEW checks,
         SubmitRentReview(u, r, rate, checks)
  PROVE  \/ \E c : /\ ApplyReview(u, r, c) /\ reviews[r].state = "in_progress" /\ ~StepSettled(r) /\ ~(c.chosen < 0)
                   /\ c.chosen \in Int /\ reviews[r].calc.fresh /\ c.base = reviews[r].calc.base
         \/ \E row : OpenRow(r, row)
<1>1. PICK c : c = Submitted(r, rate, checks)
  OBVIOUS
<1>2. PICK x, part : x = reviews[r] /\ part = Part(u)
  OBVIOUS
<1>3. x.state = "in_progress" /\ ~StepSettled(r) /\ x.calc.fresh
  BY <1>2 DEF SubmitRentReview, MaySubmit, OnThisSchedule
<1>4. IsReview(x)
  BY <1>2 DEF RentInv, ReviewsAreRows
<1>5. IsCalc(c) /\ c.chosen = rate /\ c.rate = x.calc.rate /\ c.base = x.calc.base /\ c.fresh = x.calc.fresh
  <2>1. PICK w : w = {k \in checks \cap {"not_signed_off", "ratchet"} :
                        CASE k = "not_signed_off" -> ~tenancy.signed
                          [] OTHER -> rate < 0 /\ (LeaseRatchet \/ reviews[r].basis.ratchet)}
    OBVIOUS
  <2>2. c = [x.calc EXCEPT !.chosen = rate, !.waives = w]
    BY <1>1, <1>2, <2>1, Zenon DEF Submitted
  <2> QED
    BY <1>4, <2>2 DEF IsReview, IsCalc
<1>6. rate \in Int
  BY RentReviewConstants
<1>7. CASE Reasons(r, c, checks) = {}
  <2>1. ApplyReview(u, r, c)
    BY <1>1, <1>7 DEF SubmitRentReview
  <2>2. ~(c.chosen < 0)
    BY <1>7 DEF Reasons
  <2> QED
    BY <1>2, <1>3, <1>5, <1>6, <2>1, <2>2
<1>8. CASE Reasons(r, c, checks) # {}
  <2>1. PICK row : row = [x EXCEPT !.state = "awaiting_approval", !.calc = c, !.prepared = part, !.rung = 1]
    OBVIOUS
  <2>2. IsReview(row) /\ row.state = "awaiting_approval" /\ row.date = x.date /\ row.calc = c
    <3>1. row = [state |-> "awaiting_approval", date |-> x.date, owner |-> x.owner, basis |-> x.basis, calc |-> c,
                 prepared |-> part, editors |-> x.editors, rung |-> 1, approver |-> x.approver, record |-> x.record]
      BY <1>4, <2>1 DEF IsReview
    <3> QED
      BY <1>4, <1>5, <3>1 DEF IsReview
  <2>3. SetReview(r, row) /\ UNCHANGED steps
    BY <1>1, <1>2, <1>8, <2>1 DEF SubmitRentReview
  <2>4. CalcStands(c, r)
    BY <1>2, <1>5, <1>6 DEF CalcStands, CalcCounts
  <2>5. OpenRow(r, row)
    BY <1>2, <1>3, <2>2, <2>3, <2>4 DEF OpenRow, OpenStates, UnsettledStates
  <2> QED
    BY <2>5
<1> QED
  BY <1>7, <1>8

\* Without an approval a rent cannot go down: a reduction is a reason to ask for one.
LEMMA SubmitKeeps ==
  ASSUME RentInv, NEW u \in Users, NEW r \in Reviews, NEW rate \in Rates, NEW checks,
         SubmitRentReview(u, r, rate, checks)
  PROVE  RentInv'
BY SubmitDoes, ApplyKeeps, OpenRowStays DEF SettledStates

\* With one, it needs a director, whatever rung the approval has reached.
LEMMA ApproveKeeps ==
  ASSUME RentInv, NEW u \in Users, NEW r \in Reviews, NEW now, ApproveRentReview(u, r, now)
  PROVE  RentInv'
<1>1. PICK c : c = reviews[r].calc
  OBVIOUS
<1>2. reviews[r].state = "awaiting_approval" /\ ~StepSettled(r) /\ ApplyReview(u, r, c)
  BY <1>1 DEF ApproveRentReview, CanApply
<1>3. c.chosen < 0 => Director(u)
  <2> SUFFICES ASSUME c.chosen < 0 PROVE Director(u)
    OBVIOUS
  <2>1. Rank[u] >= 3
    BY <1>1 DEF ApproveRentReview, RequiredRank
  <2>2. Rank[u] \in 0..3
    BY RentReviewConstants
  <2> QED
    BY <2>1, <2>2 DEF Director
<1> QED
  BY <1>2, <1>3, ApplyKeeps DEF SettledStates

LEMMA WaiveKeeps == ASSUME RentInv, NEW u \in Users, NEW r \in Reviews, WaiveRentReview(u, r) PROVE RentInv'
<1>1. reviews[r].state \in OpenStates /\ ~StepSettled(r)
  BY DEF WaiveRentReview
<1>2. PICK placed : placed = [set |-> "waived", by |-> r, rate |-> 0, end |-> 0]
  OBVIOUS
<1>3. IsStep(placed) /\ placed.set = "waived" /\ placed.by = r
  BY <1>2 DEF IsStep
<1>4. steps' = PlaceStep(steps, reviews[r].date, placed)
  BY <1>2 DEF WaiveRentReview, ReviewStep
<1>5. PICK x : x = reviews[r]
  OBVIOUS
<1>6. PICK row : row = Over("waived", x)
  OBVIOUS
<1>7. IsReview(row) /\ row.state = "waived" /\ row.date = x.date
  BY <1>6, OverFits
<1>8. reviews' = Stale([reviews EXCEPT ![r] = row])
  BY <1>5, <1>6 DEF WaiveRentReview
<1>9. /\ ReviewsAreRows' /\ \A s \in Reviews \ {r} : Stands(s)
      /\ reviews'[r].state = "waived" /\ reviews'[r].date = reviews[r].date
  BY <1>5, <1>7, <1>8, StaledKeeps
<1> QED
  BY <1>1, <1>3, <1>4, <1>9, SettlingKeeps DEF SettledSets, SettledStates, OpenStates

\* A reversal takes the next review with it, and leaves no calculation fresh.
LEMMA RevertRows ==
  ASSUME RentInv, NEW u \in Users, NEW r \in Reviews, RevertRentReview(u, r)
  PROVE  /\ ReviewsAreRows' /\ reviews'[r].state = "in_progress"
         /\ \A s \in Reviews \ {r} : Quiet(s) \/ Stands(s)
         /\ \A s \in Reviews : (Works(s) \/ Stands(s)) /\ ~reviews'[s].calc.fresh
<1>1. PICK x, mine : x = reviews[r] /\ mine = [x EXCEPT !.state = "in_progress", !.calc = NoCalc,
                                                        !.approver = NoUser, !.record = NoRecord]
  OBVIOUS
<1>2. IsReview(mine) /\ mine.state = "in_progress" /\ mine.date = x.date /\ mine.calc = NoCalc
  <2>1. IsReview(x) /\ IsCalc(NoCalc) /\ IsRecord(NoRecord)
    BY <1>1 DEF RentInv, ReviewsAreRows, IsCalc, IsRecord, NoCalc, NoRecord
  <2>2. mine = [state |-> "in_progress", date |-> x.date, owner |-> x.owner, basis |-> x.basis, calc |-> NoCalc,
                prepared |-> x.prepared, editors |-> x.editors, rung |-> x.rung, approver |-> NoUser,
                record |-> NoRecord]
    BY <1>1, <2>1 DEF IsReview
  <2> QED
    BY <2>1, <2>2 DEF IsReview
<1>3. PICK after : after = [s \in Reviews |-> IF s = r THEN mine
                              ELSE IF s \in OpenReviews THEN Over("cancelled", reviews[s]) ELSE reviews[s]]
  OBVIOUS
<1>4. reviews' = Stale(after)
  BY <1>1, <1>3 DEF RevertRentReview
<1>5. reviews' = [s \in Reviews |-> reviews'[s]] /\ \A s \in Reviews : reviews'[s] = StaleRow(after[s])
  BY <1>3, <1>4 DEF Stale, StaleRow
<1>6. \A s \in Reviews : IsReview(after[s]) /\ IsReview(reviews[s])
  BY <1>2, <1>3, OverFits DEF RentInv, ReviewsAreRows
<1>7. ReviewsAreRows'
  BY <1>5, <1>6, StaleFits DEF ReviewsAreRows
<1>8. \A s \in Reviews : ~reviews'[s].calc.fresh
  BY <1>5, <1>6, StaleFits
<1>9. NoCalc.rate = 0 /\ NoCalc.chosen = 0
  BY DEF NoCalc
<1>10. ASSUME NEW s \in Reviews, after[s].state \in {"in_progress", "cancelled"}, reviews[s].state # "none",
              after[s].date = reviews[s].date, after[s].calc = NoCalc
       PROVE  Works(s) /\ reviews'[s].state = after[s].state
  <2>1. /\ reviews'[s].state = after[s].state /\ reviews'[s].date = after[s].date
        /\ reviews'[s].calc.rate = 0 /\ reviews'[s].calc.chosen = 0
    BY <1>5, <1>6, <1>9, <1>10, StaleFits
  <2> QED
    BY <1>8, <1>10, <2>1 DEF Works, CalcStands, CalcCounts
<1>11. ASSUME NEW s \in Reviews \ {r}
       PROVE  (Quiet(s) /\ Works(s)) \/ Stands(s)
  <2>1. CASE s \in OpenReviews
    <3>1. /\ after[s].state = "cancelled" /\ after[s].date = reviews[s].date /\ after[s].calc = NoCalc
          /\ reviews[s].state \in OpenStates
      BY <1>3, <2>1, OverFits DEF OpenReviews
    <3>2. reviews'[s].state = "cancelled" /\ Works(s)
      BY <1>10, <3>1 DEF OpenStates
    <3> QED
      BY <3>1, <3>2 DEF Quiet, SettledStates, OpenStates
  <2>2. CASE s \notin OpenReviews
    <3>1. after[s] = reviews[s]
      BY <1>3, <2>2
    <3> QED
      BY <1>5, <1>6, <3>1, StaleFits DEF Stands
  <2> QED
    BY <2>1, <2>2
<1>12. Works(r) /\ reviews'[r].state = "in_progress"
  <2>1. reviews[r].state = "approved" /\ after[r] = mine
    BY <1>3 DEF RevertRentReview, CanRevert
  <2> QED
    BY <1>1, <1>2, <1>10, <2>1
<1> QED
  BY <1>7, <1>8, <1>11, <1>12

\* What is put back is open or nothing at the review's own date, and settles the same as
\* what is there at any other.
LEMMA RevertKeeps == ASSUME RentInv, NEW u \in Users, NEW r \in Reviews, RevertRentReview(u, r) PROVE RentInv'
<1>1. PICK was, now, date : was = reviews[r].record.was /\ now = reviews[r].record.now /\ date = reviews[r].date
  OBVIOUS
<1>2. reviews[r].state = "approved" /\ \A d \in DOMAIN now : steps[d] = now[d]
  BY <1>1 DEF RevertRentReview, CanRevert
<1>3. /\ DOMAIN was = DOMAIN now
      /\ date \in Dates => date \in DOMAIN now
      /\ \A d \in DOMAIN now : IsStep(was[d])
      /\ \A d \in DOMAIN now \cap Dates :
           IF d = date THEN was[d].set \notin SettledSets
                       ELSE was[d].set = now[d].set /\ was[d].by = now[d].by
  BY <1>1, <1>2 DEF RentInv, RecordPutsBack, PutsBack
<1>4. steps' = [d \in 0..MaxDate |-> IF d \in DOMAIN was THEN was[d] ELSE steps[d]]
  BY <1>1 DEF RevertRentReview
<1>5. IsSchedule(steps)'
  BY <1>3, <1>4 DEF RentInv, IsSchedule
<1>6. \A d \in Dates : Settled(steps', d) =>
        d # date /\ steps'[d].set = steps[d].set /\ steps'[d].by = steps[d].by
  <2> SUFFICES ASSUME NEW d \in Dates, Settled(steps', d)
               PROVE  d # date /\ steps'[d].set = steps[d].set /\ steps'[d].by = steps[d].by
    OBVIOUS
  <2>1. d \in 0..MaxDate
    BY RentReviewConstants DEF Dates
  <2>2. steps'[d] = IF d \in DOMAIN was THEN was[d] ELSE steps[d]
    BY <1>4, <2>1
  <2>3. CASE d \in DOMAIN now
    BY <1>2, <1>3, <2>2, <2>3 DEF Settled, SettledSets
  <2>4. CASE d \notin DOMAIN now
    BY <1>3, <2>2, <2>4
  <2> QED
    BY <2>3, <2>4
<1>7. /\ ReviewsAreRows' /\ reviews'[r].state = "in_progress"
      /\ \A s \in Reviews \ {r} : Quiet(s) \/ Stands(s)
  BY RevertRows
<1>8. \A s \in Reviews : RecordPutsBack(s)'
  <2> SUFFICES ASSUME NEW s \in Reviews PROVE RecordPutsBack(s)'
    OBVIOUS
  <2>1. CASE reviews'[s].state # "approved"
    BY <2>1 DEF RecordPutsBack, PutsBack
  <2>2. CASE reviews'[s].state = "approved"
    <3>1. Stands(s)
      BY <1>7, <2>2 DEF Quiet, SettledStates
    <3> QED
      BY <3>1 DEF RentInv, RecordPutsBack, Stands
  <2> QED
    BY <2>1, <2>2
<1>9. SettledRowHasItsReview'
  <2> SUFFICES ASSUME NEW d \in Dates, Settled(steps', d)
               PROVE  /\ steps'[d].by \in Reviews /\ reviews'[steps'[d].by].date = d
                      /\ reviews'[steps'[d].by].state = IF steps'[d].set = "waived" THEN "waived" ELSE "approved"
    BY DEF SettledRowHasItsReview, Settled
  <2>1. d # date /\ steps'[d].set = steps[d].set /\ steps'[d].by = steps[d].by
    BY <1>6
  <2>2. /\ steps[d].by \in Reviews /\ reviews[steps[d].by].date = d
        /\ reviews[steps[d].by].state = IF steps[d].set = "waived" THEN "waived" ELSE "approved"
    BY <2>1 DEF RentInv, SettledByRight, SettledRowHasItsReview, Settled
  <2>3. Stands(steps[d].by)
    BY <1>1, <1>7, <2>1, <2>2 DEF Quiet, SettledStates
  <2> QED
    BY <2>1, <2>2, <2>3 DEF Stands
<1>10. CutsAreADirectors'
  <2> SUFFICES ASSUME NEW s \in Reviews, reviews'[s].state = "approved", reviews'[s].calc.chosen < 0
               PROVE  Director(reviews'[s].approver)
    BY DEF CutsAreADirectors, Director
  <2>1. Stands(s)
    BY <1>7 DEF Quiet, SettledStates
  <2> QED
    BY <2>1 DEF Stands, RentInv, SettledByRight, CutsAreADirectors
<1> QED
  BY <1>5, <1>7, <1>8, <1>9, <1>10 DEF RentInv, SettledByRight

LEMMA RentStep == RentInv /\ [RentNext]_rentVars => RentInv'
<1> SUFFICES ASSUME RentInv, [RentNext]_rentVars PROVE RentInv'
  OBVIOUS
<1>1. CASE UNCHANGED rentVars
  BY <1>1, NothingMoves DEF rentVars
<1>2. CASE PlannerStep
  BY <1>2, PlannerKeeps
<1>3. CASE \E r \in Reviews : ReviewStepOf(r)
  <2>1. PICK r \in Reviews : ReviewStepOf(r)
    BY <1>3
  <2>2. CASE ResumeAwaitingIndex(r) \/ CalculateResumed(r) \/ ApprovalRungRises(r) \/ WriteDueRentCache(r)
    BY <2>2, WorkDoes, OpenRowStays, DueCacheKeeps
  <2>3. ASSUME NEW u \in Users,
               \/ CommenceRentReview(u, r) \/ CalculateRentReview(u, r) \/ ReturnRentReview(u, r)
               \/ \E basis \in Bases : UpdateRentReviewBasis(u, r, basis)
               \/ CancelRentReview(u, r)
        PROVE  RentInv'
    BY <2>3, WorkDoes, OpenRowStays
  <2>4. ASSUME NEW u \in Users,
               \/ \E rate \in Rates, checks \in SUBSET {"not_signed_off", "out_of_band", "ratchet"} :
                    SubmitRentReview(u, r, rate, checks)
               \/ \E now \in SUBSET {"not_signed_off", "ratchet"} : ApproveRentReview(u, r, now)
               \/ WaiveRentReview(u, r) \/ RevertRentReview(u, r)
        PROVE  RentInv'
    BY <2>4, SubmitKeeps, ApproveKeeps, WaiveKeeps, RevertKeeps
  <2> QED
    BY <2>1, <2>2, <2>3, <2>4 DEF ReviewStepOf
<1>4. CASE TenancyStep
  <2>1. CASE \E d \in Dates : DeleteScheduledRateStep(d) \/ \E rate \in Rates : UpsertScheduledRateStep(d, rate)
    BY <2>1, HandKeeps
  <2>2. CASE UNCHANGED <<reviews, steps>>
    BY <2>2, NothingMoves
  <2> QED
    BY <1>4, <2>1, <2>2 DEF TenancyStep, SignOffTenancySchedule, RevokeTenancyScheduleSignOff, IndexArrives,
       SetTenancyArchived, TenancyVacates, SetTenancy, DayPasses
<1> QED
  BY <1>1, <1>2, <1>3, <1>4 DEF RentNext

(* What the schedule holds as applied or waived is the row of a review in that state and  *)
(* of that date, and a rent that went down was a director's decision, for any reviews,    *)
(* dates, edits by hand and reversals (apply.ts, revert.ts, requiredApprovalRoleOf).      *)
THEOREM SettledStaysByRight == RentSpec => []SettledByRight
<1>1. RentInv => SettledByRight
  BY DEF RentInv
<1> QED
  BY <1>1, RentStart, RentStep, PTL DEF RentSpec

-----------------------------------------------------------------------------
(* RentReviews: the rent that is applied is the one that was seen.         *)

\* A set of dates has an earliest one, and a latest.
LEMMA Earliest ==
  ASSUME NEW S \in SUBSET Nat, S # {}
  PROVE  Min(S) \in S /\ \A y \in S : Min(S) <= y
<1> DEFINE Less == {ss \in Nat \X Nat : ss[1] < ss[2]}
<1>1. IsWellFoundedOn(Less, Nat)
  BY NatLessThanWellFounded DEF OpToRel
<1>2. \E x \in S : \A y \in S : ~(<<y, x>> \in Less)
  <2> HIDE DEF Less
  <2> QED
    BY <1>1, WFMin
<1>3. PICK x \in S : \A y \in S : ~(y < x)
  BY <1>2
<1>4. \A y \in S : x <= y
  BY <1>3
<1> QED
  BY <1>4 DEF Min

LEMMA Latest ==
  ASSUME NEW N \in Nat, NEW S \in SUBSET (0..N), S # {}
  PROVE  Max(S) \in S
<1> DEFINE T == {N - t : t \in S}
<1>1. T \in SUBSET Nat /\ T # {}
  <2>1. \A t \in S : N - t \in Nat
    OBVIOUS
  <2> QED
    BY <2>1
<1> HIDE DEF T
<1>2. Min(T) \in T /\ \A y \in T : Min(T) <= y
  BY <1>1, Earliest
<1>3. PICK x \in T : \A y \in T : x <= y
  BY <1>2
<1>4. PICK s \in S : x = N - s
  BY DEF T
<1>5. \A t \in S : N - t \in T
  BY DEF T
<1>6. \A t \in S : s >= t
  BY <1>3, <1>4, <1>5
<1> QED
  BY <1>6 DEF Max

\* What the schedule gives at a date is the sum of the rates applied up to it.
RatesOf(sched) == [e \in Dates |-> sched[e].rate]
AppliedBy(sched, d) == {e \in Dates : e <= d /\ sched[e].set = "applied"}

LEMMA DatesAreFinite == IsFiniteSet(Dates) /\ \A S \in SUBSET Dates : IsFiniteSet(S)
<1>1. IsFiniteSet(Dates)
  BY RentReviewConstants, FS_Interval DEF Dates
<1> QED
  BY <1>1, FS_Subset

LEMMA RentIsTotal ==
  ASSUME NEW sched, NEW d
  PROVE  RentAt(sched, d) = Total(RatesOf(sched), AppliedBy(sched, d))
<1> DEFINE S == AppliedBy(sched, d)
           w == RatesOf(sched)
           Given(f) == f = [s \in SUBSET S |-> IF s = {} THEN 0 ELSE sched[First(s)].rate + f[s \ {First(s)}]]
           g == CHOOSE f : Given(f)
<1>1. IsFiniteSet(S) /\ S \subseteq Dates
  BY DatesAreFinite DEF AppliedBy
<1>2. RentAt(sched, d) = g[S]
  BY DEF RentAt, MapThenSumSet, MapThenFoldSet, First, AppliedBy
<1> HIDE DEF S
<1>3. \A s \in SUBSET S : s # {} => w[First(s)] = sched[First(s)].rate
  BY <1>1, FirstIn DEF RatesOf
<1> HIDE DEF w
<1>4. \A f : IsSum(f, w, S) => Given(f)
  BY <1>3 DEF IsSum
<1>5. Given(g)
  <2>1. \E f : Given(f)
    BY <1>1, <1>4, SumExists
  <2> HIDE DEF Given
  <2> QED
    BY <2>1
<1> HIDE DEF g
<1>6. AddsUp(g, w, S)
  BY <1>3, <1>5 DEF AddsUp
<1>7. Total(w, S) = g[S]
  BY <1>1, <1>6, TotalWithin
<1> QED
  BY <1>2, <1>7 DEF S, w

\* A row applied at a date gives there what was applied before it, and its own rate.
LEMMA RentOnceApplied ==
  ASSUME NEW sched, NEW after, NEW d \in Dates,
         after[d].set = "applied", after[d].rate \in Int,
         \A e \in Dates \ {d} : /\ after[e].set = sched[e].set /\ after[e].rate = sched[e].rate
                                /\ sched[e].rate \in Int
  PROVE  RentAt(after, d) = RentAt(sched, d - 1) + after[d].rate
<1> DEFINE w == RatesOf(sched)
           v == RatesOf(after)
           S == AppliedBy(sched, d - 1)
           T == AppliedBy(after, d)
<1>1. \A e \in Dates : e \in Int
  BY RentReviewConstants DEF Dates
<1>2. d \in T /\ T \ {d} = S /\ S \in SUBSET Dates /\ T \in SUBSET Dates
  BY <1>1 DEF AppliedBy
<1>3. v[d] = after[d].rate /\ (\A e \in Dates : v[e] \in Int) /\ \A e \in S : v[e] = w[e]
  <2>1. \A e \in S : e \in Dates \ {d}
    BY <1>2
  <2> HIDE DEF S
  <2> QED
    BY <2>1 DEF RatesOf
<1>4. RentAt(sched, d - 1) = Total(w, S) /\ RentAt(after, d) = Total(v, T)
  BY RentIsTotal
<1> HIDE DEF S, T, w, v
<1>5. Total(v, T) = v[d] + Total(v, T \ {d}) /\ Total(v, T \ {d}) \in Int
  BY <1>2, <1>3, DatesAreFinite, TotalOf
<1>6. Total(v, S) = Total(w, S)
  BY <1>2, <1>3, DatesAreFinite, TotalSame
<1>7. Total(v, T) = after[d].rate + Total(w, S) /\ Total(w, S) \in Int /\ after[d].rate \in Int
  <2>1. Total(v, T \ {d}) = Total(w, S)
    BY <1>2, <1>6
  <2> QED
    BY <1>3, <1>5, <2>1
<1> QED
  BY <1>4, <1>7

\* Figures are numbers, a review that is made has a date of the lease, and a calculation that
\* is fresh stands on what the schedule gives at the day before its date.
Figures ==
  /\ \A d \in 0..MaxDate : steps[d].rate \in Int
  /\ \A r \in Reviews :
       /\ CalcCounts(reviews[r].calc)
       /\ reviews[r].date \in 0..MaxDate
       /\ reviews[r].state # "none" => reviews[r].date \in Dates
       /\ reviews[r].state = "approved" =>
            /\ \A d \in DOMAIN reviews[r].record.was : reviews[r].record.was[d].rate \in Int
            /\ reviews[r].record.last \in 0..MaxDate
       /\ reviews[r].calc.fresh => reviews[r].calc.base = RentAt(steps, reviews[r].date - 1)

\* The last review date on the tenancy, and the dates the planners go by, are dates too.
IsTenancy(x) == x = [status |-> x.status, archived |-> x.archived, signed |-> x.signed, last |-> x.last,
                     cache |-> x.cache, edits |-> x.edits]

PlanRow == [pc : {"idle", "due", "derived", "schedule", "window"}, date : 0..MaxDate,
            review : Reviews \cup {NoReview}]

LastIsADate == IsTenancy(tenancy) /\ tenancy.last \in 0..MaxDate

PlansHaveDates ==
  /\ plans \in [Planners -> PlanRow]
  /\ \A p \in Planners : plans[p].pc = "schedule" => plans[p].date \in Dates

\* What can happen to a review that neither stands nor goes on: it is applied.
Applied(s) ==
  /\ reviews'[s].date = reviews[s].date /\ reviews[s].state # "none"
  /\ CalcCounts(reviews'[s].calc) /\ ~reviews'[s].calc.fresh
  /\ \A d \in DOMAIN reviews'[s].record.was : reviews'[s].record.was[d].rate \in Int
  /\ reviews'[s].record.last \in 0..MaxDate

\* Figures stay true where every review does one of these, and none is fresh on a schedule
\* that was written.
LEMMA FiguresStay ==
  ASSUME Figures, \A d \in 0..MaxDate : steps'[d].rate \in Int,
         UNCHANGED steps \/ \A s \in Reviews : ~reviews'[s].calc.fresh,
         \A s \in Reviews : Stands(s) \/ Works(s) \/ Applied(s)
  PROVE  Figures'
<1> DEFINE Row(r) ==
      /\ CalcCounts(reviews[r].calc)
      /\ reviews[r].date \in 0..MaxDate
      /\ reviews[r].state # "none" => reviews[r].date \in Dates
      /\ reviews[r].state = "approved" =>
           /\ \A d \in DOMAIN reviews[r].record.was : reviews[r].record.was[d].rate \in Int
           /\ reviews[r].record.last \in 0..MaxDate
<1>1. \A r \in Reviews : Row(r)
  BY DEF Figures
<1>2. \A d \in Dates : d \in 0..MaxDate
  BY RentReviewConstants DEF Dates
<1>3. ASSUME NEW r \in Reviews PROVE Row(r)'
  <2>1. CASE Stands(r)
    BY <1>1, <1>3, <2>1 DEF Stands, CalcCounts
  <2>2. CASE Works(r)
    BY <1>1, <1>2, <1>3, <2>2 DEF Works, CalcStands
  <2>3. CASE Applied(r)
    BY <1>1, <1>3, <2>3 DEF Applied
  <2> QED
    BY <2>1, <2>2, <2>3
<1>4. ASSUME NEW r \in Reviews, reviews'[r].calc.fresh
      PROVE  reviews'[r].calc.base = RentAt(steps', reviews'[r].date - 1)
  <2>1. steps' = steps /\ (reviews[r].calc.fresh => reviews[r].calc.base = RentAt(steps, reviews[r].date - 1))
    BY <1>4 DEF Figures
  <2>2. CASE Stands(r)
    BY <1>4, <2>1, <2>2 DEF Stands
  <2>3. CASE Works(r)
    BY <1>4, <2>1, <2>3 DEF Works, CalcStands
  <2> QED
    BY <1>4, <2>2, <2>3 DEF Applied
<1> QED
  BY <1>3, <1>4 DEF Figures

LEMMA FiguresStart == RentInit => Figures /\ LastIsADate /\ PlansHaveDates
<1> SUFFICES ASSUME RentInit PROVE Figures /\ LastIsADate /\ PlansHaveDates
  OBVIOUS
<1>1. MaxDate \in Nat /\ 0 \in 0..MaxDate
  BY RentReviewConstants
<1>2. \A d \in 0..MaxDate : steps[d].rate \in Int
  BY DEF RentInit, NoStep
<1>3. \A r \in Reviews : /\ CalcCounts(reviews[r].calc) /\ ~reviews[r].calc.fresh
                         /\ reviews[r].date = 0 /\ reviews[r].state = "none"
  BY DEF RentInit, NoRow, NoCalc, CalcCounts
<1>4. LastIsADate
  BY <1>1 DEF RentInit, LastIsADate, IsTenancy
<1>5. PlansHaveDates
  BY <1>1 DEF RentInit, PlansHaveDates, PlanRow, Idle
<1> QED
  BY <1>1, <1>2, <1>3, <1>4, <1>5 DEF Figures

LEMMA OpenRowFigures == ASSUME RentInv, Figures, NEW r \in Reviews, NEW row, OpenRow(r, row) PROVE Figures'
<1>1. \A s \in Reviews : reviews'[s] = IF s = r THEN row ELSE reviews[s]
  BY DEF OpenRow, SetReview, RentInv, ReviewsAreRows
<1>2. \A s \in Reviews \ {r} : Stands(s)
  BY <1>1 DEF Stands
<1>3. Works(r)
  BY <1>1 DEF Works, OpenRow, OpenStates, UnsettledStates
<1>4. steps' = steps
  BY DEF OpenRow
<1> QED
  BY <1>2, <1>3, <1>4, FiguresStay DEF Figures

LEMMA UnmovedFigures == ASSUME Figures, UNCHANGED <<reviews, steps>> PROVE Figures'
<1>1. \A s \in Reviews : Stands(s)
  BY DEF Stands
<1> QED
  BY <1>1, FiguresStay DEF Figures

\* The date the generator derives is a date of the lease, or none.
LEMMA NextIsADate ==
  ASSUME NEW sched, NEW last \in 0..MaxDate, NEW resolved \in SUBSET (0..MaxDate)
  PROVE  DeriveNext(sched, last, resolved) \in 0..MaxDate
<1> DEFINE open == {d \in Dates : d > last /\ sched[d].set = "open" /\ d \notin resolved}
           done == {0, last} \cup resolved \cup {d \in Dates : sched[d].set # "none" /\ d \notin open}
<1>1. MaxDate \in Nat /\ Dates \subseteq 0..MaxDate /\ Dates \subseteq Nat
  BY RentReviewConstants DEF Dates
<1>2. open # {} => Min(open) \in Dates
  <2>1. open \in SUBSET Nat /\ open \subseteq Dates
    BY <1>1
  <2> HIDE DEF open
  <2> QED
    BY <2>1, Earliest
<1>3. Max(done) \in 0..MaxDate
  <2>1. done \in SUBSET (0..MaxDate) /\ done # {}
    <3>1. {0, last} \subseteq 0..MaxDate /\ 0 \in done
      BY <1>1
    <3> HIDE DEF open
    <3> QED
      BY <1>1, <3>1
  <2> HIDE DEF done
  <2> QED
    BY <1>1, <2>1, Latest
<1>4. DeriveNext(sched, last, resolved) =
        IF open # {} THEN Min(open) ELSE IF Max(done) < MaxDate THEN Max(done) + 1 ELSE 0
  BY DEF DeriveNext
<1> HIDE DEF open, done
<1>5. CASE open # {}
  BY <1>1, <1>2, <1>4, <1>5
<1>6. CASE open = {}
  <2>1. PICK m \in 0..MaxDate : m = Max(done)
    BY <1>3
  <2>2. m < MaxDate => m + 1 \in 0..MaxDate
    BY <1>1
  <2>3. 0 \in 0..MaxDate
    BY <1>1
  <2> QED
    BY <1>4, <1>6, <2>1, <2>2, <2>3
<1> QED
  BY <1>5, <1>6

\* The planners write dates of the lease.
LEMMA PlannerPlans ==
  ASSUME RentInv, Figures, LastIsADate, PlansHaveDates, PlannerStep
  PROVE  PlansHaveDates'
<1>1. PICK p \in Planners : PlanReads(p) \/ PlanActs(p) \/ ScheduleNext(p) \/ OpenWindow(p) \/ PlanIsLost(p)
  BY DEF PlannerStep
<1>2. MaxDate \in Nat /\ Dates = (0..MaxDate) \ {0} /\ 0 \in 0..MaxDate
  BY RentReviewConstants DEF Dates
<1>3. plans[p] \in PlanRow /\ plans[p].date \in 0..MaxDate /\ Idle \in PlanRow /\ Idle.pc = "idle"
  BY <1>2 DEF PlansHaveDates, PlanRow, Idle
<1>4. ASSUME NEW row \in PlanRow, plans' = [plans EXCEPT ![p] = row],
             row.pc = "schedule" => row.date \in Dates
      PROVE  PlansHaveDates'
  BY <1>4 DEF PlansHaveDates
<1>5. CASE PlanReads(p)
  <2>1. PICK date : date = DeriveNext(steps, tenancy.last, Resolved)
    OBVIOUS
  <2>2. Resolved \in SUBSET (0..MaxDate)
    BY DEF Resolved, Figures
  <2>3. date \in 0..MaxDate
    BY <2>1, <2>2, NextIsADate DEF LastIsADate
  <2>4. PICK row : row = [pc |-> "derived", date |-> date, review |-> NoReview]
    OBVIOUS
  <2>5. row \in PlanRow /\ row.pc = "derived"
    BY <2>3, <2>4 DEF PlanRow
  <2>6. plans' = [plans EXCEPT ![p] = row]
    BY <1>5, <2>1, <2>4 DEF PlanReads
  <2> QED
    BY <1>4, <2>5, <2>6
<1>6. CASE PlanActs(p)
  <2>1. CASE plans[p].date = 0
    BY <1>3, <1>4, <1>6, <2>1 DEF PlanActs
  <2>2. CASE plans[p].date # 0 /\ OpenReviews = {}
    <3>1. PICK row : row = [plans[p] EXCEPT !.pc = "schedule"]
      OBVIOUS
    <3>2. row \in PlanRow /\ row.date = plans[p].date
      BY <1>3, <3>1 DEF PlanRow
    <3>3. plans' = [plans EXCEPT ![p] = row]
      BY <1>6, <2>2, <3>1 DEF PlanActs
    <3> QED
      BY <1>2, <1>3, <1>4, <2>2, <3>2, <3>3
  <2>3. CASE plans[p].date # 0 /\ OpenReviews # {}
    <3>1. PICK r : r = CHOOSE s \in OpenReviews : TRUE
      OBVIOUS
    <3>2. r \in Reviews /\ reviews[r].date \in 0..MaxDate
      BY <2>3, <3>1 DEF OpenReviews, Figures
    <3>3. PICK row : row = IF reviews[r].state = "scheduled" /\ WithinWindow(reviews[r].date)
                           THEN [pc |-> "window", date |-> reviews[r].date, review |-> r] ELSE Idle
      OBVIOUS
    <3>4. row \in PlanRow /\ row.pc # "schedule"
      BY <1>3, <3>2, <3>3 DEF PlanRow
    <3>5. plans' = [plans EXCEPT ![p] = row]
      BY <1>6, <2>3, <3>1, <3>3 DEF PlanActs
    <3> QED
      BY <1>4, <3>4, <3>5
  <2> QED
    BY <2>1, <2>2, <2>3
<1>7. CASE ScheduleNext(p)
  <2>1. CASE plans' = [plans EXCEPT ![p] = Idle]
    BY <1>3, <1>4, <2>1
  <2>2. CASE plans' # [plans EXCEPT ![p] = Idle]
    <3>1. PICK r \in Reviews :
            plans' = [plans EXCEPT ![p] = IF WithinWindow(plans[p].date)
                        THEN [pc |-> "window", date |-> plans[p].date, review |-> r] ELSE Idle]
      BY <1>7, <2>2 DEF ScheduleNext
    <3>2. PICK row : row = IF WithinWindow(plans[p].date)
                           THEN [pc |-> "window", date |-> plans[p].date, review |-> r] ELSE Idle
      OBVIOUS
    <3>3. row \in PlanRow /\ row.pc # "schedule"
      BY <1>3, <3>2 DEF PlanRow
    <3> QED
      BY <1>4, <3>1, <3>2, <3>3
  <2> QED
    BY <2>1, <2>2
<1>8. CASE OpenWindow(p) \/ PlanIsLost(p)
  BY <1>3, <1>4, <1>8 DEF OpenWindow, PlanIsLost
<1> QED
  BY <1>1, <1>5, <1>6, <1>7, <1>8

LEMMA PlansStay ==
  ASSUME RentInv, Figures, LastIsADate, PlansHaveDates, [RentNext]_rentVars
  PROVE  PlansHaveDates'
<1>1. ASSUME FollowUp PROVE PlansHaveDates'
  <2>1. CASE UNCHANGED plans
    BY <2>1 DEF PlansHaveDates
  <2>2. CASE \E p \in Planners : plans' = [plans EXCEPT ![p] = [Idle EXCEPT !.pc = "due"]]
    <3>1. PICK p \in Planners : plans' = [plans EXCEPT ![p] = [Idle EXCEPT !.pc = "due"]]
      BY <2>2
    <3>2. PICK row : row = [Idle EXCEPT !.pc = "due"]
      OBVIOUS
    <3>3. row \in PlanRow /\ row.pc = "due"
      BY <3>2, RentReviewConstants DEF Idle, PlanRow
    <3> QED
      BY <3>1, <3>2, <3>3 DEF PlansHaveDates
  <2> QED
    BY <1>1, <2>1, <2>2 DEF FollowUp
<1>2. UNCHANGED plans => PlansHaveDates'
  BY DEF PlansHaveDates
<1>3. CASE \E r \in Reviews : ReviewStepOf(r)
  <2>1. PICK r \in Reviews : ReviewStepOf(r)
    BY <1>3
  <2>2. CASE ResumeAwaitingIndex(r) \/ CalculateResumed(r) \/ ApprovalRungRises(r) \/ WriteDueRentCache(r)
    BY <1>2, <2>2 DEF ResumeAwaitingIndex, CalculateResumed, ApprovalRungRises, WriteDueRentCache
  <2>3. ASSUME NEW u \in Users,
               \/ CommenceRentReview(u, r) \/ CalculateRentReview(u, r) \/ ReturnRentReview(u, r)
               \/ \E basis \in Bases : UpdateRentReviewBasis(u, r, basis)
               \/ RevertRentReview(u, r)
        PROVE  PlansHaveDates'
    BY <1>2, <2>3 DEF CommenceRentReview, CalculateRentReview, ReturnRentReview, UpdateRentReviewBasis, RevertRentReview
  <2>4. ASSUME NEW u \in Users, NEW c, ApplyReview(u, r, c) PROVE PlansHaveDates'
    BY <1>1, <2>4 DEF ApplyReview
  <2>5. ASSUME NEW u \in Users, NEW rate \in Rates, NEW checks, SubmitRentReview(u, r, rate, checks)
        PROVE  PlansHaveDates'
    <3>1. (\E c : ApplyReview(u, r, c)) \/ UNCHANGED plans
      BY <2>5 DEF SubmitRentReview
    <3> QED
      BY <1>2, <2>4, <3>1
  <2>6. ASSUME NEW u \in Users, NEW now, ApproveRentReview(u, r, now) PROVE PlansHaveDates'
    BY <2>4, <2>6 DEF ApproveRentReview
  <2>7. ASSUME NEW u \in Users, WaiveRentReview(u, r) \/ CancelRentReview(u, r) PROVE PlansHaveDates'
    BY <1>1, <1>2, <2>7 DEF WaiveRentReview, CancelRentReview
  <2> QED
    BY <2>1, <2>2, <2>3, <2>5, <2>6, <2>7 DEF ReviewStepOf
<1>4. CASE TenancyStep
  BY <1>2, <1>4 DEF TenancyStep, SignOffTenancySchedule, RevokeTenancyScheduleSignOff, UpsertScheduledRateStep,
     DeleteScheduledRateStep, ScheduleWrite, IndexArrives, SetTenancyArchived, TenancyVacates, SetTenancy, DayPasses
<1> QED
  BY <1>2, <1>3, <1>4, PlannerPlans DEF RentNext, rentVars

\* The tenancy keeps a date of the lease as its last review date.
Dated(x) == IsTenancy(x) /\ x.last \in 0..MaxDate

LEMMA TenancyFits ==
  ASSUME NEW x, Dated(x), NEW v
  PROVE  /\ Dated([x EXCEPT !.signed = v]) /\ Dated([x EXCEPT !.archived = v]) /\ Dated([x EXCEPT !.status = v])
         /\ Dated([x EXCEPT !.cache = v]) /\ Dated([x EXCEPT !.edits = v])
<1>1. x = [status |-> x.status, archived |-> x.archived, signed |-> x.signed, last |-> x.last,
           cache |-> x.cache, edits |-> x.edits]
  BY DEF Dated, IsTenancy
<1>2. x.last \in 0..MaxDate
  BY DEF Dated
<1>3. ASSUME NEW y, \/ y = [x EXCEPT !.signed = v] \/ y = [x EXCEPT !.archived = v] \/ y = [x EXCEPT !.status = v]
                    \/ y = [x EXCEPT !.cache = v] \/ y = [x EXCEPT !.edits = v]
      PROVE  Dated(y)
  BY <1>1, <1>2, <1>3 DEF Dated, IsTenancy
<1> QED
  BY <1>3

LEMMA LastFits ==
  ASSUME NEW x, Dated(x), NEW last \in 0..MaxDate, NEW v
  PROVE  Dated([x EXCEPT !.last = last, !.cache = v])
<1>1. PICK y : y = [x EXCEPT !.last = last, !.cache = v]
  OBVIOUS
<1>2. y = [status |-> x.status, archived |-> x.archived, signed |-> x.signed, last |-> last,
           cache |-> v, edits |-> x.edits]
  BY <1>1 DEF Dated, IsTenancy
<1> QED
  BY <1>1, <1>2 DEF Dated, IsTenancy

LEMMA CountedFits == ASSUME NEW row, Dated(row), CountEdit(row) PROVE LastIsADate'
<1>1. PICK n : n = row.edits + 1
  OBVIOUS
<1>2. tenancy' = [row EXCEPT !.edits = n]
  BY <1>1 DEF CountEdit
<1>3. Dated(tenancy')
  BY <1>2, TenancyFits
<1> QED
  BY <1>3 DEF Dated, LastIsADate

LEMMA LastStays ==
  ASSUME RentInv, Figures, LastIsADate, [RentNext]_rentVars
  PROVE  LastIsADate'
<1>1. Dated(tenancy)
  BY DEF LastIsADate, Dated
<1>2. UNCHANGED tenancy => LastIsADate'
  BY DEF LastIsADate
<1>3. CountEdit(tenancy) => LastIsADate'
  BY <1>1, CountedFits
<1>4. ASSUME NEW v, SetTenancy([tenancy EXCEPT !.signed = v]) \/ SetTenancy([tenancy EXCEPT !.archived = v])
                    \/ SetTenancy([tenancy EXCEPT !.status = v]) \/ CountEdit([tenancy EXCEPT !.signed = v])
                    \/ tenancy' = [tenancy EXCEPT !.signed = v] \/ tenancy' = [tenancy EXCEPT !.cache = v]
      PROVE  LastIsADate'
  <2>1. \A row : SetTenancy(row) => CountEdit(row)
    BY DEF SetTenancy
  <2>2. PICK t : t = tenancy
    OBVIOUS
  <2>3. PICK signed, archived, status, cache :
          /\ signed = [t EXCEPT !.signed = v] /\ archived = [t EXCEPT !.archived = v]
          /\ status = [t EXCEPT !.status = v] /\ cache = [t EXCEPT !.cache = v]
    OBVIOUS
  <2>4. Dated(signed) /\ Dated(archived) /\ Dated(status) /\ Dated(cache)
    BY <1>1, <2>2, <2>3, TenancyFits
  <2>5. \/ CountEdit(signed) \/ CountEdit(archived) \/ CountEdit(status)
        \/ tenancy' = signed \/ tenancy' = cache
    BY <1>4, <2>1, <2>2, <2>3
  <2>6. CASE CountEdit(signed) \/ CountEdit(archived) \/ CountEdit(status)
    BY <2>4, <2>6, CountedFits
  <2>7. CASE tenancy' = signed \/ tenancy' = cache
    BY <2>4, <2>7 DEF Dated, LastIsADate
  <2> QED
    BY <2>5, <2>6, <2>7
<1>5. ASSUME NEW u \in Users, NEW r \in Reviews, NEW c, ApplyReview(u, r, c) PROVE LastIsADate'
  <2>1. PICK last, cache : /\ last = IF reviews[r].date >= tenancy.last THEN reviews[r].date ELSE tenancy.last
                           /\ cache = IF reviews[r].date <= today THEN NewRent(c) ELSE tenancy.cache
    OBVIOUS
  <2>2. last \in 0..MaxDate
    BY <1>1, <2>1 DEF Figures, Dated
  <2>3. tenancy' = [tenancy EXCEPT !.last = last, !.cache = cache]
    BY <1>5, <2>1, Zenon DEF ApplyReview
  <2>4. Dated(tenancy')
    BY <1>1, <2>2, <2>3, LastFits
  <2> QED
    BY <2>4 DEF Dated, LastIsADate
<1>6. ASSUME NEW u \in Users, NEW r \in Reviews, RevertRentReview(u, r) PROVE LastIsADate'
  <2>1. PICK last, cache : /\ last = reviews[r].record.last
                           /\ cache = IF reviews[r].record.cache = "written" THEN reviews[r].record.cacheWas
                                      ELSE tenancy.cache
    OBVIOUS
  <2>2. last \in 0..MaxDate
    BY <1>6, <2>1 DEF RevertRentReview, CanRevert, Figures
  <2>3. PICK row : row = [tenancy EXCEPT !.last = last, !.cache = cache]
    OBVIOUS
  <2>4. CountEdit(row)
    BY <1>6, <2>1, <2>3, Zenon DEF RevertRentReview
  <2> QED
    BY <1>1, <2>2, <2>3, <2>4, LastFits, CountedFits
<1>7. CASE PlannerStep
  BY <1>2, <1>3, <1>7 DEF PlannerStep, PlanReads, PlanActs, ScheduleNext, OpenWindow, PlanIsLost
<1>8. CASE \E r \in Reviews : ReviewStepOf(r)
  <2>1. PICK r \in Reviews : ReviewStepOf(r)
    BY <1>8
  <2>2. CASE ResumeAwaitingIndex(r) \/ CalculateResumed(r) \/ ApprovalRungRises(r)
    BY <1>2, <2>2 DEF ResumeAwaitingIndex, CalculateResumed, ApprovalRungRises
  <2>3. CASE WriteDueRentCache(r)
    <3>1. PICK rent : tenancy' = [tenancy EXCEPT !.cache = rent]
      BY <2>3 DEF WriteDueRentCache
    <3> QED
      BY <1>4, <3>1
  <2>4. ASSUME NEW u \in Users,
               \/ CommenceRentReview(u, r) \/ CalculateRentReview(u, r) \/ ReturnRentReview(u, r)
               \/ \E basis \in Bases : UpdateRentReviewBasis(u, r, basis)
               \/ WaiveRentReview(u, r) \/ CancelRentReview(u, r)
        PROVE  LastIsADate'
    BY <1>2, <1>3, <2>4 DEF CommenceRentReview, CalculateRentReview, ReturnRentReview, UpdateRentReviewBasis,
       WaiveRentReview, CancelRentReview
  <2>5. ASSUME NEW u \in Users, NEW rate \in Rates, NEW checks, SubmitRentReview(u, r, rate, checks)
        PROVE  LastIsADate'
    <3>1. (\E c : ApplyReview(u, r, c)) \/ UNCHANGED tenancy
      BY <2>5 DEF SubmitRentReview
    <3> QED
      BY <1>2, <1>5, <3>1
  <2>6. ASSUME NEW u \in Users, NEW now, ApproveRentReview(u, r, now) PROVE LastIsADate'
    BY <1>5, <2>6 DEF ApproveRentReview
  <2> QED
    BY <1>6, <2>1, <2>2, <2>3, <2>4, <2>5, <2>6 DEF ReviewStepOf
<1>9. CASE TenancyStep
  <2>1. CASE \E d \in Dates : DeleteScheduledRateStep(d) \/ \E rate \in Rates : UpsertScheduledRateStep(d, rate)
    BY <1>4, <2>1 DEF DeleteScheduledRateStep, UpsertScheduledRateStep, ScheduleWrite
  <2>2. CASE IndexArrives \/ DayPasses
    BY <1>2, <2>2 DEF IndexArrives, DayPasses
  <2>3. CASE SetTenancyArchived \/ TenancyVacates
    <3>1. PICK archived : archived = ~tenancy.archived
      OBVIOUS
    <3>2. SetTenancyArchived => SetTenancy([tenancy EXCEPT !.archived = archived])
      BY <3>1 DEF SetTenancyArchived
    <3> QED
      BY <1>4, <2>3, <3>2 DEF TenancyVacates
  <2>4. ASSUME NEW u \in Users, SignOffTenancySchedule(u) \/ RevokeTenancyScheduleSignOff(u) PROVE LastIsADate'
    BY <1>4, <2>4 DEF SignOffTenancySchedule, RevokeTenancyScheduleSignOff
  <2> QED
    BY <1>9, <2>1, <2>2, <2>3, <2>4 DEF TenancyStep
<1> QED
  BY <1>2, <1>7, <1>8, <1>9 DEF RentNext, rentVars

\* A review is applied on the calculation its approver saw, and only while nothing has been
\* written since: no submission changes what the calculation stands on.
AppliedAsSeen(u, r, c) ==
  /\ ApplyReview(u, r, c) /\ reviews[r].state \in {"in_progress", "awaiting_approval"}
  /\ c.chosen \in Int /\ reviews[r].calc.fresh /\ c.base = reviews[r].calc.base

LEMMA ApproveDoes ==
  ASSUME Figures, NEW u, NEW r \in Reviews, NEW now, ApproveRentReview(u, r, now)
  PROVE  AppliedAsSeen(u, r, reviews[r].calc)
BY DEF ApproveRentReview, CanApply, OnThisSchedule, AppliedAsSeen, Figures, CalcCounts

\* The rates after a row is placed.
LEMMA AppliedRates ==
  ASSUME RentInv, Figures, NEW u, NEW r \in Reviews, NEW c, AppliedAsSeen(u, r, c)
  PROVE  /\ reviews[r].date \in Dates
         /\ steps'[reviews[r].date].set = "applied" /\ steps'[reviews[r].date].rate = c.chosen
         /\ \A e \in (0..MaxDate) \ {reviews[r].date} : /\ steps'[e].set = steps[e].set
                                                        /\ steps'[e].rate = steps[e].rate
         /\ \A e \in 0..MaxDate : steps'[e].rate \in Int
<1>1. PICK placed : placed = [set |-> "applied", by |-> r, rate |-> c.chosen, end |-> 0]
  OBVIOUS
<1>2. IsStep(placed) /\ placed.set = "applied" /\ placed.rate = c.chosen
  BY <1>1 DEF IsStep
<1>3. PICK sched, date : sched = steps /\ date = reviews[r].date
  OBVIOUS
<1>4. steps' = PlaceStep(sched, date, placed)
  BY <1>1, <1>3, ApplyDoes DEF AppliedAsSeen
<1>5. \A e \in 0..MaxDate : /\ steps'[e].set = IF e = date THEN placed.set ELSE sched[e].set
                            /\ steps'[e].rate = IF e = date THEN placed.rate ELSE sched[e].rate
  BY <1>2, <1>3, <1>4, PlacedRow DEF RentInv
<1>6. date \in Dates
  BY <1>3 DEF Figures, AppliedAsSeen
<1>7. \A e \in Dates : e \in 0..MaxDate
  BY RentReviewConstants DEF Dates
<1>8. \A e \in 0..MaxDate : steps[e].rate \in Int
  BY DEF Figures
<1> QED
  BY <1>2, <1>3, <1>5, <1>6, <1>7, <1>8 DEF AppliedAsSeen

\* The rent of the schedule, once a review is applied, is the rent that was worked out.
LEMMA SeenIsApplied ==
  ASSUME RentInv, Figures, NEW u, NEW r \in Reviews, NEW c, AppliedAsSeen(u, r, c)
  PROVE  RentAt(steps', reviews[r].date) = NewRent(reviews'[r].calc)
<1>1. PICK sched, after, date : sched = steps /\ after = steps' /\ date = reviews[r].date
  OBVIOUS
<1>2. /\ date \in Dates /\ after[date].set = "applied" /\ after[date].rate = c.chosen /\ c.chosen \in Int
      /\ \A e \in Dates \ {date} : /\ after[e].set = sched[e].set /\ after[e].rate = sched[e].rate
                                   /\ sched[e].rate \in Int
  <2>1. \A e \in Dates : e \in 0..MaxDate
    BY RentReviewConstants DEF Dates
  <2> QED
    BY <1>1, <2>1, AppliedRates DEF Figures, AppliedAsSeen
<1>3. RentAt(after, date) = RentAt(sched, date - 1) + c.chosen
  BY <1>2, RentOnceApplied
<1>4. c.base = RentAt(sched, date - 1)
  BY <1>1 DEF AppliedAsSeen, Figures
<1>5. reviews'[r].calc.base = c.base /\ reviews'[r].calc.chosen = c.chosen
  <2>1. ApplyReview(u, r, c)
    BY DEF AppliedAsSeen
  <2> QED
    BY <2>1, ApplyDoes
<1> QED
  BY <1>1, <1>3, <1>4, <1>5 DEF NewRent

LEMMA ApplyFigures ==
  ASSUME RentInv, Figures, LastIsADate, NEW u, NEW r \in Reviews, NEW c, AppliedAsSeen(u, r, c)
  PROVE  Figures'
<1>1. \A d \in 0..MaxDate : steps'[d].rate \in Int /\ steps[d].rate \in Int
  BY AppliedRates DEF Figures
<1>2. /\ \A s \in Reviews : ~reviews'[s].calc.fresh
      /\ \A s \in Reviews \ {r} : Stands(s)
      /\ reviews'[r].date = reviews[r].date /\ reviews'[r].state = "approved"
      /\ reviews'[r].calc.chosen = c.chosen /\ reviews'[r].calc.rate = 0
      /\ reviews'[r].record.last = tenancy.last
  <2>1. ApplyReview(u, r, c)
    BY DEF AppliedAsSeen
  <2>2. \A s \in Reviews : ~reviews'[s].calc.fresh
    BY <2>1, ApplyDoes
  <2>3. \A s \in Reviews \ {r} : Stands(s)
    BY <2>1, ApplyDoes
  <2>4. /\ reviews'[r].date = reviews[r].date /\ reviews'[r].state = "approved"
        /\ reviews'[r].calc.chosen = c.chosen /\ reviews'[r].calc.rate = 0
        /\ reviews'[r].record.last = tenancy.last
    BY <2>1, ApplyDoes
  <2> QED
    BY <2>2, <2>3, <2>4
<1>3. \A d \in DOMAIN reviews'[r].record.was : reviews'[r].record.was[d].rate \in Int
  <2>1. PICK D, was : D = Changed(steps, steps') /\ was = reviews'[r].record.was
    OBVIOUS
  <2>2. was = [d \in D |-> steps[d]] /\ D \subseteq 0..MaxDate
    BY <2>1, ApplyDoes DEF AppliedAsSeen, Rows, Changed
  <2> QED
    BY <1>1, <2>1, <2>2
<1>4. Applied(r)
  BY <1>2, <1>3 DEF Applied, AppliedAsSeen, CalcCounts, LastIsADate
<1> QED
  BY <1>1, <1>2, <1>4, FiguresStay

LEMMA WaiveFigures ==
  ASSUME RentInv, Figures, NEW u \in Users, NEW r \in Reviews, WaiveRentReview(u, r)
  PROVE  Figures'
<1>1. PICK placed, date, sched : /\ placed = [set |-> "waived", by |-> r, rate |-> 0, end |-> 0]
                                 /\ date = reviews[r].date /\ sched = steps
  OBVIOUS
<1>2. IsStep(placed) /\ placed.rate = 0
  BY <1>1 DEF IsStep
<1>3. steps' = PlaceStep(sched, date, placed)
  BY <1>1 DEF WaiveRentReview, ReviewStep
<1>4. \A d \in 0..MaxDate : steps'[d].rate = (IF d = date THEN placed.rate ELSE sched[d].rate)
  BY <1>1, <1>2, <1>3, PlacedRow DEF RentInv
<1>5. \A d \in 0..MaxDate : steps'[d].rate \in Int
  BY <1>1, <1>2, <1>4 DEF Figures
<1>6. PICK x, row : x = reviews[r] /\ row = Over("waived", x)
  OBVIOUS
<1>7. IsReview(row) /\ row.state = "waived" /\ row.date = x.date /\ row.calc.rate = 0 /\ row.calc.chosen = 0
  BY <1>6, OverFits DEF NoCalc
<1>8. reviews' = Stale([reviews EXCEPT ![r] = row])
  BY <1>6 DEF WaiveRentReview
<1>9. /\ \A s \in Reviews : ~reviews'[s].calc.fresh
      /\ \A s \in Reviews \ {r} : Stands(s)
      /\ reviews'[r].state = "waived" /\ reviews'[r].date = x.date
      /\ reviews'[r].calc.rate = 0 /\ reviews'[r].calc.chosen = 0
  BY <1>7, <1>8, StaledKeeps
<1>10. Works(r)
  <2>1. reviews[r].state # "none"
    BY DEF WaiveRentReview, OpenStates
  <2> QED
    BY <1>6, <1>9, <2>1 DEF Works, CalcStands, CalcCounts
<1> QED
  BY <1>5, <1>9, <1>10, FiguresStay

LEMMA RevertFigures ==
  ASSUME RentInv, Figures, NEW u \in Users, NEW r \in Reviews, RevertRentReview(u, r)
  PROVE  Figures'
<1>1. PICK was : was = reviews[r].record.was
  OBVIOUS
<1>2. steps' = [d \in 0..MaxDate |-> IF d \in DOMAIN was THEN was[d] ELSE steps[d]]
  BY <1>1 DEF RevertRentReview
<1>3. \A d \in DOMAIN was : was[d].rate \in Int
  BY <1>1 DEF RevertRentReview, CanRevert, Figures
<1>4. \A d \in 0..MaxDate : steps'[d].rate \in Int
  BY <1>2, <1>3 DEF Figures
<1> QED
  BY <1>4, RevertRows, FiguresStay

LEMMA HandFigures ==
  ASSUME RentInv, Figures, NEW d \in Dates,
         DeleteScheduledRateStep(d) \/ \E rate \in Rates : UpsertScheduledRateStep(d, rate)
  PROVE  Figures'
<1>1. /\ reviews' = Stale(reviews)
      /\ \A e \in 0..MaxDate : steps'[e].rate = steps[e].rate \/ steps'[e].rate \in Int
  BY HandWrites DEF RentInv
<1>2. \A e \in 0..MaxDate : steps'[e].rate \in Int
  BY <1>1 DEF Figures
<1> QED
  BY <1>1, <1>2, StaleKeeps, FiguresStay

\* A review is scheduled for the date the planner had derived.
LEMMA PlannerFigures == ASSUME RentInv, Figures, PlansHaveDates, PlannerStep PROVE Figures'
<1>1. PICK p \in Planners : PlanReads(p) \/ PlanActs(p) \/ ScheduleNext(p) \/ OpenWindow(p) \/ PlanIsLost(p)
  BY DEF PlannerStep
<1>2. UNCHANGED steps
  BY <1>1 DEF PlanReads, PlanActs, ScheduleNext, OpenWindow, PlanIsLost
<1>3. reviews = [s \in Reviews |-> reviews[s]]
  BY DEF RentInv, ReviewsAreRows
<1>4. CASE UNCHANGED reviews
  BY <1>2, <1>4, UnmovedFigures
<1>5. ASSUME NEW r \in Reviews, NEW row, SetReview(r, row), Works(r) PROVE Figures'
  <2>1. \A s \in Reviews \ {r} : Stands(s)
    BY <1>3, <1>5 DEF SetReview, Stands
  <2> QED
    BY <1>2, <1>5, <2>1, FiguresStay DEF Figures
<1>6. CASE ScheduleNext(p) /\ ~UNCHANGED reviews
  <2>1. PICK r \in Reviews :
          /\ reviews[r].state = "none"
          /\ SetReview(r, [NoRow EXCEPT !.state = "scheduled", !.date = plans[p].date])
    BY <1>6 DEF ScheduleNext
  <2>2. PICK row : row = [NoRow EXCEPT !.state = "scheduled", !.date = plans[p].date]
    OBVIOUS
  <2>3. row.state = "scheduled" /\ row.date = plans[p].date /\ row.calc = NoCalc
    BY <2>2 DEF NoRow
  <2>4. plans[p].date \in Dates
    BY <1>6 DEF ScheduleNext, PlansHaveDates
  <2>5. reviews'[r] = row /\ SetReview(r, row)
    BY <1>3, <2>1, <2>2 DEF SetReview
  <2>6. Works(r)
    BY <2>3, <2>4, <2>5 DEF Works, CalcStands, CalcCounts, NoCalc
  <2> QED
    BY <1>5, <2>5, <2>6
<1>7. CASE OpenWindow(p) /\ ~UNCHANGED reviews
  <2>1. PICK r : r = plans[p].review
    OBVIOUS
  <2>2. reviews' = [reviews EXCEPT ![r].state = IF @ = "scheduled" THEN "due" ELSE @]
    BY <1>7, <2>1 DEF OpenWindow
  <2>3. r \in Reviews
    BY <1>3, <1>7, <2>2
  <2>4. PICK state : state = IF reviews[r].state = "scheduled" THEN "due" ELSE reviews[r].state
    OBVIOUS
  <2>5. PICK x, row : x = reviews[r] /\ row = [x EXCEPT !.state = state]
    OBVIOUS
  <2>6. row.state = state /\ row.date = x.date /\ row.calc = x.calc /\ row.record = x.record /\ row.approver = x.approver
    BY <2>3, <2>5 DEF RentInv, ReviewsAreRows, IsReview
  <2>7. SetReview(r, row) /\ reviews'[r] = row
    BY <1>3, <2>2, <2>3, <2>4, <2>5 DEF SetReview
  <2>8. Works(r) \/ Stands(r)
    <3>1. CASE x.state = "scheduled"
      BY <2>4, <2>5, <2>6, <2>7, <3>1 DEF Works, CalcStands
    <3>2. CASE x.state # "scheduled"
      BY <2>4, <2>5, <2>6, <2>7, <3>2 DEF Stands
    <3> QED
      BY <3>1, <3>2
  <2>9. \A s \in Reviews \ {r} : Stands(s)
    BY <1>3, <2>7 DEF SetReview, Stands
  <2> QED
    BY <1>2, <2>3, <2>8, <2>9, FiguresStay DEF Figures
<1> QED
  BY <1>1, <1>4, <1>6, <1>7 DEF PlanReads, PlanActs, PlanIsLost

\* A step that approves a review applies it, and every step keeps the figures true.
LEMMA EveryRentStep ==
  ASSUME RentInv, Figures, LastIsADate, PlansHaveDates, [RentNext]_rentVars
  PROVE  /\ Figures'
         /\ \A r \in Reviews : reviews[r].state # "approved" /\ reviews'[r].state = "approved" =>
              RentAt(steps', reviews[r].date) = NewRent(reviews'[r].calc)
<1> DEFINE SeenByAll == \A s \in Reviews : reviews[s].state # "approved" /\ reviews'[s].state = "approved" =>
                     RentAt(steps', reviews[s].date) = NewRent(reviews'[s].calc)
<1>1. ASSUME \A s \in Reviews : Stands(s) \/ Works(s) PROVE SeenByAll
  BY <1>1 DEF Stands, Works
<1>2. ASSUME NEW u, NEW r \in Reviews, NEW c, AppliedAsSeen(u, r, c) PROVE Figures' /\ SeenByAll
  <2>1. \A s \in Reviews \ {r} : Stands(s)
    BY <1>2, ApplyDoes DEF AppliedAsSeen
  <2> QED
    BY <1>2, <2>1, ApplyFigures, SeenIsApplied DEF Stands
<1>3. ASSUME UNCHANGED <<reviews, steps>> PROVE Figures' /\ SeenByAll
  BY <1>3, UnmovedFigures
<1>4. ASSUME NEW r \in Reviews, NEW row, OpenRow(r, row) PROVE Figures' /\ SeenByAll
  <2>1. \A s \in Reviews : reviews'[s] = IF s = r THEN row ELSE reviews[s]
    BY <1>4 DEF OpenRow, SetReview, RentInv, ReviewsAreRows
  <2>2. row.state # "approved"
    BY <1>4 DEF OpenRow, OpenStates, UnsettledStates
  <2> QED
    BY <1>4, <2>1, <2>2, OpenRowFigures
<1>5. CASE PlannerStep
  <2>1. Figures'
    BY <1>5, PlannerFigures
  <2>2. \A s \in Reviews : reviews[s].state # "approved" => reviews'[s].state # "approved"
    <3>1. PICK p \in Planners : PlanReads(p) \/ PlanActs(p) \/ ScheduleNext(p) \/ OpenWindow(p) \/ PlanIsLost(p)
      BY <1>5 DEF PlannerStep
    <3>2. reviews = [s \in Reviews |-> reviews[s]] /\ \A s \in Reviews : IsReview(reviews[s])
      BY DEF RentInv, ReviewsAreRows
    <3>3. CASE ScheduleNext(p)
      <4>1. NoRow.state = "none" /\ \A d : [NoRow EXCEPT !.state = "scheduled", !.date = d].state = "scheduled"
        BY DEF NoRow
      <4> QED
        BY <3>2, <3>3, <4>1 DEF ScheduleNext, SetReview
    <3>4. CASE OpenWindow(p)
      BY <3>2, <3>4 DEF OpenWindow, IsReview
    <3> QED
      BY <3>1, <3>3, <3>4 DEF PlanReads, PlanActs, PlanIsLost
  <2> QED
    BY <2>1, <2>2
<1>6. CASE \E r \in Reviews : ReviewStepOf(r)
  <2>1. PICK r \in Reviews : ReviewStepOf(r)
    BY <1>6
  <2>2. CASE WriteDueRentCache(r)
    <3>1. \A d \in 0..MaxDate : steps'[d].rate \in Int
      BY <2>2, DueCacheWrites DEF Figures
    <3> QED
      BY <1>1, <2>2, <3>1, DueCacheWrites, FiguresStay
  <2>3. CASE ResumeAwaitingIndex(r) \/ CalculateResumed(r) \/ ApprovalRungRises(r)
    <3>1. \E row : OpenRow(r, row)
      BY <2>3, WorkDoes
    <3> QED
      BY <1>4, <3>1
  <2>4. ASSUME NEW u \in Users,
               \/ CommenceRentReview(u, r) \/ CalculateRentReview(u, r) \/ ReturnRentReview(u, r)
               \/ \E basis \in Bases : UpdateRentReviewBasis(u, r, basis)
               \/ CancelRentReview(u, r)
        PROVE  Figures' /\ SeenByAll
    <3>1. \E row : OpenRow(r, row)
      BY <2>4, WorkDoes
    <3> QED
      BY <1>4, <3>1
  <2>5. ASSUME NEW u \in Users, NEW rate \in Rates, NEW checks, SubmitRentReview(u, r, rate, checks)
        PROVE  Figures' /\ SeenByAll
    <3>1. (\E c : AppliedAsSeen(u, r, c)) \/ \E row : OpenRow(r, row)
      BY <2>5, SubmitDoes DEF AppliedAsSeen
    <3> QED
      BY <1>2, <1>4, <3>1
  <2>6. ASSUME NEW u \in Users, NEW now, ApproveRentReview(u, r, now) PROVE Figures' /\ SeenByAll
    BY <1>2, <2>6, ApproveDoes
  <2>7. ASSUME NEW u \in Users, WaiveRentReview(u, r) PROVE Figures' /\ SeenByAll
    <3>1. \A s \in Reviews : reviews[s].state # "approved" => reviews'[s].state # "approved"
      <4>1. PICK x, row : x = reviews[r] /\ row = Over("waived", x)
        OBVIOUS
      <4>2. IsReview(row) /\ row.state = "waived" /\ reviews' = Stale([reviews EXCEPT ![r] = row])
        BY <2>7, <4>1, OverFits DEF WaiveRentReview
      <4>3. reviews'[r].state = row.state /\ \A s \in Reviews \ {r} : Stands(s)
        BY <4>2, StaledKeeps
      <4> QED
        BY <4>2, <4>3 DEF Stands
    <3> QED
      BY <2>7, <3>1, WaiveFigures
  <2>8. ASSUME NEW u \in Users, RevertRentReview(u, r) PROVE Figures' /\ SeenByAll
    BY <1>1, <2>8, RevertRows, RevertFigures
  <2> QED
    BY <2>1, <2>2, <2>3, <2>4, <2>5, <2>6, <2>7, <2>8 DEF ReviewStepOf
<1>7. CASE TenancyStep
  <2>1. ASSUME NEW d \in Dates, DeleteScheduledRateStep(d) \/ \E rate \in Rates : UpsertScheduledRateStep(d, rate)
        PROVE  Figures' /\ SeenByAll
    <3>1. reviews' = Stale(reviews)
      BY <2>1, HandWrites DEF RentInv
    <3> QED
      BY <1>1, <2>1, <3>1, StaleKeeps, HandFigures
  <2> QED
    BY <1>3, <1>7, <2>1 DEF TenancyStep, SignOffTenancySchedule, RevokeTenancyScheduleSignOff, IndexArrives,
       SetTenancyArchived, TenancyVacates, SetTenancy, DayPasses
<1> QED
  BY <1>3, <1>5, <1>6, <1>7 DEF RentNext, rentVars

(* The rent the schedule gives when a review is approved is the rent its approver was     *)
(* shown, for any schedule, edits by hand and reviews before it: every write makes the    *)
(* calculations stale, and a fresh one is applied over the very rows it was worked out    *)
(* from (calculateReview, applyReview's check of ScheduleVersion, runScheduleWrite).      *)
THEOREM TheRentSeenIsApplied == RentSpec => AppliedRentIsTheOneSeen
<1> DEFINE FigureInv == RentInv /\ Figures /\ LastIsADate /\ PlansHaveDates
<1>1. RentInit => FigureInv
  BY RentStart, FiguresStart
<1>2. FigureInv /\ [RentNext]_rentVars => FigureInv'
  BY RentStep, EveryRentStep, LastStays, PlansStay
<1>3. FigureInv /\ [RentNext]_rentVars
        => [\A r \in Reviews : reviews[r].state # "approved" /\ reviews'[r].state = "approved" =>
              RentAt(steps', reviews[r].date) = NewRent(reviews'[r].calc)]_rentVars
  BY EveryRentStep
<1> HIDE DEF FigureInv
<1> QED
  BY <1>1, <1>2, <1>3, PTL DEF RentSpec, AppliedRentIsTheOneSeen

=============================================================================
