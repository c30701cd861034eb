---------------------------- MODULE ManagedTapes ----------------------------
(***************************************************************************)
(* One managed meeting's uploaded tapes: the files under its workspace, the *)
(* rows and the tape set of the registry, and the archives that license a  *)
(* delete (service/managed.py, tapestore.py, archive.py).                  *)
(*                                                                         *)
(* A body of bytes is the number of the upload that brought it; a path is  *)
(* a wanted name and the suffix unique_path gave it.  The guards that only *)
(* look at the request (name, extension, size, free space, containment)    *)
(* change nothing when they refuse, and are left out.                      *)
(***************************************************************************)
EXTENDS Naturals, FiniteSets, FiniteSetsExt

CONSTANTS
    Uploader, Deleter, Archiver,    \* requests being served
    Wants,          \* Wants[u]: the file name uploader u brings
    UploadId,       \* the upload ids clients may name
    MaxUploads,     \* bound: uploads ever begun
    MaxArchives,    \* bound: archive directories
    TapeScenarios   \* what may happen in a behaviour: a set of sets

ASSUME TapeBounds ==
    /\ MaxUploads \in Nat /\ MaxArchives \in Nat
    /\ TapeScenarios \subseteq SUBSET {"archive", "race", "delete", "id", "audit", "crash"}

Body    == 1 .. MaxUploads
NoBody  == 0
Path    == {Wants[u] : u \in Uploader} \X Body      \* <<name, 1>> is the name itself
Scratch == UploadId \union Body                     \* a random scratch name is its upload's
Dir     == 1 .. MaxArchives

VARIABLES
    tapeMay,        \* the scenario of this behaviour: whether tapes are archived
                    \* ("archive"), by two requests at once ("race"), and
                    \* deleted ("delete"), clients name their
                    \* upload ("id"), the audit log fails ("audit"), the process
                    \* dies ("crash")
    tapeFile,       \* tapeFile[p]: the bytes at p, or NoBody
    tapeScratch,    \* tapeScratch[s]: the upload whose .part file sits at s, or NoBody
    tapeRows,       \* the registry's tape rows
    tapeSet,        \* the paths of the meeting's latest tape set
    tapeEver,       \* the bodies a committed row ever named
    tapeUploads,    \* uploads begun
    upl,            \* what each uploader is in the middle of
    del,            \* ... each deleter
    arc,            \* ... each archiver
    arcDir,         \* arcDir[d]: an archive directory
    arcRows         \* the directories the registry recorded as archives

tapeFacts == <<tapeRows, tapeSet, tapeEver>>
arcVars   == <<arc, arcDir, arcRows>>
tapesVars == <<tapeMay, tapeFile, tapeScratch, tapeFacts, tapeUploads, upl, del, arcVars>>

NoUpload  == [at |-> "idle", body |-> NoBody, scratch |-> NoBody, target |-> <<>>]
NoDelete  == [at |-> "idle", batch |-> {}, path |-> <<>>]
NoArchive == [at |-> "idle", dir |-> 0, todo |-> {}]
NoDir     == [exists |-> FALSE, copies |-> {}, sealed |-> FALSE, damaged |-> FALSE]

TapesInit ==
    /\ tapeMay \in TapeScenarios
    /\ tapeFile = [p \in Path |-> NoBody]
    /\ tapeScratch = [s \in Scratch |-> NoBody]
    /\ tapeRows = {} /\ tapeSet = {} /\ tapeEver = {}
    /\ tapeUploads = 0
    /\ upl = [u \in Uploader |-> NoUpload]
    /\ del = [d \in Deleter |-> NoDelete]
    /\ arc = [a \in Archiver |-> NoArchive]
    /\ arcDir = [d \in Dir |-> NoDir]
    /\ arcRows = {}

-----------------------------------------------------------------------------
(* Uploading (upload_tape). *)

Free(name) == {n \in Body : tapeFile[<<name, n>>] = NoBody}

SlotFree(s) == tapeScratch[s] = NoBody

\* The scratch slot a client names must be empty; the target is the first free
\* name, chosen before a byte is copied.
ChooseTarget(u) ==
    /\ upl[u].at = "idle"
    /\ tapeUploads < MaxUploads
    /\ tapeUploads' = tapeUploads + 1
    /\ \E s \in (IF "id" \in tapeMay THEN UploadId ELSE {}) \union {tapeUploads'} :
         /\ SlotFree(s)
         /\ upl' = [upl EXCEPT ![u] =
                      [at |-> "open", body |-> tapeUploads', scratch |-> s,
                       target |-> <<Wants[u], Min(Free(Wants[u]))>>]]
    /\ UNCHANGED <<tapeMay, tapeFile, tapeScratch, tapeFacts, del, arcVars>>

\* The scratch file is created exclusively: a slot that filled meanwhile is
\* refused, and what is there is left alone.
OpenScratch(u) ==
    /\ upl[u].at = "open"
    /\ IF SlotFree(upl[u].scratch)
       THEN /\ tapeScratch' = [tapeScratch EXCEPT ![upl[u].scratch] = upl[u].body]
            /\ upl' = [upl EXCEPT ![u].at = "copy"]
       ELSE /\ upl' = [upl EXCEPT ![u] = NoUpload]
            /\ UNCHANGED tapeScratch
    /\ UNCHANGED <<tapeMay, tapeFile, tapeFacts, tapeUploads, del, arcVars>>

\* The body is copied whole and renamed over the target, or it fails (cut off,
\* over the cap, a full disk) and the partial file goes.
CopyBody(u) ==
    /\ upl[u].at = "copy"
    /\ \/ /\ tapeFile' = [tapeFile EXCEPT ![upl[u].target] = tapeScratch[upl[u].scratch]]
          /\ upl' = [upl EXCEPT ![u].at = "record"]
       \/ /\ upl' = [upl EXCEPT ![u] = NoUpload]
          /\ UNCHANGED tapeFile
    /\ tapeScratch' = [tapeScratch EXCEPT ![upl[u].scratch] = NoBody]
    /\ UNCHANGED <<tapeMay, tapeFacts, tapeUploads, del, arcVars>>

\* SQLite gives a new row the highest id plus one: an id can come back.
NextId == IF tapeRows = {} THEN 1 ELSE Max({r.id : r \in tapeRows}) + 1

\* The row and the tape set in one transaction, or neither.
RecordTape(u) ==
    /\ upl[u].at = "record"
    /\ \/ /\ tapeRows' = tapeRows \union
                {[id |-> NextId, path |-> upl[u].target, body |-> upl[u].body]}
          /\ tapeSet' = tapeSet \union {upl[u].target}
          /\ tapeEver' = tapeEver \union {upl[u].body}
          /\ upl' = [upl EXCEPT ![u].at = "audit"]
       \/ /\ upl' = [upl EXCEPT ![u].at = "undo"]
          /\ UNCHANGED tapeFacts
    /\ UNCHANGED <<tapeMay, tapeFile, tapeScratch, tapeUploads, del, arcVars>>

\* The audit row is a unit of work of its own, after the tape's commit.
AuditTape(u) ==
    /\ upl[u].at = "audit"
    /\ \/ upl' = [upl EXCEPT ![u] = NoUpload]
       \/ "audit" \in tapeMay /\ upl' = [upl EXCEPT ![u].at = "undo"]
    /\ UNCHANGED <<tapeMay, tapeFile, tapeScratch, tapeFacts, tapeUploads, del, arcVars>>

\* After a failed registration the rows are read: the bytes go back only where
\* no row names them, and stay when the registry cannot be read.
RowNames_Never(p) == FALSE
RowNames(p) == \E r \in tapeRows : r.path = p

UndoUpload(u) ==
    /\ upl[u].at = "undo"
    /\ \/ UNCHANGED tapeFile
       \/ /\ ~ RowNames(upl[u].target)
          /\ tapeFile' = [tapeFile EXCEPT ![upl[u].target] = NoBody]
    /\ upl' = [upl EXCEPT ![u] = NoUpload]
    /\ UNCHANGED <<tapeMay, tapeScratch, tapeFacts, tapeUploads, del, arcVars>>

-----------------------------------------------------------------------------
(* Deleting (delete_tapes). *)

\* An archive counts when it still is what the registry sealed.
Verifies(d) == arcDir[d].exists /\ arcDir[d].sealed /\ ~ arcDir[d].damaged

Covers_AnyArchive(d, paths) == TRUE
Covers(d, paths) ==     \* by content; a path without a file has nothing to lose
    \A p \in paths : tapeFile[p] = NoBody \/ tapeFile[p] \in arcDir[d].copies

Licensed(paths) == \E d \in arcRows : Verifies(d) /\ Covers(d, paths)

\* One tape, or every tape of the meeting.
Batches == {{r} : r \in tapeRows} \union {tapeRows}

ReadBatch(d) ==
    /\ "delete" \in tapeMay
    /\ del[d].at = "idle"
    /\ tapeRows # {}
    /\ \E batch \in Batches :
         del' = [del EXCEPT ![d] = [NoDelete EXCEPT !.at = "check", !.batch = batch]]
    /\ UNCHANGED <<tapeMay, tapeFile, tapeScratch, tapeFacts, tapeUploads, upl, arcVars>>

\* durable_archive: one archive holds all of the batch, or nothing is deleted.
CheckBatch(d) ==
    /\ del[d].at = "check"
    /\ del' = [del EXCEPT ![d] = IF Licensed({r.path : r \in del[d].batch})
                                 THEN [@ EXCEPT !.at = "forget"]
                                 ELSE NoDelete]
    /\ UNCHANGED <<tapeMay, tapeFile, tapeScratch, tapeFacts, tapeUploads, upl, arcVars>>

\* The row, looked up again by its id, goes before its file, and its path
\* leaves the tape set with it; a row that is gone ends the batch.
ForgetTape(d) ==
    /\ del[d].at = "forget"
    /\ \E r \in del[d].batch :
         /\ \A q \in del[d].batch : r.id <= q.id
         /\ IF \E row \in tapeRows : row.id = r.id
            THEN \E row \in tapeRows :
                   /\ row.id = r.id
                   /\ tapeRows' = tapeRows \ {row}
                   /\ tapeSet' = tapeSet \ {row.path}
                   /\ del' = [del EXCEPT ![d] =
                        [at |-> "unlink", batch |-> @.batch \ {r}, path |-> row.path]]
            ELSE /\ del' = [del EXCEPT ![d] = NoDelete]
                 /\ UNCHANGED <<tapeRows, tapeSet>>
    /\ UNCHANGED <<tapeMay, tapeFile, tapeScratch, tapeEver, tapeUploads, upl, arcVars>>

\* The unlink, or its failure (or that of the audit row before it), which
\* leaves the file and ends the batch.
UnlinkTape(d) ==
    /\ del[d].at = "unlink"
    /\ \/ /\ tapeFile' = [tapeFile EXCEPT ![del[d].path] = NoBody]
          /\ del' = [del EXCEPT ![d] = IF @.batch = {} THEN NoDelete
                                       ELSE [@ EXCEPT !.at = "forget", !.path = <<>>]]
       \/ /\ del' = [del EXCEPT ![d] = NoDelete]
          /\ UNCHANGED tapeFile
    /\ UNCHANGED <<tapeMay, tapeScratch, tapeFacts, tapeUploads, upl, arcVars>>

-----------------------------------------------------------------------------
(* Archiving (archive_meeting). *)

FreeDirs == {d \in Dir : ~ arcDir[d].exists}

\* The tape set is read and a directory name nothing has yet is chosen.
BeginArchive(a) ==
    /\ "archive" \in tapeMay
    /\ arc[a].at = "idle"
    /\ "race" \in tapeMay \/ \A b \in Archiver : arc[b].at = "idle"
    /\ tapeSet # {}
    /\ FreeDirs # {}
    /\ arc' = [arc EXCEPT ![a] = [at |-> "mkdir", dir |-> Min(FreeDirs), todo |-> tapeSet]]
    /\ UNCHANGED <<tapeMay, tapeFile, tapeScratch, tapeFacts, tapeUploads, upl, del,
                   arcDir, arcRows>>

\* mkdir refuses a directory another archive made meanwhile: the next free name
\* is tried, and the winner's is not touched.  It may fail outright.
MakeDir_Reuses(a) ==
    /\ arc[a].at = "mkdir"
    /\ \/ /\ arcDir' = [arcDir EXCEPT ![arc[a].dir] = [NoDir EXCEPT !.exists = TRUE]]
          /\ arc' = [arc EXCEPT ![a].at = "copy"]
       \/ /\ arc' = [arc EXCEPT ![a] = NoArchive]
          /\ UNCHANGED arcDir
    /\ UNCHANGED <<tapeMay, tapeFile, tapeScratch, tapeFacts, tapeUploads, upl, del, arcRows>>
MakeDir(a) ==
    /\ arc[a].at = "mkdir"
    /\ \/ /\ ~ arcDir[arc[a].dir].exists
          /\ arcDir' = [arcDir EXCEPT ![arc[a].dir] = [NoDir EXCEPT !.exists = TRUE]]
          /\ arc' = [arc EXCEPT ![a].at = "copy"]
       \/ /\ arcDir[arc[a].dir].exists
          /\ arc' = [arc EXCEPT ![a] = IF FreeDirs = {} THEN NoArchive
                                       ELSE [@ EXCEPT !.dir = Min(FreeDirs)]]
          /\ UNCHANGED arcDir
       \/ /\ arc' = [arc EXCEPT ![a] = NoArchive]
          /\ UNCHANGED arcDir
    /\ UNCHANGED <<tapeMay, tapeFile, tapeScratch, tapeFacts, tapeUploads, upl, del, arcRows>>

\* One tape after the other; a tape that is gone, or any failure, removes this
\* call's own directory.
CopyTape(a) ==
    /\ arc[a].at = "copy"
    /\ arc[a].todo # {}
    /\ \/ \E p \in arc[a].todo :
            /\ tapeFile[p] # NoBody
            /\ arcDir' = [arcDir EXCEPT ![arc[a].dir].copies = @ \union {tapeFile[p]}]
            /\ arc' = [arc EXCEPT ![a].todo = @ \ {p}]
       \/ /\ arcDir' = [arcDir EXCEPT ![arc[a].dir] = NoDir]
          /\ arc' = [arc EXCEPT ![a] = NoArchive]
    /\ UNCHANGED <<tapeMay, tapeFile, tapeScratch, tapeFacts, tapeUploads, upl, del, arcRows>>

\* The manifest is written and its digest taken.
SealArchive(a) ==
    /\ arc[a].at = "copy"
    /\ arc[a].todo = {}
    /\ arcDir' = [arcDir EXCEPT ![arc[a].dir].sealed = TRUE]
    /\ arc' = [arc EXCEPT ![a].at = "add"]
    /\ UNCHANGED <<tapeMay, tapeFile, tapeScratch, tapeFacts, tapeUploads, upl, del, arcRows>>

\* add_archive; when it fails the complete directory stays, unrecorded.
AddArchive(a) ==
    /\ arc[a].at = "add"
    /\ \/ arcRows' = arcRows \union {arc[a].dir}
       \/ UNCHANGED arcRows
    /\ arc' = [arc EXCEPT ![a] = NoArchive]
    /\ UNCHANGED <<tapeMay, tapeFile, tapeScratch, tapeFacts, tapeUploads, upl, del, arcDir>>

-----------------------------------------------------------------------------
(* The environment. *)

Named(b) == \E r \in tapeRows : r.body = b /\ tapeFile[r.path] = b

\* An archive is damaged outside the program, while the meeting's own tapes
\* still hold what it holds and no delete is leaning on it.
DamageArchive(d) ==
    /\ d \in arcRows
    /\ ~ arcDir[d].damaged
    /\ \A b \in arcDir[d].copies : Named(b)
    /\ \A x \in Deleter : del[x].at \in {"idle", "check"}
    /\ arcDir' = [arcDir EXCEPT ![d].damaged = TRUE]
    /\ UNCHANGED <<tapeMay, tapeFile, tapeScratch, tapeFacts, tapeUploads, upl, del,
                   arc, arcRows>>

\* The process dies: every request is lost, every file and row stays.
TapesCrash ==
    /\ "crash" \in tapeMay
    /\ tapeMay' = tapeMay \ {"crash"}      \* bound: once
    /\ upl' = [u \in Uploader |-> NoUpload]
    /\ del' = [d \in Deleter |-> NoDelete]
    /\ arc' = [a \in Archiver |-> NoArchive]
    /\ UNCHANGED <<tapeFile, tapeScratch, tapeFacts, tapeUploads, arcDir, arcRows>>

TapesNext ==
    \/ \E u \in Uploader :
         \/ ChooseTarget(u) \/ OpenScratch(u) \/ CopyBody(u)
         \/ RecordTape(u) \/ AuditTape(u) \/ UndoUpload(u)
    \/ \E d \in Deleter :
         \/ ReadBatch(d) \/ CheckBatch(d) \/ ForgetTape(d) \/ UnlinkTape(d)
    \/ \E a \in Archiver :
         \/ BeginArchive(a) \/ MakeDir(a) \/ CopyTape(a) \/ SealArchive(a) \/ AddArchive(a)
    \/ \E d \in Dir : DamageArchive(d)
    \/ TapesCrash

TapesSpec == TapesInit /\ [][TapesNext]_tapesVars

-----------------------------------------------------------------------------
(* Properties. *)

\* Every variable keeps its type.
TapesTypeOK ==
    /\ tapeMay \subseteq {"archive", "race", "delete", "id", "audit", "crash"}
    /\ tapeFile \in [Path -> Body \union {NoBody}]
    /\ tapeScratch \in [Scratch -> Body \union {NoBody}]
    /\ tapeRows \subseteq [id : Body, path : Path, body : Body]
    /\ tapeSet \subseteq Path
    /\ tapeEver \subseteq Body
    /\ tapeUploads \in 0 .. MaxUploads
    /\ \A u \in Uploader :
         upl[u].at \in {"idle", "open", "copy", "record", "audit", "undo"}
    /\ \A d \in Deleter : del[d].at \in {"idle", "check", "forget", "unlink"}
    /\ \A a \in Archiver : arc[a].at \in {"idle", "mkdir", "copy", "add"}
    /\ arcDir \in [Dir -> [exists : BOOLEAN, copies : SUBSET Body,
                           sealed : BOOLEAN, damaged : BOOLEAN]]
    /\ arcRows \subseteq Dir

\* The registry never names bytes that are not there: the tape set is the rows'
\* paths, and each row's file holds the body its checksum is of, whatever
\* upload failed half way, delete was cut short or process died.
RowsNameTheirTapes ==
    /\ tapeSet = {r.path : r \in tapeRows}
    /\ \A r \in tapeRows : tapeFile[r.path] = r.body

\* A body that was ever recorded is still named by a row, or an intact recorded
\* archive holds it: no delete destroys the only copy, whatever happened
\* between its check and its unlinks (delete_tapes, durable_archive).
RecordedTapesAreKept ==
    \A b \in tapeEver : Named(b) \/ \E d \in arcRows : Verifies(d) /\ b \in arcDir[d].copies

\* A recorded archive is complete, and another archive of the same second
\* neither overwrites nor removes it (archive_meeting).
ArchivesStayWhole ==
    \A d \in arcRows : arcDir[d].exists /\ arcDir[d].sealed

\* An upload never replaces bytes that are there ("a name that is already there
\* is never handed back: the caller must not write over it", unique_path).
UploadsNeverOverwrite ==
    [][\A p \in Path : tapeFile[p] # NoBody => tapeFile'[p] \in {tapeFile[p], NoBody}]_tapesVars
=============================================================================
