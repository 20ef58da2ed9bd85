------------------------------ MODULE BlobStore ------------------------------
(***************************************************************************)
(* The content-addressed store: files under raw/, the blobs rows that name *)
(* them, the entry_artifacts rows that refer to them, and everything that  *)
(* runs over the three at the same time: captures (server and command      *)
(* line), tweet captures and re-archives, subtitle fetches of summaries,   *)
(* the deletion of entries, the administrator's blob cleanup, crashes.     *)
(*                                                                         *)
(* A writer puts its file into raw/ before it writes any row.  The cleanup *)
(* therefore asks the job and summary tables, twice, whether a writer is   *)
(* active; it then deletes rows and files without looking again.           *)
(*                                                                         *)
(* The ghosts blind and exposed record which writers those two questions   *)
(* could not tell the cleanup about; no action reads them.                 *)
(***************************************************************************)
EXTENDS Naturals, FiniteSets

CONSTANTS
    Writer,     \* tasks that store one file each
    KindOf,     \* [Writer -> Kind]
    Cleaner,    \* concurrent blob-cleanup requests
    File,       \* paths under raw/: a content hash and an extension
    HashOf,     \* [File -> hashes]: two extensions may share one content
    BlobId,     \* rowids of blobs
    None,
    MaxCrashes  \* bound: crashes of the server and killed command lines

Kind == {"capture", "cli", "tweet", "rearchive", "subtitle"}

ASSUME BlobStoreAssumption ==
    /\ KindOf \in [Writer -> Kind]
    /\ None \notin File
    /\ None \notin BlobId
    /\ MaxCrashes \in Nat

VARIABLES
    disk,      \* SUBSET File: the files under raw/
    blob,      \* [BlobId -> File \cup {None}]: the blobs table
    art,       \* SUBSET Artifact: the entry_artifacts table
    live,      \* SUBSET Writer: archived entries, named by the task that made them
    row,       \* [Writer -> RowStatus]: the row that announces the task
    pc,        \* [Writer -> WriterState]
    file,      \* [Writer -> File \cup {None}]: what the task has fetched
    bid,       \* [Writer -> BlobId \cup {None}]: the blob id it holds
    target,    \* [Writer -> Writer]: the entry it attaches its file to
    up,        \* the server is running
    crashes,
    cpc,       \* [Cleaner -> CleanerState]
    keep,      \* [Cleaner -> SUBSET File]: the referenced relpaths it has read
    towalk,    \* [Cleaner -> SUBSET File]: what the directory walk has to visit
    doomed,    \* [Cleaner -> SUBSET File]: the files it will remove
    blind,     \* ghost: writers begun after its first look, or never announced
    exposed    \* ghost: writers a cleanup deleted things behind the back of

store == <<disk, blob, art, live>>
writer == <<row, pc, file, bid, target>>
cleaner == <<cpc, keep, towalk, doomed>>
ghosts == <<blind, exposed>>
vars == <<store, writer, up, crashes, cleaner, ghosts>>

RowStatus == {"absent", "pending", "running", "settled"}
Pipeline == {"start", "fetch", "check", "move", "insert", "select", "entry",
             "attach", "tx"}
WriterState == Pipeline \cup {"idle", "report", "err", "done", "failed", "gone"}
CleanerState == {"idle", "relpaths", "blobpaths", "walk", "rows", "unlink"}
Looking == {"relpaths", "blobpaths", "walk"}
Deleting == {"rows", "unlink"}
Artifact == [entry : Writer, blob : BlobId, file : File, by : Writer]

(* The guards of the cleanup: rows that announce a task. *)
ActiveCaptureJobs ==
    {w \in Writer : KindOf[w] \in {"capture", "tweet", "rearchive"}
                    /\ row[w] \in {"pending", "running"}}
PendingSubtitleFetches ==
    {w \in Writer : KindOf[w] = "subtitle" /\ row[w] \in {"pending", "running"}}
Announced == ActiveCaptureJobs \cup PendingSubtitleFetches

(* A slip: subtitle fetches forgotten. *)
NoJobActive == ActiveCaptureJobs = {}

(* The question both guards ask; the code asks it of the tables only. *)
NothingActive == ActiveCaptureJobs = {} /\ PendingSubtitleFetches = {}

Working == {w \in Writer : pc[w] \in Pipeline \cup {"report", "err"}}

LiveBlobs == {a.blob : a \in art}

(* A slip: to protect only the paths of the artifacts. *)
NoBlobPaths == {}

(* The two halves of all_referenced_file_relpaths. *)
ReferencedRelpaths == {a.file : a \in art}
ReferencedBlobPaths == {blob[i] : i \in LiveBlobs}
OrphanedBlobRows == BlobId \ LiveBlobs

(* The rows of a blobs table with the content of file f: sha256 is UNIQUE. *)
RowsOf(f, table) == {i \in BlobId : table[i] # None /\ HashOf[table[i]] = HashOf[f]}

(* hash_exists asks the file system, not the blobs table. *)
Present(f) == f \in disk

NoForeignKeys(e, i) == TRUE

(* PRAGMA foreign_keys = ON. *)
ForeignKeysHold(e, i) == e \in live /\ blob[i] # None

At(w, s) == pc[w] = s
Go(w, s) == pc' = [pc EXCEPT ![w] = s]
InTx(w) == KindOf[w] \in {"tweet", "rearchive", "subtitle"}

Init ==
    /\ disk = {} /\ art = {} /\ live = {}
    /\ blob = [i \in BlobId |-> None]
    /\ row = [w \in Writer |-> "absent"]
    /\ pc = [w \in Writer |-> "idle"]
    /\ file = [w \in Writer |-> None]
    /\ bid = [w \in Writer |-> None]
    /\ target = [w \in Writer |-> w]
    /\ up = TRUE /\ crashes = 0
    /\ cpc = [k \in Cleaner |-> "idle"]
    /\ keep = [k \in Cleaner |-> {}]
    /\ towalk = [k \in Cleaner |-> {}]
    /\ doomed = [k \in Cleaner |-> {}]
    /\ blind = [k \in Cleaner |-> {}]
    /\ exposed = {}

----------------------------------------------------------------------------
(* Writers. *)

(* A new writer is unknown to every cleanup that has looked already. *)
Enter(w) ==
    /\ blind' = [k \in Cleaner |-> IF cpc[k] \in Looking THEN blind[k] \cup {w} ELSE blind[k]]
    /\ exposed' = IF \E k \in Cleaner : cpc[k] \in Deleting THEN exposed \cup {w} ELSE exposed

(* The handlers insert the pending job or summary row and spawn the task;    *)
(* the command line has neither a server nor a row.  A re-archive needs a    *)
(* tweet, a subtitle fetch a captured video.                                 *)
Begin(w) ==
    /\ At(w, "idle") /\ (KindOf[w] # "cli" => up)
    /\ row' = [row EXCEPT ![w] = IF KindOf[w] = "cli" THEN "absent" ELSE "pending"]
    /\ Go(w, IF KindOf[w] \in {"cli", "subtitle"} THEN "fetch" ELSE "start")
    /\ \E e \in Writer :
         /\ CASE KindOf[w] = "rearchive" -> e \in live /\ KindOf[e] = "tweet"
              [] KindOf[w] = "subtitle" -> e \in live /\ KindOf[e] \in {"capture", "cli"}
              [] OTHER -> e = w
         /\ target' = [target EXCEPT ![w] = e]
    /\ Enter(w)
    /\ UNCHANGED <<store, file, bid, up, crashes, cleaner>>

(* The closure marks the job running (`.ok()`), or cannot open the database  *)
(* and returns, the row still pending.                                       *)
Start(w) ==
    /\ At(w, "start")
    /\ \/ Go(w, "fetch") /\ row' = [row EXCEPT ![w] = "running"]
       \/ Go(w, "fetch") /\ UNCHANGED row
       \/ Go(w, "gone") /\ UNCHANGED row
    /\ UNCHANGED <<store, file, bid, target, up, crashes, cleaner, ghosts>>

(* The download into temp/. *)
Fetch(w) ==
    /\ At(w, "fetch") /\ Go(w, "check")
    /\ \E f \in File : file' = [file EXCEPT ![w] = f]
    /\ UNCHANGED <<store, row, bid, target, up, crashes, cleaner, ghosts>>

Stored(w) == IF InTx(w) THEN "tx" ELSE "insert"

(* hash_exists, and the rename it guards, are two file system calls. *)
Check(w) ==
    /\ At(w, "check") /\ Go(w, IF Present(file[w]) THEN Stored(w) ELSE "move")
    /\ UNCHANGED <<store, row, file, bid, target, up, crashes, cleaner, ghosts>>

Move(w) ==
    /\ At(w, "move") /\ Go(w, Stored(w))
    /\ disk' = disk \cup {file[w]}
    /\ UNCHANGED <<blob, art, live, row, file, bid, target, up, crashes, cleaner, ghosts>>

(* INSERT OR IGNORE by sha256: a row with the same content keeps its path.   *)
(* The rowid is any free one: without AUTOINCREMENT SQLite hands the largest *)
(* deleted id out again.                                                     *)
Upserted(f, table) ==
    \/ RowsOf(f, blob) # {} /\ table = blob
    \/ /\ RowsOf(f, blob) = {}
       /\ \E i \in BlobId : blob[i] = None /\ table = [blob EXCEPT ![i] = f]

InsertBlob(w) ==
    /\ At(w, "insert") /\ Go(w, "select")
    /\ Upserted(file[w], blob')
    /\ UNCHANGED <<disk, art, live, row, file, bid, target, up, crashes, cleaner, ghosts>>

(* The SELECT of upsert_blob; it errors if a cleanup took the row meanwhile. *)
SelectBlob(w) ==
    /\ At(w, "select") /\ Go(w, "entry")
    /\ \E i \in RowsOf(file[w], blob) : bid' = [bid EXCEPT ![w] = i]
    /\ UNCHANGED <<store, row, file, target, up, crashes, cleaner, ghosts>>

CreateEntry(w) ==
    /\ At(w, "entry") /\ Go(w, "attach")
    /\ live' = live \cup {w}
    /\ UNCHANGED <<disk, blob, art, row, file, bid, target, up, crashes, cleaner, ghosts>>

Link(w, i) == [entry |-> target[w], blob |-> i, file |-> file[w], by |-> w]
ArtifactsOf(e) == {a \in art : a.entry = e}

(* add_entry_artifact: both foreign keys are enforced. *)
Attach(w) ==
    /\ At(w, "attach") /\ Go(w, "report")
    /\ ForeignKeysHold(target[w], bid[w])
    /\ art' = art \cup {Link(w, bid[w])}
    /\ UNCHANGED <<disk, blob, live, row, file, bid, target, up, crashes, cleaner, ghosts>>

(* record_tweet_entry makes the entry and registers its file at once. *)
RecordTweet(w) ==
    /\ At(w, "tx") /\ KindOf[w] = "tweet" /\ Go(w, "report")
    /\ Present(file[w]) /\ Upserted(file[w], blob')
    /\ live' = live \cup {w}
    /\ \E i \in RowsOf(file[w], blob') : art' = art \cup {Link(w, i)}
    /\ UNCHANGED <<disk, row, file, bid, target, up, crashes, cleaner, ghosts>>

(* perform_rearchive swaps the artifacts of an entry that must still exist. *)
SwapArtifacts(w) ==
    /\ At(w, "tx") /\ KindOf[w] = "rearchive" /\ Go(w, "report")
    /\ Present(file[w]) /\ Upserted(file[w], blob')
    /\ target[w] \in live
    /\ \E i \in RowsOf(file[w], blob') : art' = (art \ ArtifactsOf(target[w])) \cup {Link(w, i)}
    /\ UNCHANGED <<disk, live, row, file, bid, target, up, crashes, cleaner, ghosts>>

(* insert_subtitle_rows skips a file it cannot stat, and a blob that already *)
(* is a subtitle of the entry.                                               *)
RecordSubtitle(w) ==
    /\ At(w, "tx") /\ KindOf[w] = "subtitle" /\ Go(w, "report")
    /\ \/ ~Present(file[w]) /\ UNCHANGED <<blob, art>>
       \/ /\ Present(file[w]) /\ Upserted(file[w], blob')
          /\ target[w] \in live
          /\ \E i \in RowsOf(file[w], blob') :
               art' = IF \E a \in ArtifactsOf(target[w]) : a.blob = i /\ KindOf[a.by] = "subtitle"
                      THEN art
                      ELSE art \cup {Link(w, i)}
    /\ UNCHANGED <<disk, live, row, file, bid, target, up, crashes, cleaner, ghosts>>

(* Any step may fail, and perform_capture then returns through `?`. *)
Break(w) ==
    /\ pc[w] \in Pipeline \ {"start"} /\ Go(w, "err")
    /\ UNCHANGED <<store, row, file, bid, target, up, crashes, cleaner, ghosts>>

(* The task settles its row, if the last update (`.ok()`) succeeds.  The row *)
(* of a subtitle fetch stops announcing it when it gets its real digest.     *)
Settle(w) ==
    /\ \/ At(w, "report") /\ Go(w, "done")
       \/ At(w, "err") /\ Go(w, "failed")
    /\ \/ UNCHANGED row
       \/ row[w] # "absent" /\ row' = [row EXCEPT ![w] = "settled"]
    /\ UNCHANGED <<store, file, bid, target, up, crashes, cleaner, ghosts>>

(* delete_entry, in one transaction; artifacts and summaries cascade, the    *)
(* files stay.                                                               *)
DeleteEntry(e) ==
    /\ up /\ e \in live
    /\ live' = live \ {e}
    /\ art' = art \ ArtifactsOf(e)
    /\ row' = [w \in Writer |->
         IF KindOf[w] = "subtitle" /\ target[w] = e THEN "absent" ELSE row[w]]
    /\ UNCHANGED <<disk, blob, pc, file, bid, target, up, crashes, cleaner, ghosts>>

----------------------------------------------------------------------------
(* blob_cleanup_delete_handler. *)

Advance(k, s) == cpc' = [cpc EXCEPT ![k] = s]

FirstGuard(k) ==
    /\ up /\ cpc[k] = "idle" /\ NothingActive
    /\ Advance(k, "relpaths")
    /\ blind' = [blind EXCEPT ![k] = Working \ Announced]
    /\ UNCHANGED <<store, writer, up, crashes, keep, towalk, doomed, exposed>>

(* all_referenced_file_relpaths reads in two statements. *)
ReadRelpaths(k) ==
    /\ cpc[k] = "relpaths" /\ Advance(k, "blobpaths")
    /\ keep' = [keep EXCEPT ![k] = ReferencedRelpaths]
    /\ UNCHANGED <<store, writer, up, crashes, towalk, doomed, ghosts>>

ReadBlobPaths(k) ==
    /\ cpc[k] = "blobpaths" /\ Advance(k, "walk")
    /\ keep' = [keep EXCEPT ![k] = @ \cup ReferencedBlobPaths]
    /\ towalk' = [towalk EXCEPT ![k] = File]
    /\ UNCHANGED <<store, writer, up, crashes, doomed, ghosts>>

(* collect_orphaned_disk_files, one directory entry at a time. *)
Walk(k, f) ==
    /\ cpc[k] = "walk" /\ f \in towalk[k]
    /\ towalk' = [towalk EXCEPT ![k] = @ \ {f}]
    /\ doomed' = [doomed EXCEPT ![k] = IF f \in disk \ keep[k] THEN @ \cup {f} ELSE @]
    /\ UNCHANGED <<store, writer, up, crashes, cpc, keep, ghosts>>

(* The second guard, behind the walk: a conflict ends the request. *)
SecondGuard(k) ==
    /\ cpc[k] = "walk" /\ towalk[k] = {}
    /\ IF NothingActive
       THEN /\ Advance(k, "rows")
            /\ exposed' = exposed \cup (blind[k] \ Announced)
            /\ UNCHANGED <<keep, doomed, blind>>
       ELSE /\ Advance(k, "idle")
            /\ keep' = [keep EXCEPT ![k] = {}]
            /\ doomed' = [doomed EXCEPT ![k] = {}]
            /\ blind' = [blind EXCEPT ![k] = {}]
            /\ UNCHANGED exposed
    /\ UNCHANGED <<store, writer, up, crashes, towalk>>

(* delete_orphaned_blob_rows: one statement. *)
DropRows(k) ==
    /\ cpc[k] = "rows" /\ Advance(k, "unlink")
    /\ blob' = [i \in BlobId |-> IF i \in OrphanedBlobRows THEN None ELSE blob[i]]
    /\ UNCHANGED <<disk, art, live, writer, up, crashes, keep, towalk, doomed, ghosts>>

Unlink(k, f) ==
    /\ cpc[k] = "unlink" /\ f \in doomed[k]
    /\ disk' = disk \ {f}
    /\ doomed' = [doomed EXCEPT ![k] = @ \ {f}]
    /\ UNCHANGED <<blob, art, live, writer, up, crashes, cpc, keep, towalk, ghosts>>

CleanupDone(k) ==
    /\ cpc[k] = "unlink" /\ doomed[k] = {} /\ Advance(k, "idle")
    /\ keep' = [keep EXCEPT ![k] = {}]
    /\ blind' = [blind EXCEPT ![k] = {}]
    /\ UNCHANGED <<store, writer, up, crashes, towalk, doomed, exposed>>

----------------------------------------------------------------------------
(* Crashes. *)

Crash ==
    /\ up /\ up' = FALSE
    /\ crashes < MaxCrashes /\ crashes' = crashes + 1
    /\ pc' = [w \in Writer |-> IF KindOf[w] # "cli" /\ w \in Working THEN "gone" ELSE pc[w]]
    /\ cpc' = [k \in Cleaner |-> "idle"]
    /\ keep' = [k \in Cleaner |-> {}]
    /\ towalk' = [k \in Cleaner |-> {}]
    /\ doomed' = [k \in Cleaner |-> {}]
    /\ blind' = [k \in Cleaner |-> {}]
    /\ UNCHANGED <<store, row, file, bid, target, exposed>>

(* fail_stalled_capture_jobs settles the running jobs only,                  *)
(* fail_stalled_entry_summaries every open summary.                          *)
Restart ==
    /\ ~up /\ up' = TRUE
    /\ row' = [w \in Writer |->
         IF row[w] = "running" \/ (KindOf[w] = "subtitle" /\ row[w] = "pending")
         THEN "settled" ELSE row[w]]
    /\ UNCHANGED <<store, pc, file, bid, target, crashes, cleaner, ghosts>>

KillCli(w) ==
    /\ KindOf[w] = "cli" /\ w \in Working /\ Go(w, "gone")
    /\ crashes < MaxCrashes /\ crashes' = crashes + 1
    /\ UNCHANGED <<store, row, file, bid, target, up, cleaner, ghosts>>

----------------------------------------------------------------------------
WriterStep(w) ==
    \/ Begin(w) \/ Start(w) \/ Fetch(w) \/ Check(w) \/ Move(w)
    \/ InsertBlob(w) \/ SelectBlob(w) \/ CreateEntry(w) \/ Attach(w)
    \/ RecordTweet(w) \/ SwapArtifacts(w) \/ RecordSubtitle(w)
    \/ Break(w) \/ Settle(w)

CleanerStep(k) ==
    \/ FirstGuard(k) \/ ReadRelpaths(k) \/ ReadBlobPaths(k)
    \/ \E f \in File : Walk(k, f) \/ Unlink(k, f)
    \/ SecondGuard(k) \/ DropRows(k) \/ CleanupDone(k)

Next ==
    \/ \E w \in Writer : WriterStep(w) \/ DeleteEntry(w) \/ KillCli(w)
    \/ \E k \in Cleaner : CleanerStep(k)
    \/ Crash \/ Restart

Spec == Init /\ [][Next]_vars

----------------------------------------------------------------------------
(* Properties. *)

(* Every variable keeps its type. *)
TypeOK ==
    /\ disk \subseteq File
    /\ blob \in [BlobId -> File \cup {None}]
    /\ art \subseteq Artifact
    /\ live \subseteq Writer
    /\ row \in [Writer -> RowStatus]
    /\ pc \in [Writer -> WriterState]
    /\ file \in [Writer -> File \cup {None}]
    /\ bid \in [Writer -> BlobId \cup {None}]
    /\ target \in [Writer -> Writer]
    /\ up \in BOOLEAN
    /\ crashes \in 0..MaxCrashes
    /\ cpc \in [Cleaner -> CleanerState]
    /\ keep \in [Cleaner -> SUBSET File]
    /\ towalk \in [Cleaner -> SUBSET File]
    /\ doomed \in [Cleaner -> SUBSET File]
    /\ blind \in [Cleaner -> SUBSET Writer]
    /\ exposed \subseteq Writer

(* A live artifact loses its file only if its writer escaped both guards of  *)
(* a cleanup: begun behind the second, begun behind the first and finished   *)
(* before the second, or run from the command line.  Whatever was archived   *)
(* while nothing was being cleaned stays readable, shared files included     *)
(* (blob_cleanup_delete_handler, all_referenced_file_relpaths).              *)
UnreadableOnlyIfExposed ==
    \A a \in art : a.file \notin disk => a.by \in exposed

(* An artifact's blob row exists and has the content of the artifact's own   *)
(* file, unless its writer was exposed to a cleanup: deleted orphan rows,    *)
(* ids handed out again and the foreign key never mix up two contents        *)
(* otherwise (upsert_blob, delete_orphaned_blob_rows, add_entry_artifact).   *)
MismatchedOnlyIfExposed ==
    \A a \in art : a.by \notin exposed => a.blob \in RowsOf(a.file, blob)

(* serve_blob reads the path of the blob row, which may have the extension   *)
(* of an earlier capture of the same content: as long as no cleanup missed a *)
(* writer, every row has its file, through captures that fail or crash,      *)
(* deletions, and cleanups that crash half-way.                              *)
RowsHaveFiles ==
    exposed = {} => \A i \in BlobId : blob[i] # None => blob[i] \in disk

(* database.rs says of the file of a live artifact that it must NOT be       *)
(* deleted, routes.rs that the second guard closes the window: no cleanup    *)
(* step takes the file of an artifact that is in the table.                  *)
CleanupSparesReferencedFiles ==
    [][\A f \in disk \ disk' : f \notin ReferencedRelpaths]_vars


(* Both: only an exposed writer loses its file or its content                *)
(* (blob_cleanup_delete_handler).                                            *)
OnlyTheExposedAreHarmed == UnreadableOnlyIfExposed /\ MismatchedOnlyIfExposed
=============================================================================
