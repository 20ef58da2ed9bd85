------------------------------- MODULE Staging -------------------------------
(***************************************************************************)
(* Files staged for a capture under temp/uploads, and export work          *)
(* directories under temp/exports.  An upload has a directory of its own,  *)
(* marked by a sentinel while the file streams in.  A finished one is      *)
(* given to a capture or discarded; a maintenance task prunes what was     *)
(* last written a day ago and is not marked, and the start of the server,  *)
(* when nothing streams, also what is.  A client that goes away may leave  *)
(* its upload as it is.                                                    *)
(*                                                                         *)
(* Time is two-valued: a directory is stale once its newest file is older  *)
(* than the cutoff.  That much time does not pass between two statements   *)
(* of a handler that do not wait for the client.                           *)
(***************************************************************************)
EXTENDS Integers

CONSTANTS
    Upload,          \* upload requests
    StagedUse,       \* captures and discards of staged files
    Export,          \* export requests
    NoUpload,
    MaxServerCrashes \* bound

ASSUME StagingAssumption ==
    NoUpload \notin Upload /\ Upload \cap Export = {} /\ MaxServerCrashes \in Nat

VARIABLES
    dir,        \* [Upload -> DirState]
    content,    \* [Upload -> ContentState]: the staged file
    stale,      \* SUBSET (Upload \cup Export): directories older than the cutoff
    uploadAt,   \* [Upload -> UploadPlace]
    useAt,      \* [StagedUse -> UsePlace]
    useOf,      \* [StagedUse -> Upload \cup {NoUpload}]
    judged,     \* SUBSET Upload: those the maintenance task found old
    workDir,    \* SUBSET Export: export work directories
    exportAt,   \* [Export -> {"idle", "working", "end"}]
    serving, serverCrashes

stagedFiles == <<dir, content, stale>>
uses == <<useAt, useOf>>
exports == <<workDir, exportAt>>
stagingVars == <<stagedFiles, uploadAt, uses, judged, exports, serving, serverCrashes>>

DirState == {"none", "bare", "marked", "open"}
ContentState == {"none", "partial", "whole"}
UploadPlace == {"idle", "mark", "stream", "undo", "unmark", "answered", "end"}
UsePlace == {"idle", "copy", "unlink", "rmdir", "end"}

StagingInit ==
    /\ dir = [u \in Upload |-> "none"] /\ content = [u \in Upload |-> "none"]
    /\ stale = {}
    /\ uploadAt = [u \in Upload |-> "idle"]
    /\ useAt = [c \in StagedUse |-> "idle"] /\ useOf = [c \in StagedUse |-> NoUpload]
    /\ judged = {}
    /\ workDir = {} /\ exportAt = [x \in Export |-> "idle"]
    /\ serving = TRUE /\ serverCrashes = 0

UploadMoves(u, s, t) == serving /\ uploadAt[u] = s /\ uploadAt' = [uploadAt EXCEPT ![u] = t]
UseMoves(c, s, t) == serving /\ useAt[c] = s /\ useAt' = [useAt EXCEPT ![c] = t]

----------------------------------------------------------------------------
(* upload_handler. *)
BeginUpload(u) ==
    /\ UploadMoves(u, "idle", "mark") /\ dir' = [dir EXCEPT ![u] = "bare"]
    /\ UNCHANGED <<content, stale, uses, judged, exports, serving, serverCrashes>>

MarkUpload(u) ==
    /\ UploadMoves(u, "mark", "stream") /\ dir' = [dir EXCEPT ![u] = "marked"]
    /\ UNCHANGED <<content, stale, uses, judged, exports, serving, serverCrashes>>

(* A chunk reaches the disk, or the last one. *)
StreamChunk(u) ==
    /\ \/ UploadMoves(u, "stream", "stream") /\ content' = [content EXCEPT ![u] = "partial"]
       \/ UploadMoves(u, "stream", "unmark") /\ content' = [content EXCEPT ![u] = "whole"]
    /\ stale' = stale \ {u}
    /\ UNCHANGED <<dir, uses, judged, exports, serving, serverCrashes>>

FailStream(u) ==
    /\ UploadMoves(u, "stream", "undo")
    /\ UNCHANGED <<stagedFiles, uses, judged, exports, serving, serverCrashes>>
UndoUpload(u) ==
    /\ UploadMoves(u, "undo", "end")
    /\ dir' = [dir EXCEPT ![u] = "none"] /\ content' = [content EXCEPT ![u] = "none"]
    /\ UNCHANGED <<stale, uses, judged, exports, serving, serverCrashes>>

Unmarked(u) == "open"

UnmarkUpload(u) ==
    /\ UploadMoves(u, "unmark", "answered") /\ dir' = [dir EXCEPT ![u] = Unmarked(u)]
    /\ UNCHANGED <<content, stale, uses, judged, exports, serving, serverCrashes>>

(* The handler is dropped at an await. *)
DropUpload(u) ==
    /\ \E s \in {"mark", "stream", "undo", "unmark"} : UploadMoves(u, s, "end")
    /\ UNCHANGED <<stagedFiles, uses, judged, exports, serving, serverCrashes>>

----------------------------------------------------------------------------
(* capture_handler and delete_upload_handler: the file must exist. *)
BeginUse(c) ==
    /\ \E u \in Upload :
        /\ uploadAt[u] = "answered" /\ content[u] # "none"
        /\ useOf' = [useOf EXCEPT ![c] = u]
        /\ UseMoves(c, "idle", "copy") \/ UseMoves(c, "idle", "unlink")
    /\ UNCHANGED <<stagedFiles, uploadAt, judged, exports, serving, serverCrashes>>

(* The capture copies it; when it has ended, well or not, the staged file is *)
(* removed, and its directory unless something is left in it.                *)
CopyStaged(c) ==
    /\ UseMoves(c, "copy", "unlink")
    /\ UNCHANGED <<stagedFiles, uploadAt, useOf, judged, exports, serving, serverCrashes>>
UnlinkStaged(c) ==
    /\ UseMoves(c, "unlink", "rmdir") /\ content' = [content EXCEPT ![useOf[c]] = "none"]
    /\ UNCHANGED <<dir, stale, uploadAt, useOf, judged, exports, serving, serverCrashes>>
RemoveStagedDir(c) ==
    /\ UseMoves(c, "rmdir", "end")
    /\ dir' = IF dir[useOf[c]] # "marked" THEN [dir EXCEPT ![useOf[c]] = "none"] ELSE dir
    /\ UNCHANGED <<content, stale, uploadAt, useOf, judged, exports, serving, serverCrashes>>

----------------------------------------------------------------------------
(* export_handler: the work directory goes with its result, also when the    *)
(* client is gone.                                                           *)
BeginExport(x) ==
    /\ serving /\ exportAt[x] = "idle" /\ exportAt' = [exportAt EXCEPT ![x] = "working"]
    /\ workDir' = workDir \cup {x}
    /\ UNCHANGED <<stagedFiles, uploadAt, uses, judged, serving, serverCrashes>>
EndExport(x) ==
    /\ serving /\ exportAt[x] = "working" /\ exportAt' = [exportAt EXCEPT ![x] = "end"]
    /\ workDir' = workDir \ {x}
    /\ UNCHANGED <<stagedFiles, uploadAt, uses, judged, serving, serverCrashes>>

----------------------------------------------------------------------------
(* A slip: the sentinels of the running server are cleared.                  *)
ClearedMarks == {u \in Upload : dir[u] # "none" /\ u \in stale}
Prunable == {u \in Upload : dir[u] \in {"bare", "open"} /\ u \in stale}

(* The maintenance task, for each directory: look, then remove. *)
JudgeUpload(u) ==
    /\ serving /\ u \in Prunable \ judged /\ judged' = judged \cup {u}
    /\ UNCHANGED <<stagedFiles, uploadAt, uses, exports, serving, serverCrashes>>
PruneUpload(u) ==
    /\ serving /\ u \in judged /\ judged' = judged \ {u}
    /\ dir' = [dir EXCEPT ![u] = "none"] /\ content' = [content EXCEPT ![u] = "none"]
    /\ UNCHANGED <<stale, uploadAt, uses, exports, serving, serverCrashes>>

(* A day goes by. *)
Age(u) ==
    /\ dir[u] # "none" /\ uploadAt[u] # "mark" /\ u \notin stale /\ stale' = stale \cup {u}
    /\ UNCHANGED <<dir, content, uploadAt, uses, judged, exports, serving, serverCrashes>>
AgeExport(x) ==
    /\ x \in workDir \ stale /\ stale' = stale \cup {x}
    /\ UNCHANGED <<dir, content, uploadAt, uses, judged, exports, serving, serverCrashes>>

CrashServing ==
    /\ serving /\ serverCrashes < MaxServerCrashes /\ serverCrashes' = serverCrashes + 1
    /\ serving' = FALSE /\ judged' = {}
    /\ uploadAt' = [u \in Upload |-> IF uploadAt[u] \in {"idle", "answered"} THEN uploadAt[u] ELSE "end"]
    /\ useAt' = [c \in StagedUse |-> IF useAt[c] = "idle" THEN "idle" ELSE "end"]
    /\ exportAt' = [x \in Export |-> IF exportAt[x] = "idle" THEN "idle" ELSE "end"]
    /\ UNCHANGED <<stagedFiles, useOf, workDir>>

(* main, before it listens: every sentinel is of a crash.  A slip: the       *)
(* sentinels are left.                                                       *)
LeftMarked(u) == dir[u]
ClearedMark(u) == IF dir[u] = "marked" THEN "open" ELSE dir[u]
RestartServing ==
    /\ ~serving /\ serving' = TRUE
    /\ dir' = [u \in Upload |-> IF ClearedMark(u) = "open" /\ u \in stale THEN "none" ELSE ClearedMark(u)]
    /\ content' = [u \in Upload |-> IF dir'[u] = "none" THEN "none" ELSE content[u]]
    /\ workDir' = workDir \ stale
    /\ UNCHANGED <<stale, uploadAt, uses, judged, exportAt, serverCrashes>>

StagingNext ==
    \/ \E u \in Upload :
        \/ BeginUpload(u) \/ MarkUpload(u) \/ StreamChunk(u) \/ FailStream(u) \/ UndoUpload(u)
        \/ UnmarkUpload(u) \/ DropUpload(u) \/ JudgeUpload(u) \/ PruneUpload(u) \/ Age(u)
    \/ \E c \in StagedUse : BeginUse(c) \/ CopyStaged(c) \/ UnlinkStaged(c) \/ RemoveStagedDir(c)
    \/ \E x \in Export : BeginExport(x) \/ EndExport(x) \/ AgeExport(x)
    \/ CrashServing \/ RestartServing

(* The maintenance task runs every day, and a server that crashed is         *)
(* started again.                                                            *)
StagingFairness ==
    /\ \A u \in Upload :
        WF_stagingVars(JudgeUpload(u)) /\ WF_stagingVars(PruneUpload(u)) /\ WF_stagingVars(Age(u))
    /\ WF_stagingVars(RestartServing)
StagingSpec == StagingInit /\ [][StagingNext]_stagingVars /\ StagingFairness

----------------------------------------------------------------------------
(* Properties. *)

(* Every variable keeps its type, and an upload that was answered is open.   *)
StagingTypeOK ==
    /\ dir \in [Upload -> DirState] /\ content \in [Upload -> ContentState]
    /\ uploadAt \in [Upload -> UploadPlace] /\ useAt \in [StagedUse -> UsePlace]
    /\ judged \subseteq Upload /\ workDir \subseteq Export
    /\ \A u \in Upload :
        /\ dir[u] = "none" => content[u] = "none"
        /\ uploadAt[u] = "answered" => dir[u] \in {"open", "none"}

(* However long a client takes, what it streams is not pruned under it, and  *)
(* an upload is answered with its whole file in place (upload_handler,       *)
(* prune_stale_upload_dirs).                                                 *)
StreamingUploadStays ==
    \A u \in Upload : uploadAt[u] \in {"stream", "unmark"} =>
        dir[u] = "marked" /\ (uploadAt[u] = "unmark" => content[u] = "whole")

(* A capture finds the file it was given unless it was a day old, or another *)
(* request used it too: neither the maintenance task nor a restart takes it. *)
SubmittedFileIsThere ==
    \A c \in StagedUse :
        useAt[c] = "copy" /\ useOf[c] \notin stale /\ (\A d \in StagedUse \ {c} : useOf[d] # useOf[c])
        => content[useOf[c]] = "whole"

(* What nobody submits goes in the end: a finished upload by the maintenance *)
(* task, and one whose client left in the middle, sentinel and all, with the *)
(* next start of the server.                                                 *)
StagedDirsGo ==
    \A u \in Upload :
        /\ dir[u] = "open" ~> dir[u] = "none"
        /\ (dir[u] = "marked" /\ ~serving) ~> dir[u] = "none"

(* Both: whatever the prune removes, nobody was writing or about to read     *)
(* (prune_stale_upload_dirs).                                                *)
StagedFilesStay == StreamingUploadStays /\ SubmittedFileIsThere
=============================================================================
