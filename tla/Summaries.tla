----------------------------- MODULE Summaries -----------------------------
(***************************************************************************)
(* Summaries of one entry: requests to generate one, each with a row of    *)
(* its own in entry_summaries and a background thread that may first fetch *)
(* subtitles and transcribe the audio; edits by agents and users, which    *)
(* insert completed rows; deletion of the entry, whose rowid the next      *)
(* entry takes over; failing statements, crashes, and clients that go away *)
(* while the preflight runs.                                               *)
(*                                                                         *)
(* An entry is known by a uid, here a number counting the entries that had *)
(* the rowid.  Rows go with their entry (ON DELETE CASCADE).  The slot     *)
(* that admits one transcription at a time is TranscriptionSlot; here it   *)
(* is taken in one step.                                                   *)
(***************************************************************************)
EXTENDS Integers, FiniteSets

CONSTANTS
    SummaryRequest,      \* POST requests
    SummaryEdit,         \* PUT requests
    MaxEntries,          \* bound: entries that have the rowid in turn
    MaxMishaps           \* bound: failing statements and server crashes

SummaryRow == SummaryRequest \cup SummaryEdit
Track == {"transcript", "fetched"}
SummaryStatus == {"none", "pending", "running", "completed", "failed"}

ASSUME SummariesAssumption ==
    /\ SummaryRequest \cap SummaryEdit = {}
    /\ MaxEntries \in Nat \ {0} /\ MaxMishaps \in Nat

VARIABLES
    holder,   \* uid of the entry that has the rowid, or 0
    entries,  \* uids given out
    tracks,   \* usable subtitle tracks of that entry
    row,      \* [SummaryRow -> SummaryStatus]: "none" before and after its life
    digest,   \* [SummaryRow -> what input_sha256 stands for]
    completedAt, \* [SummaryRow -> Nat]: the column, 0 before
    clock,    \* the latest of them
    sumAt,    \* [SummaryRow -> SummaryPlace]
    about,    \* [SummaryRow -> uid]: the entry that was asked about
    input,    \* [SummaryRequest -> Track or "none"]: what was extracted
    slot,     \* the request that transcribes, or none
    server,   \* "up" or "down"
    made,     \* ghost: transcripts registered for this entry
    orphaned, \* ghost: requests whose client went away in the preflight, or
              \*   whose failure could not be written
    late,     \* ghost: those that inserted on a rowid whose entry was deleted
    mishaps

sumRows == <<row, digest, completedAt, clock>>
entryRows == <<holder, entries, tracks, made>>
sumLocal == <<sumAt, about, input, slot>>
ghosts == <<orphaned, late>>
sumVars == <<entryRows, sumRows, sumLocal, server, ghosts, mishaps>>

SummaryPlace ==
    {"idle", "extract", "lookup", "insert", "spawn",
     "fetch", "register", "reread", "queue", "recheck", "publish",
     "release", "give_up", "rebuild", "digest", "run", "complete",
     "provider_failed", "read_back", "fail_read", "fail_write",
     "insert_edit", "end"}
Placeholder == "fetch_pending"
NoInput == "none"

SumWorks == UNCHANGED mishaps
SumFails == mishaps < MaxMishaps /\ mishaps' = mishaps + 1
SumGo(r, s) == sumAt' = [sumAt EXCEPT ![r] = s]
SumMoves(r, s, t) == sumAt[r] = s /\ SumGo(r, t) /\ server = "up"

SummariesInit ==
    /\ holder = 1 /\ entries = 1 /\ tracks \in {{}, {"fetched"}} /\ made = 0
    /\ row = [s \in SummaryRow |-> "none"]
    /\ digest = [s \in SummaryRow |-> NoInput]
    /\ completedAt = [s \in SummaryRow |-> 0] /\ clock = 0
    /\ sumAt = [s \in SummaryRow |-> "idle"]
    /\ about = [s \in SummaryRow |-> 0]
    /\ input = [r \in SummaryRequest |-> NoInput]
    /\ slot = {} /\ server = "up"
    /\ orphaned = {} /\ late = {} /\ mishaps = 0

(* The row's next completion; UTC_NOW is later each time. *)
Completes(s) ==
    clock' = clock + 1 /\ completedAt' = [completedAt EXCEPT ![s] = clock + 1]

(* Slip: only the status is written. *)
UpdateStatus(s, status) ==
    /\ row' = [row EXCEPT ![s] = IF @ = "none" THEN "none" ELSE status]
    /\ UNCHANGED <<completedAt, clock>>

(* A statement on a row by its uid; none if the row is gone. *)
UpdateRow(s, status) ==
    IF row[s] = "none" THEN UNCHANGED <<row, completedAt, clock>>
    ELSE /\ row' = [row EXCEPT ![s] = status]
         /\ IF status = "completed" THEN Completes(s) ELSE UNCHANGED <<completedAt, clock>>

(* latest_completed_entry_summary. *)
Shown ==
    {s \in SummaryRow : row[s] = "completed"
        /\ \A t \in SummaryRow : row[t] = "completed" => completedAt[t] <= completedAt[s]}

(* The usable track of the best rank (subtitle_track_rank): fetched stands   *)
(* for automatic captions, which a transcript goes before.                   *)
BestTrack ==
    IF "transcript" \in tracks THEN "transcript"
    ELSE IF "fetched" \in tracks THEN "fetched" ELSE NoInput

----------------------------------------------------------------------------
(* The request and its preflight. *)
BeginSummary(r) ==
    /\ SumMoves(r, "idle", "extract") /\ holder # 0
    /\ about' = [about EXCEPT ![r] = holder]
    /\ UNCHANGED <<entryRows, sumRows, input, slot, server, ghosts, mishaps>>

(* The rowid of the uid, and the text.  A request without a usable track has *)
(* no key to look up, and one that forces a new summary does not.            *)
Extract(r) ==
    /\ \/ SumMoves(r, "extract", "end") /\ holder # about[r] /\ UNCHANGED input
       \/ /\ holder = about[r] /\ input' = [input EXCEPT ![r] = BestTrack]
          /\ \/ SumMoves(r, "extract", "insert")
             \/ BestTrack # NoInput /\ SumMoves(r, "extract", "lookup")
    /\ UNCHANGED <<entryRows, sumRows, about, slot, server, ghosts, mishaps>>

(* A completed row with the same key answers the request. *)
LookupSummary(r) ==
    /\ SumMoves(r, "lookup",
          IF \E s \in SummaryRequest : row[s] = "completed" /\ digest[s] = input[r] THEN "end" ELSE "insert")
    /\ UNCHANGED <<entryRows, sumRows, about, input, slot, server, ghosts, mishaps>>

(* The digest of a missing input is a placeholder. *)
KeyOf(r) == IF input[r] = NoInput THEN Placeholder ELSE input[r]

(* The rowid was read before the extraction: the foreign key refuses it if   *)
(* it is free, and takes it for whatever entry has it now.                   *)
InsertPending(r) ==
    /\ \/ /\ SumWorks /\ holder # 0 /\ SumMoves(r, "insert", "spawn")
          /\ row' = [row EXCEPT ![r] = "pending"]
          /\ digest' = [digest EXCEPT ![r] = KeyOf(r)]
          /\ late' = IF holder = about[r] THEN late ELSE late \cup {r}
       \/ /\ holder = 0 /\ SumWorks /\ SumMoves(r, "insert", "end")
          /\ UNCHANGED <<row, digest, late>>
       \/ SumFails /\ SumMoves(r, "insert", "end") /\ UNCHANGED <<row, digest, late>>
    /\ UNCHANGED <<entryRows, completedAt, clock, about, input, slot, server, orphaned>>

(* The handler wakes up from its await and starts the background thread. *)
Spawn(r) ==
    /\ SumMoves(r, "spawn", IF input[r] = NoInput THEN "fetch" ELSE "run")
    /\ UNCHANGED <<entryRows, sumRows, about, input, slot, server, ghosts, mishaps>>

(* Or it does not: the client closed the connection, and the server drops    *)
(* the handler at its await.                                                 *)
DropHandler(r) ==
    /\ SumMoves(r, "spawn", "end")
    /\ orphaned' = orphaned \cup {r}
    /\ UNCHANGED <<entryRows, sumRows, about, input, slot, server, late, mishaps>>

----------------------------------------------------------------------------
(* The background thread: build_summary_input_with_subtitle_fetch. *)

(* fetch_subtitles_for_entry looks again for a usable track, then downloads. *)
FetchSubtitles(r) ==
    /\ \/ holder # about[r] /\ SumMoves(r, "fetch", "fail_read")
       \/ holder = about[r] /\ tracks # {} /\ SumMoves(r, "fetch", "reread")
       \/ holder = about[r] /\ tracks = {} /\ SumMoves(r, "fetch", "register")
    /\ UNCHANGED <<entryRows, sumRows, about, input, slot, server, ghosts, mishaps>>

(* register_subtitle_artifacts: whatever was downloaded, to the rowid it     *)
(* kept (EntryTree says what that may do).                                   *)
RegisterTracks(r) ==
    /\ \/ /\ SumWorks /\ holder # 0 /\ SumMoves(r, "register", "reread")
          /\ tracks' = tracks \cup {"fetched"}
       \/ SumWorks /\ SumMoves(r, "register", "reread") /\ UNCHANGED tracks
       \/ holder = 0 /\ SumWorks /\ SumMoves(r, "register", "fail_read") /\ UNCHANGED tracks
       \/ SumFails /\ SumMoves(r, "register", "fail_read") /\ UNCHANGED tracks
    /\ UNCHANGED <<holder, entries, made, sumRows, about, input, slot, server, ghosts>>

(* Still nothing: transcribe, if the request named an engine. *)
Reread(r) ==
    /\ \/ holder # about[r] /\ SumMoves(r, "reread", "fail_read") /\ UNCHANGED input
       \/ /\ holder = about[r] /\ tracks # {} /\ SumMoves(r, "reread", "digest")
          /\ input' = [input EXCEPT ![r] = BestTrack]
       \/ /\ holder = about[r] /\ tracks = {} /\ UNCHANGED input
          /\ SumMoves(r, "reread", "queue") \/ SumMoves(r, "reread", "fail_read")
    /\ UNCHANGED <<entryRows, sumRows, about, slot, server, ghosts, mishaps>>

(* The slot, or the deadline (TranscriptionSlot). *)
AcquireSlot(r) ==
    /\ \/ slot = {} /\ SumMoves(r, "queue", "recheck") /\ slot' = {r}
       \/ slot # {} /\ SumMoves(r, "queue", "fail_read") /\ UNCHANGED slot
    /\ UNCHANGED <<entryRows, sumRows, about, input, server, ghosts, mishaps>>

(* Slip: the look under the slot forgotten. *)
NeverUsable == FALSE
UsableNow == tracks # {}

(* The language, the audio, the resampling, the engine and its output may    *)
(* each end it.                                                              *)
EngineOutcome == {"publish", "give_up"}

(* Under the slot it looks once more, and transcribes if it has to.          *)
RecheckTracks(r) ==
    /\ \/ holder # about[r] /\ SumMoves(r, "recheck", "give_up")
       \/ holder = about[r] /\ UsableNow /\ SumMoves(r, "recheck", "release")
       \/ /\ holder = about[r] /\ ~UsableNow
          /\ \E s \in EngineOutcome : SumMoves(r, "recheck", s)
    /\ UNCHANGED <<entryRows, sumRows, about, input, slot, server, ghosts, mishaps>>

PublishTranscript(r) ==
    /\ \/ /\ SumWorks /\ holder # 0 /\ SumMoves(r, "publish", "release")
          /\ tracks' = tracks \cup {"transcript"}
          /\ made' = made + 1
       \/ /\ holder = 0 /\ SumWorks /\ SumMoves(r, "publish", "give_up")
          /\ UNCHANGED <<tracks, made>>
       \/ SumFails /\ SumMoves(r, "publish", "give_up") /\ UNCHANGED <<tracks, made>>
    /\ UNCHANGED <<holder, entries, sumRows, about, input, slot, server, ghosts>>

ReleaseSlot(r) ==
    /\ SumMoves(r, "release", "rebuild") \/ SumMoves(r, "give_up", "fail_read")
    /\ slot' = {}
    /\ UNCHANGED <<entryRows, sumRows, about, input, server, ghosts, mishaps>>

Rebuild(r) ==
    /\ \/ /\ holder # about[r] \/ tracks = {}
          /\ SumMoves(r, "rebuild", "fail_read") /\ UNCHANGED input
       \/ /\ holder = about[r] /\ tracks # {} /\ SumMoves(r, "rebuild", "digest")
          /\ input' = [input EXCEPT ![r] = BestTrack]
    /\ UNCHANGED <<entryRows, sumRows, about, slot, server, ghosts, mishaps>>

(* update_entry_summary_input_sha256. *)
RecordDigest(r) ==
    /\ \/ /\ SumWorks /\ SumMoves(r, "digest", "run")
          /\ digest' = IF row[r] = "none" THEN digest ELSE [digest EXCEPT ![r] = input[r]]
       \/ SumFails /\ SumMoves(r, "digest", "fail_read") /\ UNCHANGED digest
    /\ UNCHANGED <<entryRows, row, completedAt, clock, about, input, slot, server, ghosts>>

----------------------------------------------------------------------------
(* An HTTP provider or a command line answers in the end, or it does not. *)
ProviderOutcome == {"complete", "provider_failed"}

(* summarize_prebuilt_entry: running, the provider, and the row's end. *)
RunSummary(r) ==
    /\ \/ /\ SumWorks /\ UpdateRow(r, "running")
          /\ \E s \in ProviderOutcome : SumMoves(r, "run", s)
       \/ SumFails /\ SumMoves(r, "run", "fail_read") /\ UNCHANGED <<row, completedAt, clock>>
    /\ UNCHANGED <<entryRows, digest, about, input, slot, server, ghosts>>

CompleteSummary(r) ==
    /\ \/ SumWorks /\ SumMoves(r, "complete", "read_back") /\ UpdateRow(r, "completed")
       \/ SumFails /\ SumMoves(r, "complete", "fail_read") /\ UNCHANGED <<row, completedAt, clock>>
    /\ UNCHANGED <<entryRows, digest, about, input, slot, server, ghosts>>

ProviderFailed(r) ==
    /\ SumMoves(r, "provider_failed", "fail_read")
    /\ \/ SumWorks /\ UpdateRow(r, "failed")
       \/ SumFails /\ UNCHANGED <<row, completedAt, clock>>
    /\ UNCHANGED <<entryRows, digest, about, input, slot, server, ghosts>>

(* The row is read once more; a failure here counts as one of the summary. *)
ReadBack(r) ==
    /\ \/ SumWorks /\ SumMoves(r, "read_back", IF row[r] = "none" THEN "fail_read" ELSE "end")
       \/ SumFails /\ SumMoves(r, "read_back", "fail_read")
    /\ UNCHANGED <<entryRows, sumRows, about, input, slot, server, ghosts>>

(* Slip: only attempts that ran. *)
WasRunning(r) == row[r] = "running"
NeedsFailure(r) == row[r] \notin {"none", "failed"}

(* record_background_summary_failure: read the status, then write. *)
FailRead(r) ==
    /\ \/ /\ SumWorks /\ UNCHANGED orphaned
          /\ SumMoves(r, "fail_read", IF NeedsFailure(r) THEN "fail_write" ELSE "end")
       \/ SumFails /\ SumMoves(r, "fail_read", "end") /\ orphaned' = orphaned \cup {r}
    /\ UNCHANGED <<entryRows, sumRows, about, input, slot, server, late>>

FailWrite(r) ==
    /\ SumMoves(r, "fail_write", "end")
    /\ \/ SumWorks /\ UpdateRow(r, "failed") /\ UNCHANGED orphaned
       \/ SumFails /\ UNCHANGED <<row, completedAt, clock>> /\ orphaned' = orphaned \cup {r}
    /\ UNCHANGED <<entryRows, digest, about, input, slot, server, late>>

----------------------------------------------------------------------------
(* put_entry_summary: the rowid of the entry, the summary to edit, a row.    *)
(* A manual one without a summary to edit is a conflict.                     *)
BeginEdit(e) ==
    /\ holder # 0 /\ about' = [about EXCEPT ![e] = holder]
    /\ SumMoves(e, "idle", "insert_edit") \/ (Shown = {} /\ SumMoves(e, "idle", "end"))
    /\ UNCHANGED <<entryRows, sumRows, input, slot, server, ghosts, mishaps>>

InsertEdit(e) ==
    /\ \/ /\ SumWorks /\ holder # 0
          /\ row' = [row EXCEPT ![e] = "completed"] /\ Completes(e)
          /\ late' = IF holder = about[e] THEN late ELSE late \cup {e}
       \/ ((holder = 0 /\ SumWorks) \/ SumFails) /\ UNCHANGED <<row, completedAt, clock, late>>
    /\ SumMoves(e, "insert_edit", "end")
    /\ UNCHANGED <<entryRows, digest, about, input, slot, server, orphaned>>

----------------------------------------------------------------------------
(* Slip: the connection does not enforce foreign keys. *)
KeptRows == UNCHANGED <<row, completedAt, clock>>
CascadedRows ==
    row' = [s \in SummaryRow |-> "none"] /\ completedAt' = [s \in SummaryRow |-> 0] /\ clock' = 0

(* The entry is deleted, and the next one takes its rowid. *)
DeleteEntry ==
    /\ holder # 0 /\ server = "up"
    /\ holder' = 0 /\ tracks' = {} /\ made' = 0
    /\ CascadedRows
    /\ UNCHANGED <<entries, digest, sumLocal, server, ghosts, mishaps>>

NewEntry ==
    /\ holder = 0 /\ server = "up" /\ entries < MaxEntries
    /\ entries' = entries + 1 /\ holder' = entries + 1
    /\ UNCHANGED <<tracks, made, sumRows, sumLocal, server, ghosts, mishaps>>

CrashSummaries ==
    /\ server = "up" /\ SumFails
    /\ server' = "down" /\ slot' = {}
    /\ sumAt' = [s \in SummaryRow |-> IF sumAt[s] = "idle" THEN "idle" ELSE "end"]
    /\ UNCHANGED <<entryRows, sumRows, about, input, ghosts>>

(* fail_stalled_entry_summaries when the server starts; a failure is logged. *)
(* Slip: all rows but the failed ones.                                       *)
Unfailed == {s \in SummaryRow : row[s] \notin {"none", "failed"}}
Stalled == {s \in SummaryRow : row[s] \in {"pending", "running"}}
RecoverSummaries ==
    /\ server = "down" /\ server' = "up"
    /\ \/ /\ UNCHANGED orphaned
          /\ row' = [s \in SummaryRow |-> IF s \in Stalled THEN "failed" ELSE row[s]]
       \/ orphaned' = orphaned \cup Stalled /\ UNCHANGED row
    /\ UNCHANGED <<entryRows, digest, completedAt, clock, sumLocal, late, mishaps>>

ThreadStep(r) ==
    \/ Spawn(r) \/ FetchSubtitles(r) \/ RegisterTracks(r) \/ Reread(r)
    \/ AcquireSlot(r) \/ RecheckTracks(r) \/ PublishTranscript(r)
    \/ ReleaseSlot(r) \/ Rebuild(r) \/ RecordDigest(r)
    \/ RunSummary(r) \/ CompleteSummary(r) \/ ProviderFailed(r)
    \/ ReadBack(r) \/ FailRead(r) \/ FailWrite(r)

SummariesNext ==
    \/ \E r \in SummaryRequest :
        \/ BeginSummary(r) \/ Extract(r) \/ LookupSummary(r) \/ InsertPending(r)
        \/ DropHandler(r) \/ ThreadStep(r)
    \/ \E e \in SummaryEdit : BeginEdit(e) \/ InsertEdit(e)
    \/ DeleteEntry \/ NewEntry \/ CrashSummaries \/ RecoverSummaries

(* Threads run on, and an operator restarts a server that crashed. *)
SummariesFairness ==
    (\A r \in SummaryRequest : WF_sumVars(ThreadStep(r))) /\ WF_sumVars(RecoverSummaries)
SummariesSpec == SummariesInit /\ [][SummariesNext]_sumVars /\ SummariesFairness

----------------------------------------------------------------------------
(* Properties. *)

(* Every variable keeps its type, and of the completed rows one is the latest. *)
SummariesTypeOK ==
    /\ entries \in 1..MaxEntries /\ holder \in {0, entries}
    /\ tracks \subseteq Track /\ made \in Nat
    /\ row \in [SummaryRow -> SummaryStatus]
    /\ \A s \in SummaryRow : row[s] = "completed" => completedAt[s] \in 1..clock
    /\ \A s, t \in SummaryRow : row[s] = "completed" /\ completedAt[t] = completedAt[s] => t = s
    /\ sumAt \in [SummaryRow -> SummaryPlace]
    /\ slot \subseteq SummaryRequest /\ server \in {"up", "down"}

ShownStep ==
    Shown # {} /\ holder' = holder =>
        \/ Shown' = Shown
        \/ \E s \in Shown' : row[s] # "completed" /\ row'[s] = "completed"
        \/ \E s \in Shown : sumAt[s] = "fail_write" /\ sumAt'[s] = "end"

(* The summary an entry shows stays until another one is completed or the    *)
(* entry is deleted: attempts that start, fetch, run, fail or are swept by a *)
(* restart do not take it away.  The exception is a statement that fails     *)
(* right after the row was completed: it is then recorded as failed          *)
(* (upsert_pending_entry_summary, record_background_summary_failure).        *)
ShownStays == [][ShownStep]_sumVars

(* An attempt does not stay pending or running: its thread ends it, the next *)
(* start of the server does, or its entry is deleted.  The exceptions are an *)
(* attempt whose client left before its thread was started, and one whose    *)
(* failure could not be written.                                             *)
AttemptSettles ==
    \A r \in SummaryRequest :
        row[r] \in {"pending", "running"} ~>
            row[r] \notin {"pending", "running"} \/ r \in orphaned

(* However many attempts wait for a transcription, an entry is transcribed   *)
(* once: those that come later look again under the slot.                    *)
OneTranscript == made <= 1

(* A completed summary is one of the entry that was asked about, also when   *)
(* the entry was deleted meanwhile and its rowid given to another, except    *)
(* for rows inserted with a rowid read before the deletion.                  *)
SummaryDescribesItsEntry ==
    \A s \in SummaryRow \ late : row[s] = "completed" => about[s] = holder

(* While files are fetched or transcribed into raw/ before their rows exist, *)
(* the attempt is pending with the placeholder digest, so that the blob      *)
(* cleanup sees it (has_pending_subtitle_fetches), unless its entry is gone. *)
FetchIsAnnounced ==
    \A r \in SummaryRequest : sumAt[r] \in {"register", "publish"} =>
        row[r] = "none" \/ (row[r] \in {"pending", "running"} /\ digest[r] = Placeholder)

(* Both: what two requests fetch for one video is archived once, in sight of *)
(* the cleanup (fetch_subtitles_for_entry, has_pending_subtitle_fetches).    *)
FetchedOnceInSight == OneTranscript /\ FetchIsAnnounced
=============================================================================
