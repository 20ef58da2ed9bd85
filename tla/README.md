# archivr: specifications and proofs

archivr archives web pages, videos, playlists, tweets, files and notes into
self-contained archives: an SQLite database next to a content-addressed store of
files. A server (axum, tokio) and a command line share `archivr-core`, and may work
on one archive at the same time; a web interface (React) talks to the server. This
directory models the parts of it where the order of events matters, checks them with
TLC on small instances and proves most of their properties with TLAPS for every
instance.

Paths below are relative to the repository; `core/`, `server/` and `cli/` stand for
`crates/archivr-core/src/`, `crates/archivr-server/src/`, `crates/archivr-cli/src/`.

How to run: `tlc -config CaptureRuns_all.cfg MCCaptureRuns` (the runs of section 3),
`tlapm EntriesProofs.tla` (the proofs of section 4).

## 1. Inventory

| component | state | operations | hard behaviour | correct means | here |
|---|---|---|---|---|---|
| capture jobs and runs (`core/capture.rs`, `capture_jobs.rs`, `database.rs`, `server/routes.rs`, `jobs.rs`) | `capture_jobs`, `archive_runs`, `archive_run_items`, one blocking thread per capture | submit, start, one branch of `perform_capture` per source, per-item bookkeeping, close, report, recovery; lists and details | each SQL statement commits alone; crashes; failing statements ignored or propagated; the command line has no job row | a settled job tells the truth about its run; nothing dead looks alive; a list tells what is there | `CaptureRuns`, `CaptureService`, `Listing` |
| child processes (`core/process.rs`, `downloader/ytdlp.rs`) | a process group, two pipes, a deadline | spawn, poll, drain, kill | helpers that keep pipes or leave the group; numbers handed out again | every bounded call returns; a kill hits its own group | `Processes` |
| locators, cookies, browser sessions (`core/capture.rs`, `browser_session.rs`, `CaptureDialog.jsx`) | `cookie_rules` | classify, expand, probe, choose cookies, edit rules | rules edited while a capture copies them; the dialog guesses on its own | the right thing is fetched with the cookies meant for it | `Sources` |
| downloaders (`core/downloader/`) | a temp directory per fetch | run a program, retry, stage, store, sweep | a failure between any two; programs that leave anything behind | what was asked for is stored, no secrets stay | `Fetches`, `Pages` |
| pages and fonts (`downloader/singlefile.rs`, `font_extractor.rs`) | fonts in `raw/` shared by hash | save, inline images, extract fonts | fonts are written in place and taken to be whole | pages keep their fonts; secrets stay with their site | `Pages` |
| blob store (`downloader/store.rs`, `hash.rs`, `database.rs`, `server/routes.rs`) | `raw/`, `blobs`, `entry_artifacts` | check-then-move, upsert, attach, swap, delete, cleanup | files before rows; the guards look at announcing rows only; rowids are reused | no archived file is lost, no two contents mixed up | `BlobStore` |
| entries and the tree (`core/database.rs`, `archive.rs`) | `archived_entries` (parent, position, cached bytes) | create, append, sync, reorder, delete, recompute | captures hold rowids across downloads; stored derived sizes | siblings ordered, files in their entry, sizes right | `EntryTree`, `CachedBytes` |
| titles (`core/thread_title.rs`, `capture.rs`) | `title` of an entry | rename, generate, rewrite at start | read before a provider answers; deletions and reuse | no rename is lost, no title for another entry | `Titles` |
| tweets (`downloader/tweets.rs`) | `raw_tweets/*.json`, shared by threads | scrape, archive, re-archive | in-place rewrite before the transaction | an entry's JSON and media stay | `TweetArchive` |
| summaries, subtitles, transcription (`core/summarizer.rs`, `subtitles.rs`, `transcriber.rs`) | `entry_summaries`, tracks, one slot | request, fetch, transcribe, edit, recover | attempts overtaking each other; a slot with a deadline | the newest is shown, each is of its entry, the slot is freed | `Summaries`, `TranscriptionSlot` |
| tags (`core/database.rs`) | `tags`, `entry_tag_assignments` | create a path, rename, move, delete, assign | checks outside the transaction | a tree whose paths spell it | `Tags`, `Listing` |
| collections, visibility, media tokens | masks per membership, tokens | assign, change, patch, issue and use tokens, custom roles | rights read and used at different times; self-lockout | what is opened is what is listed; masks change as asked | `Visibility` |
| accounts (`core/auth_users.rs`, `server/auth.rs`, `admin_users.rs`, `guards.rs`) | users, roles, sessions | setup, login, roles, status, deletion | the last owner; roles stored in sessions | an active owner remains; sessions are current | `Accounts` |
| credentials (`server/token_scope.rs`, `credentials.rs`, `core/auth_credentials.rs`) | passwords, sessions, tokens, sign-in attempts | guard, extractor, sign-in limit, password changes | two lookups of one credential | nobody is let in by what no longer lets in | `Gate` |
| settings and providers (`server/effective_config.rs`, `core/env_config.rs`, `summarizer.rs`) | environment, `instance_settings` | resolve, show, PATCH | read-merge-write | what is shown is what is used; no write is lost | `Providers`, `Visibility` |
| opening databases (`core/database.rs`) | tables and columns | open, migrate | openings overlap with each other and with captures; crashes | behind an opening everything is migrated | `Schema` |
| uploads and exports (`server/routes.rs`, `exports.rs`, `core/export/`) | staging and work directories | upload, capture, discard, prune; check, load, render, pack | age against use; deletions under an export | a staged file lives while it is used; an export is whole | `Staging`, `Exports`, `Threads` |
| managed tools (`downloader/ytdlp_tools.rs`, `deno_install.rs`, `js_runtime.rs`) | installed binaries, cached choices | update, resolve | replaced while in use; two processes; cut off | a whole tool, under its version, and the newest is used | `Tools` |
| web interface (`frontend/src/`) | React state, sessionStorage | type, probe, submit, poll, select, edit | late, lost and reordered answers | what is shown and sent is what is selected and typed | `CaptureTab`, `Drafts`, `Rail`, `Selection` |
| registry, other views, packaging, vendored code | - | single writes, forms | none over time | - | not modelled |

The `hazards` list of `PROJECT.json` names, at their lines, what a test of this code
would hardly reach, with the properties that cover it.

## 2. Modules

Every module models one component: its state as variables, one action per handler
step, statement, callback or file operation, so that other requests, crashes and
failures fall between any two of them. A handler's steps between two points where
others can interfere (an SQL statement outside a transaction, an await, a lock, a
file operation) are one action. Ghost and history variables (named so where they are
declared) record what a property needs and no guard reads them. Bounds are constants
whose names begin with `Max`; a module's `...Assumption` says what it needs of its
constants.

The MC modules compose components for TLC. Where components share no state, a behaviour
moves one of them, the `focus`, and the others rest in a single state; `mix` selects
which of the tasks of a behaviour run together. Both are fixed by the initial state.

### CaptureRuns, CaptureService (in MCCaptureRuns)

One capture request: its job row (`job`, `linked`), its run row (`run`, the stored
counters `tally`), its item rows (`item`: the root and the members of a playlist), and
the thread that executes it (`task`, `current`, `todo`). `task` is the place in
`perform_capture`, between two SQL statements. Outside the one transaction the code
opens (`RecordTweet`), each statement is an action, so a crash of the server (`Crash`),
the death of a command line (`KillCli`) and the recovery of a starting server
(`RecoverItems`, `RecoverRuns`, `RecoverJobs`, one per statement of
`fail_stalled_capture_jobs`) fall between any two of them. Every statement may also
fail (`Fails`, at most `MaxFaults` times), and what the code does then decides the
next state: `?` leads to `err`, `fail_run` to `fail_item`, `let _ =` and `.ok()` go on.

| code | here |
|---|---|
| `capture_handler` up to the spawn; the closure's first lines | `Submit`, `StartTask` |
| `archivr archive` | `StartCli` |
| `create_archive_run`, `link_job_to_run`, `create_archive_run_item` | `CreateRun`, `LinkRun`, `CreateItem` |
| the branches of `perform_capture`; `perform_text_capture_for_job` | `Fetch`: `Reject`, `FetchMedia`, `SaveText`, `ScrapeTweet`, `ListPlaylist` |
| `record_media_entry`, the container of a playlist, the tweet transaction | `RecordMedia`, `RecordContainer`, `RecordTweet` |
| `refresh_run_counters`, wherever it is called | `RefreshCounters`, with `Onward` and `Backout` saying where the caller goes |
| the playlist loop | `NextChild`, `SaveChild`, `FailChild` |
| `finish_archive_run`, `fail_run` | `FinishRun`; `FailItem`, `FailRun` |
| the end of the closure | `Report` (with `Verdict`), `ReportError` |

"media" stands for a direct download, a saved page, a yt-dlp download and a local file:
they differ in what they fetch (`Fetches`, `Pages`), not in the rows they write. What is
recorded (entries, artifacts) is one step with the marking of the item that follows it,
because no row of this module depends on it; it is detailed in `BlobStore`. A text
capture reports its job without the run's status; the run of a text that was saved has
completed, so `Verdict` gives the same.

`CaptureService` is the abstract specification: what the client that polls a job may
rely on. `CaptureRuns` implements it under the mapping `PhaseOf` (pending and running
are both open) and `saved` (the completed items). `CaptureTab` is written against it.

### Processes (in MCCaptureRuns)

`run_with_timeout` and its twin in `ytdlp.rs`: the child and a helper it may start
(`child`, `helper`, `held`: the pipes the helper keeps), the threads that drain the pipes
(`drained`), the caller (`runAt`). `KillGroup` kills by number: whoever has the number
then. `GroupId` may be handed out again once no process of the group is left and its
leader was reaped. `Strict` calls (those of `process.rs`) fail if a pipe cannot be read;
those of `ytdlp.rs` take what there is.

### BlobStore (in MCBlobStore)

The files under `raw/` (`disk`), the `blobs` rows (`blob`), the `entry_artifacts` rows
(`art`), the entries (`live`), and everything that runs over them. A writer is a task
storing one file: a server or command-line capture (`check`, `move`, `insert`, `select`,
`entry`, `attach`: file system calls and statements of their own), a tweet capture and
a re-archive (one transaction), or a subtitle fetch of a summary (one transaction).
`row` is the job or summary row that announces it. A cleanup is
`blob_cleanup_delete_handler` step by step: `FirstGuard`, the two reads of
`all_referenced_file_relpaths`, the walk one file at a time, `SecondGuard`, the deletion
of rows, then of files, one at a time. `Upserted` picks any free rowid, which
over-approximates SQLite's reuse; `ForeignKeysHold` is `PRAGMA foreign_keys`.

Two ghosts record what a cleanup could not know: `blind`, the writers that began after
its first guard or that no row announces; `exposed`, those of them that were over, or
still unannounced, when it passed the second guard, and those that began later. The
properties say that exactly these may be harmed. One file per writer; entries are named
by the task that made them, so an entry's rowid is never handed out again here.

### Pages, Exports, Threads, Sources, Ranking (in MCBlobStore)

`Pages`: captures of web pages and the fonts they share. A font file is written in place
(`OpenFont`, `WriteFont`) and one that exists is taken to be whole (`FindFont`); rows
and artifacts follow (`RegisterFonts`); deletions, the cleanup (here in one step: its own
steps are in `BlobStore`), failures and a crash come between. `SavePage` and
`InlineImages` say which hosts see cookies and which origin's storage is handed over,
with and without the mirror.

`Exports`: `AskExport`, `CheckItem` (what the caller may see), `LookUpItem` (what is
asked for twice, or with its container, counts once), `LoadItem`, `LocalizeFonts`,
`GeneratePosters`, `PackAsset` file by file, `FinishExport`, under deletions, changes of
collections and removed files (at most `MaxUpsets`).

`Threads`: `build_thread` on every graph of replies of `MaxPost` posts, also cyclic ones:
the climb to the root and the descent, as the code does them, post by post.

`Ranking`: sequences given by rank (the replies to a post in their order, the rules in
theirs, what a selection leaves over), so that they can be proved about.

`Sources`: a locator is the scheme or host it begins with and the kind of thing its path
names. `SourceOf`, `Expand`, `DialogProbes` and `DialogLists` are the four tables of the
code (the classification, the expansion, the two guesses of the dialog); `Applies` and
`JarFor` choose cookies; `BeginCreate` to `DeleteRule` are administrators' requests about
rules, read and write apart; `SubmitCapture` copies the rules, `Resolve` goes down the
branch, with the browser session a capture may bring.

### EntryTree, CachedBytes (in MCEntries)

`EntryTree`: the rows of `archived_entries` that matter for rowids, parents, roots and
positions (`ent`, a function from the live rowids), and the tasks that keep a rowid while
they download: playlist captures (`held`, the container), every capture between the
insert of its entry and of its artifacts (`own`), re-archives and subtitle fetches
(`own`, read before the scrape or the download). `NewId` is SQLite's rule for an
`INTEGER PRIMARY KEY` without `AUTOINCREMENT`.

| code | here |
|---|---|
| `get_entry_for_rearchive`, `entry_source_info` at the start of a task | `Begin` |
| `find_container_entry_id_by_canonical_url`, `get_archived_playlist_child_urls` | `Lookup`, `Listing` |
| `create_archived_entry`: the INSERT, the UPDATE of a root's root, the enrolment | `InsertRoot`, `SetRoot`, `Enrol` |
| the playlist loop, `add_entry_artifact` | `InsertMember`, `Attach` |
| the transactions of a tweet capture and of a re-archive | `RecordTweet`, `SwapArtifacts` |
| `reorder_entry_children_handler` (BEGIN IMMEDIATE), `delete_entry_handler` | `ReorderChildren`, `DeleteEntry` |

An entry's `uid` (the task and member that made it) is what its rowid should mean;
`under` and `aim` record what a task meant by a rowid when it took it, `looked` when a
sync looked for its container, `lost` the tasks one of whose entries was deleted under
them. `Unblocked` is the enforcement of the foreign keys of `parent_entry_id` and
`root_entry_id`, which have no ON DELETE action.

`CachedBytes`: `cached_bytes` is stored (`stored`), and defined by `EarlierBytes`: the
size of those of an entry's blobs that an earlier entry has. `DeleteEntry` there is
`delete_entry` with the one UPDATE of `cascade_cached_bytes_after_subtree_delete`:
`Affected` is its WHERE clause, `Recomputed` its subquery. `archived_at` is taken before
a statement waits for the write lock, so inserts may share a time or come out of order.
Avatars, which the SQL leaves out of both sides, are left out.

### Accounts, Tags, Visibility (in MCRequests)

`Accounts`: the users by rowid (`uid`, `active`, `roles`), the custom roles that exist
(`live`), the sessions with the role bits cached in them, and the requests under way
(`at`, `work`: what each has read so far). A request runs on its own connection, and only
`with_write_lock` makes its check and its write one step. `NotLastOwner` is
`ensure_not_last_owner`, `CanGrant` the foreign keys of `user_roles`; `behind` is a
history variable: the rowids some session of which is older than a change its
invalidation could not reach.

| code | here |
|---|---|
| `AuthUser` from a session or a token, `require_role` | `Callers`, `BeginAdmin` |
| `get_user_id_by_uid`, `ensure_not_self`, the role rules; `ensure_can_manage` | `Lookup`; `Check` |
| `auth_setup`, `admin_create_user`; `create_owner`, `create_user` | `BeginSetup`, `BeginCreate`; `InsertUser`, `Grant` |
| `auth_login`: the row, `compute_role_bits`, `create_session` | `BeginLogin`, `ReadBits`, `CreateSession` |
| `admin_set_user_status`, `admin_delete_user`, removal of `owner` | `SetStatus`, `DeleteUser`, `RemoveOwner` |
| `assign_role`; removal of any other role | `Grant`, `Invalidate`; `HasRole`, `DropRole`, `Invalidate` |
| `delete_custom_role` (one transaction) | `DeleteRole` |

`Tags`: the table as a function from the live rowids to rows of parent and full path. A
request's statements up to `BEGIN` are actions of their own (`ReadTag`, `ReadParent`,
`CheckFree`; `SeekSegment`, `InsertSegment` per segment of a new path); the two UPDATEs
of a rename or move are one step (`Rewrite`), which may find that the tree has changed.
`NeverEnds` is the `WITH RECURSIVE ... UNION ALL` over a cycle. Slugs all have one
length, so that cutting a path after the length of a prefix is cutting it after a
number of segments. `raced` is a ghost: some write relied on a row that had changed.

`Visibility`: masks of role bits per membership (`shown`), collections with their default
mask and login requirement (`shelves`), roles and the bits handed out (`liveRoles`,
`allocated`), media tokens; a request reads from the archive, then from the auth
database, and `moved` records what others wrote since. `apply_without_self_lockout` is
`SeeBefore` and `WriteChange` (the transaction with its rollback).

### Summaries (MCSummaries), TranscriptionSlot, TweetArchive, Staging, Tools, Fetches (in MCFiles)

`Summaries`: the attempts at summaries of one entry: `LookupSummary`, `InsertPending`,
the background thread (`FetchSubtitles`, `RegisterTracks`, `AcquireSlot`,
`RecheckTracks`, `PublishTranscript`, `RecordDigest`, `RunSummary`, `CompleteSummary`),
its failures (`FailRead`, `FailWrite`: two statements), edits by hand, the deletion of
the entry and another one under its rowid, crashes, `RecoverSummaries`, and clients
that go away during the preflight (`DropHandler`). The times attempts complete at are taken
to follow the order of their commits; in the code `now_timestamp()` is read just before the
statement waits for the write lock, so two attempts that complete at the same moment may be
stamped the other way round, and the later commit is then not the one shown.

`TranscriptionSlot`: the mutex and condition variable of `acquire_slot`, with deadlines
that pass at any time, spurious wake-ups, and waiters that take a slot freed for another.

`TweetArchive`: the JSON files of a chain of tweets, the media they name, and the rows of
entries that share both. `run_scraper_staged` is `Scrape` or `ScraperFails`, then for each
JSON `OpenJson` (its media are moved, the file is truncated) and `FlushJson` (it is
written; two writers of one file may mix); the transactions are `DropRows`, `Register` per
JSON as it is by then, torn or whole, and `CommitTweet`; `FailTweet` is every `?` from the
first asset to the commit, `RowsRefused` a re-archive whose entry went. Captures of the
server are announced by a job, those of the command line are not (`fromCli`). The cleanup is
a request with its own steps: `FirstTweetGuard`, `ReadTweetRows`, `LookUp` per directory
entry (`raw/` first), `SecondTweetGuard`, `RemoveTweetFile` per file, between which captures
begin and end. A JSON that names no media, which is renamed instead of written, is left out;
the rows of `blobs` that a cleanup drops are in `BlobStore`. The focus `tweets` has the
writers without a cleanup, the focus `cleanup` one cleanup against them.

`Staging`: upload directories with their sentinel, chunk by chunk, dropped connections,
captures and removals of staged files, the daily prune (judging and removing apart), the
prune at start; export work directories.

`Tools`: files as inodes under two names (staging, installed), so that a writer goes on
writing to what it opened; the `.version` file; the server's guard of one update, and
the command line that does not ask; the cached choice of a tool and its refresh.

`Fetches`: one fetch of any leg (media, subtitles, audio, page, file, text, the two
probes): directory, files of secrets, the run of a program that may leave anything
behind, the retry without subtitles, what is stored and what is swept.

### CaptureTab, Drafts, Rail, Selection, Gate, Schema, Providers, Titles, Listing (in MCLibrary)

`CaptureTab`: rows in submission, skeletons kept over a reload, a timer per job whose
polls may overlap, batches; answers are lost and late. `Drafts`: a row before it is
submitted: probes after a pause, generated titles, uploads. `Selection`: the list and
what is picked in it; `Rail`: the detail and summary of what is selected. Requests are
records under way that are answered in any order; sequence numbers and abort controllers
are what makes a request no longer `live`.

`Gate`: a request passes the guard of read-only tokens, then the extractor, then its
handler, statement by statement; sign-ins are counted by address in a sliding window.
`Schema`: every opening runs the statements of `initialize_schema` one by one, next to
other openings, a capture's two inserts, and a crash. `Providers`: which provider, model
and key a request uses, as a function of environment and settings, and what the pages
show of it; PATCHes in one immediate transaction. `Titles`: renames, generated titles with
the attempts of the codex program, the rewrite of old titles at start. `Listing`: pages of
jobs and runs, a job's detail in two statements, the tag tree with its counts in several;
beside them the captures that make the rows, statement by statement: `TakeUp`, `StartRun`,
`LinkRun`, `AddItem`, `SettleItem`, `FailRecorded`, and then `perform_capture` returns Ok
(`FinishJob`) or Err (`FailJob`), the latter at any point, also before there is a run and
over an item that is still open; each statement may fail, and `Restart` is a crash with a
recovery of which only the first statements may go through. A re-archive's job, which has no
run, is left out. What a run's own row says is in `CaptureRuns`.

## 3. What the runs check

| run | moves | question | result |
|---|---|---|---|
| `runs` | a playlist and a media capture; a tweet with a text, or with an unsupported source; one fault, two crashes (with the playlist one of either); fair threads. Or two calls of programs, one with a helper | does a completed run or job mean what it says, does every running job end, is `CaptureService` implemented; do kills hit their own, do bounded calls return | holds |
| `runs_recovery` | a tweet and a text, one crash | "marks all interrupted capture jobs" (`core/database.rs:1906`) | violated: a pending job is never recovered |
| `blobs` | a server's capture and a command line's of the same file; a capture and the subtitles of its entry; a tweet and its re-archive; three files of two contents, two rowids, one cleanup, one crash. Or two pages with two fonts; an export of four entries; every thread of four posts; every locator; two rules and two administrators | are only exposed writers harmed; do pages keep their fonts, exports hold what they link to; is what is fetched what was meant, with the right cookies | holds |
| `blobs_window` | two captures, no crash | "to close the TOCTOU window" (`server/routes.rs:3169`) | violated: a capture behind the second guard loses its file |
| `entries` | a playlist capture and a sync; a sync, a tweet, a re-archive and a subtitle fetch; two members. Or four of five tasks on three entries that share a blob | do siblings keep distinct positions, does a sync repeat nothing, does a file reach another entry than its own, does a deletion make a right size wrong | holds |
| `entries_rearchive` | a tweet, a re-archive, a media capture | "re-archives an existing tweet ... in-place" (`core/capture.rs:2408`) | violated: it may replace another entry's artifacts |
| `requests` | two requests at once, three in all, on two rowids and a custom role; two on four tags of depth two; two on two collections, a root entry and its child | does an owner remain, are sessions current; do paths spell the tree; can nobody lock themselves out, is what opens what is listed | holds |
| `requests_moves` | the same, tags only | `move_tag` refuses descendants (`core/database.rs:3239`) | violated by two moves at once, the second of which never ends |
| `summaries` | two requests and an edit by hand, two entries of one rowid, one mishap | is a transcript fetched once and in sight of the cleanup, is a summary of its entry, does what is shown stay, does an attempt end | holds |
| `files` | two tweet tasks on a chain of two, of the server or the command line, with a fault or a crash; the same with one cleanup; two uploads, two uses, an export, a crash; two updates and one of the command line, two releases; four waiters; one fetch of every leg | do tweets, staged files and tools stay whole, do fetches end as asked, is the slot taken in turns | holds |
| `library` | fifteen foci: the tab, drafts (locators; texts and files), the rail, the list, the limit on sign-ins, passwords and sessions, tokens, openings, providers, titles, lists, details, tags | does the screen agree with what is selected and typed; do requests do what they say; is an opened database migrated | holds |
| `library_enroll` | openings and a capture | the "configured default_visibility_bits" are respected (`core/database.rs:2834`) | violated by an opening between two statements of a capture |

The violated ones are the `findings` of `PROJECT.json`; `blobs`, `entries`, `requests` and
`library` show the other side of them: the window, the deletion, the race and the opening
are the only ways to get there.

**Bounds.** `MaxFaults`, `MaxCrashes`, `MaxMishaps` and the like bound the environment, not
the program: each property is disturbed by one failing statement or one crash at a chosen
place, and two crashes let a recovery itself be interrupted. Two members make the playlist
loop meet every pair of outcomes. Two rowids, two writers and three files are what sharing
and reuse of an id need. Four tasks on three entries of one blob let a tree of two go while
a third shares its blob; every blob is counted on its own. In `EntryTree`, `MaxId` is at
least what the tasks of a mix insert. Three requests on accounts are a sign-in between two
changes, or a demotion of each of two owners at once. Two moves are what a cycle needs, and
depth two what a subtree below a moved tag needs. Four posts have chains, forks and circles
with a tail. Four waiters are one that works, one that is about to be woken, one whose
deadline passes and one that comes later. Two polls, two loads, two versions and two
sessions are what overtaking each other needs. `WithinMix`, `TwoUpdates`, `FourTasks`,
`Chain`, `Known`, and the conditions beside a focus in `MCBlobStore` and `MCLibrary` keep
foci apart that would multiply: in `cookies` the rules stop changing once the capture has
copied them, in `sources` they do not change; one entry to export is always in a
collection; the lists of jobs, a job's detail and the tag tree are looked at one by one.

**Symmetry** is declared where the model treats values alike and no liveness is checked:
the names of one content and the rowids of `blobs` (its fonts, pages and administrators'
requests bear the same names), the two media captures of `entries`, the requests of
`requests`, and in `library` the entries, members, addresses and requests.

**Deadlock** checking is off: finitely many requests end, and then the system stops.

**Fairness** is used for liveness only. `TasksRun`: the closure of a capture runs on
tokio's blocking pool. A download has no deadline of its own there (yt-dlp and single-file
are run without one at capture time), so `RunningJobSettles` assumes that the programs
end. `WF(Recover)`: deployments restart a dead server (`restart: unless-stopped` in
`docker-compose.yml`, `Restart = "on-failure"` in `modules/nixos/archivr-server.nix`).
`ProcessesFairness`: the caller of a bounded program runs on and its clock passes the
deadline; nothing is assumed of the program. `SummariesFairness`: background threads run
(providers and engines are killed at deadlines), a dead server is restarted.
`StagingFairness`: the maintenance task runs once a day, time passes, a server that
stopped starts again. Nothing is assumed of crashes, faults, submissions or clients.

### What the properties leave out, because the code does it

The exceptions the properties name are real behaviour, not slack in the model:

- a statement that fails behind `create_archive_run` may leave a run in progress, and an
  item open, behind a failed job until the next restart, and a link that failed leaves a
  failed job without its run (`JobsTellTheTruth` asks for it without faults;
  `EndedJobsAreTold` asks of such jobs, `faulty`, only that what is told of their run is
  complete);
- a re-archive rewrites the JSONs of `raw_tweets/` in place, one by one, before its
  transaction. If it fails in between (a missing asset, a write, the transaction, a crash)
  its entry, and every other that shares the JSONs, is left with JSONs that are torn or that
  name media none of their rows registers, and the next cleanup removes such media. The code
  promises otherwise: "existing files are untouched" (`downloader/tweets.rs:281`), "WITHOUT
  touching the existing data" (`core/capture.rs:2411`), "existing data is untouched"
  (`core/capture.rs:2462`); that is so only if the scraper itself fails, while
  `scraper_failed` is also the answer to a failure among the moves. And a capture or
  re-archive of another entry that goes through leaves the entries that share a JSON with
  one whose media they do not hold; two writers of one JSON may mix; a JSON torn by a crash
  is taken for archived by the next capture of that tweet alone (`archive` only asks whether
  it exists). `TweetsStayWhole` excepts a JSON that was torn when the entry registered it or
  that somebody has opened since (`spoiled`), and says of the others, of the rows and of the
  files they name that no failure and no cleanup takes them;
- as for blobs, a tweet capture that begins behind the second guard of a cleanup, one that
  begins and ends between its guards, or one of the command line, may lose files
  (`escaped`);
- two syncs that look before either inserts make two containers (`SyncAddsNothingTwice`
  speaks of what was there when a sync looked); an entry deleted under a task that holds its
  rowid may leave rows that the foreign keys then keep from being deleted (`lost`);
- a session may be older than a change its invalidation could not reach (`behind`,
  `excused`); a read-only token is let in to write if the session beside it ended between
  the guard and the extractor (`lapsed`); a sign-in a second early is refused once more;
- a page may refer to a font whose write was cut off (`harmed`); a database whose column
  was added by a process that died may keep wrong sizes (`halfDone`);
- answers to two polls of one job, or to a save and a generation, are not ordered
  (`overlapped`, so that a batch may count a row twice, and `crossed`); two loads of the list may arrive out of order (`outrun`);
- of two overlapping updates of a cookie rule the later undoes the earlier (`unseen`); a
  `global` rule created with a pattern never applies, and an update may clear the pattern
  of a rule that needs one;
- `twitter:media:ID` and other ids under `spotify:` are classified as sources but not
  expanded into URLs, and the dialog takes `http://x.com` and a bare `media:` for videos;
- `title_models_json` and `capture_options_handler` leave out the overrides of the
  instance, so that what they show may differ from what is used;
- a reader who types the very bare link an old title had gets it rewritten at the next
  start;
- `admin_remove_role` takes `admin` from an owner, its own caller included, although "owners
  also hold `admin` and `user`" (`docs/superpowers/specs/2026-10-08-mcp-api-extensions.md:13`).

## 4. What is proved

Every safety invariant and every action property that a passing run checks is also a
theorem, and so is the refinement of `CaptureService`. The theorems hold for any sets of
tasks, requests, rows, entries and values, and for any bounds; the only assumptions are the
`...Assumption` of the component's module (disjoint sets, positive bounds, finite sets where
rows are counted, a tree of two levels in `Visibility`), all of which TLC evaluates in the
runs. A component's theorems are about its own specification; those about a composition
(`StoreStaysTyped`, `FilesTyped`, `RequestsTyped`, `LibraryTyped`, `TheScreenAgrees` ...)
follow because each of its steps is a step of one component and a stutter of the others.

A property is seldom inductive. Each proof strengthens it to an invariant that says, for
every place at which a task may stand, what the task may rely on there; TLC checked each
such invariant before it was proved. The induction step has one step per action, and under
it one per conjunct. Where the code loops or recurses, the provers have no induction over
data; the proofs reason instead about what a loop leaves behind (a least closed set, a
maximum, a count) and use least elements of sets of numbers.

**CaptureRunsProofs.** `IInv`: `Rows` says per place of the thread what the rows hold (the
root is saved from `root_marked` on, the counters agree at `close`, a run is over at
`return`); `Jobs` ties the place of the thread, the state of the server and the job row
together. From it: `TypeCorrect`, `CompletedRunsAreClean`, `JobsAreTruthful`, and the
refinement `ImplementsService`: each step is an accept, a change of what is saved, a
settlement, an interruption by the recovery, or a stutter of `CaptureService`. `OwnStep`,
`OthersUnchanged` and `ServerStep` split the induction by who moves; `SameCounts` reduces
facts about counters to the equality of sets. For `Processes`, `ProcessesInv` adds that the
number of a group somebody still holds is held by nobody else (`NumbersAreTheirOwn`), which
gives `KillsHitTheirOwn`.

**BlobStoreProofs.**
- The store: `StoreInv` follows a cleanup through its steps: while it looks, every writer at
  work is blind to it, and every artifact of another writer is among the paths it keeps;
  while it deletes, the same holds of the exposed writers; a writer that is not exposed has
  its file and its row (`StoreTyped`, `OnlyTheExposedLose`, `RowsKeepTheirFiles`).
- Pages: `PagesInv` says that a font half written is being written, or its writer was cut
  off (`harmed`), and that the fonts a page refers to are there while it is captured and
  kept, with their rows from the registration on.
- Exports: `ExportsInv`: what is loaded, or still to be loaded, was asked for or is a member
  of something that was, and what nobody disturbed is on its way until it is in the
  document; so a ZIP is closed under its links and shows what was asked for.
- Threads: `ThreadsInv` says that what the climb visits is in every closed set with the
  root, and of the descent that every reply to a shown post is shown or waiting, none is
  shown twice, and siblings come in order. The sequences are `SortedBy` and `OnlyAt` of
  `Ranking`: `SortedIs` and `OnlyAtIs` prove, for any finite set and strict order, that they
  list each element once and in order.
- Cookies: `SourcesInv` holds that ids of rules are given once and their order is that of
  creation; `LocatorsAreSound` goes through the tables site by site; `JarIs` says that the
  jar of a place is that of the last rule that applies there.
- `MixInv` puts them together: `StoreStaysTyped`, `FetchesAreAsMeant`, `WhatIsShownIsWhole`.

**EntriesProofs.** `TreeInv`: what a task that holds a rowid can rely on unless it is in
`lost`; entries are dated, and a member's parent is older; what was in the archive when a
sync looked only shrinks (`Old`). From it: `SiblingsAreOrdered`, `OnlyTheLostStray`,
`SyncsAreIncremental`. `SizedInv` gives the action property `DeletionsKeepSizes`: the
entries that the cascade finds are all whose sum a deletion changes, and the sum it writes
is the new one. Rowids and positions are maxima of sets and sizes are sums over sets:
`NatMin` and `SetMin` take the place of induction, and `BytesAreCounted` shows that the
fold of the sum is defined and a number. `EntriesTyped` is about the composition.

**FilesProofs.** `SlotInv`, `StagingInv`, `FetchesInv` with `SecretsInv`,
`TweetsInv` and `ToolsInv`, one per component, and `FilesInv`, their conjunction, for the
composition (`FilesTyped`). The slot: busy exactly while someone works, and a free slot is
never slept through (`TranscriptionsTakeTurns`). Staging: what is judged old is not yet used
(`StagedFilesAreSafe`). Fetches: what a directory holds at each step of each leg, and where
secrets may lie (`FetchesEndRight`). Tweets: what a
task has gathered is there and whole but for what was opened meanwhile; a cleanup that walks
spares every entry but those written since it read the rows, one that removes finds every
task under way among the escaped; so a task can only lose a file if it escaped, and hands
that over to its entry when it commits (`TweetsAreKeptWhole`). Tools: one
update at a time is past its lock, the staging file is never the installed one and ends as
the release asked for, and whoever is about to answer a choice knows the newest release
announced (`ToolsStaySound`).

**SummariesProofs.** `SummariesInv`: what the row of an attempt is at each place of its
thread (none once its entry was deleted, since rows go with it), that the one that
transcribes has the slot and nobody transcribed since it looked, and that no two completions
share a time. From it: `SummariesTyped`, `FetchesAreSeen`, `SummariesAreOfTheirEntry`, and
the action property `ShownSummariesStay`.

**RequestsProofs.** `VisInv`: as long as nobody wrote since (`moved`), what a request has
read is so; every mask was granted for roles whose bits are recorded; what a new role avoids
covers every mask stored. From it: `NobodyIsLockedOut`, `OpeningAgreesWithLists` and the
action property `MasksAreAsAsked`. Tags: `TagInv` says that uids are never reused while
rowids are, that parents live, that what each request found is a row as it is or once was,
that no tag is its own ancestor, and that every stored path is that of the parent and the
name. What the recursive queries of the code return is a least closed set, so that
`MoveMakesNoCycle` and `RewrittenPathsAgree` need no induction: a set that is closed, and
small enough to refute the claim, is named instead. From it: the action property
`TagsMeanWhatTheySay`. `RequestsTyped` joins both with the invariant of `Accounts`.

**AccountsProofs.** The keys alone are not inductive: a uid is new because all uids are
below the counter (`Numbered`), and what a request relies on has to be carried along
(`Sane`): the guard looks at a rowid read before the lock and the status is set by uid.
`OwnerRemains`; `SessionsHold` by `SInv`, inductive relative to `IInv`: where a user loses a
role outside a transaction, the request stands before its `Invalidate`; `TypesHold`.

**LibraryProofs.** An invariant per component (`SchemaInv`, `TabInv`, `RailInv`,
`SelectionInv`, `DraftsInv`, `ProvidersInv`, `TitlesInv`, `GateInv`, `ListingInv`), and
`LibraryInv`, their conjunction, for the composition.
- Openings: what each of the statements behind an opening has made sure of, for the one
  that runs it and for all that overtake it, and that the ranks of children are the order of
  the migration (`OpeningsAreSound`).
- The interface: a request in flight is live only for the selection it was sent for, a
  skeleton has its poll, a list under way is of the query it was asked for, a file is with
  one row or one job (`RailIsOfTheSelection`, `TabsKeepTrack`, `SelectionIsShown`,
  `SubmissionsFit`; `TheScreenAgrees` of the composition).
- The gate: `LimitInv` says that the attempts kept are the last sign-ins let in, in order,
  and that `MaxAttempts` apart they are a window apart; so a refusal's promise comes from
  the oldest kept. `SecretsInv`: a token a request came with is never made again once it is
  gone, so that what the guard refused is still refused when the extractor looks; a changed
  password leaves behind only sessions that its own call is about to end
  (`GateLetsInTheRight`).
- The lists: what was there when a page was asked for and is not yet in the answer ranks at
  or behind the offset, counted by `Rank`: a page that is not full ends behind the last row
  (`FullPages`). Of a job whose task met no failing statement the row is linked before there
  is an item and its items are settled before it ends, or before its root is failed
  (`RowSound`), which a recovery keeps because it stops the items first. What a reader of the tag tree is told is at most what they could see
  meanwhile, because descendants are a least closed set and counts are monotonic
  (`ListsAreTrue`).
- Titles and providers: rowids are handed out again, but not while they are used: a row
  listed for the rewrite is still that entry's, and a request has read its own entry unless
  that is gone for good; a PATCH under way holds the settings
  (`TitlesStayWithTheirEntries`, `ProvidersAreAsTold`; `RequestsDoWhatTheySay` and
  `LibraryTyped` of the composition).

**Only model-checked.** Liveness (`RunningJobSettles`, `BoundedCallsReturn`,
`AttemptSettles`, `StagedDirsGo`): a proof from fairness needs ENABLED, which the prover has
not. The properties of the runs that expect a violation are false of the code.

**What proving showed.** Some definitions said less than they seemed to, which TLC's order of
evaluation had hidden: a `CASE` whose arms overlap means any of them (the body of an
exported entry, the expansion of a locator, what follows the insert of a role, the size an
opening finds), and each is now an `IF`.

## 5. What could follow

1. `EntryTree` has the reuse of rowids and `BlobStore` the cleanup, each without what the
   other has; a composition in which a rowid is handed out again while a cleanup runs would
   join them.
2. Several archives behind one server: they share the auth database and the slot for
   transcriptions; here every module has one archive.
3. The deletion of collections and the remaining filters and orders of lists.

## 6. Not modelled

The registry of archives and the other views of the web interface (single writes, forms),
the rendering of exports (wording and layout), the filters and orders of lists other than
those of `Listing` (pure reads), prompts and the extraction of text, the syntax of cookie
files and metadata, password hashing, what external programs and sites do beyond what their
callers see, packaging, vendored code.
