---------------------------- MODULE TweetArchive ----------------------------
(***************************************************************************)
(* Tweets are stored as one JSON file each in raw_tweets/, shared by every *)
(* entry that holds the tweet, which refers to media files in raw/.  A     *)
(* capture of a tweet or of a thread runs a scraper into a directory of    *)
(* its own, moves the media and the JSONs over one by one, and registers   *)
(* what it finds in the JSONs in one transaction; a re-archive swaps the   *)
(* rows of an existing entry.  Tweet n answers tweet n - 1.                *)
(*                                                                         *)
(* A JSON is known by the media file it refers to; a re-scraped one may    *)
(* refer to another (an avatar that changed).  Captures of the server are  *)
(* announced by a job while they last, those of the command line are not.  *)
(* The rows that announce them are in CaptureRuns, blob rows in BlobStore. *)
(***************************************************************************)
EXTENDS Integers, FiniteSets

CONSTANTS
    TweetTask,     \* captures and re-archives
    Sweeper,       \* requests to clean up
    TweetMedia,    \* paths under raw/
    MaxTweet,      \* bound: length of the reply chain
    MaxTweetFaults \* bound: failures from the scraper's success to the commit, crashes

Tweet == 1..MaxTweet
TweetFile == Tweet \cup TweetMedia
Absent == "absent"
Torn == "torn"
JsonState == TweetMedia \cup {Absent, Torn}
TweetPlace == {"idle", "scrape", "write", "flush", "drop", "read", "commit", "end"}
SweepPlace == {"idle", "rows", "walk", "unlink"}

ASSUME TweetAssumption ==
    /\ MaxTweet \in Nat \ {0} /\ MaxTweetFaults \in Nat
    /\ {Absent, Torn} \cap TweetMedia = {} /\ Tweet \cap TweetMedia = {}

VARIABLES
    json,      \* [Tweet -> JsonState]: the files of raw_tweets/
    rawFiles,  \* SUBSET TweetMedia: the files under raw/ that tweets refer to
    kept,      \* SUBSET TweetTask: the entries, named by the captures that made them
    holds,     \* [TweetTask -> SUBSET TweetFile]: artifact rows of entries
    tweetOf,   \* [TweetTask -> [root, thread]]: what a task captures
    tweetOn,   \* [TweetTask -> TweetTask]: the entry it writes
    tweetAt,   \* [TweetTask -> TweetPlace]
    fromCli,   \* SUBSET TweetTask: tasks of the command line
    staged,    \* [TweetTask -> TweetMedia \cup {Absent}]: what its scraper left
    toMove,    \* [TweetTask -> SUBSET Tweet]: staged JSONs to move
    nameless,  \* SUBSET TweetTask: those that write to a file removed under them
    toRead,    \* [TweetTask -> SUBSET Tweet]: JSONs to register
    gathered,  \* [TweetTask -> SUBSET TweetFile]: rows of its transaction
    sweepAt,   \* [Sweeper -> SweepPlace]
    unseen,    \* [Sweeper -> SUBSET TweetFile]: unreferenced names its walk has to look up
    doomed,    \* [Sweeper -> SUBSET TweetFile]: files it will remove
    since,     \* ghost [Sweeper -> SUBSET TweetTask]: entries written since it read the rows
    spoiled,   \* ghost [TweetTask -> SUBSET Tweet]: JSONs that were torn when the entry or the
               \* task under way registered them, or that another has opened or written since
    escaped,   \* ghost SUBSET TweetTask: tasks under way that both guards of a cleanup missed,
               \* and entries that such a task wrote
    tweetFaults

tweetFiles == <<json, rawFiles>>
tweetRows == <<kept, holds>>
tweetMoves == <<staged, toMove, nameless>>
tweetReads == <<toRead, gathered>>
tweetLocal == <<tweetOf, tweetOn, tweetAt, fromCli, tweetMoves, tweetReads>>
sweepVars == <<sweepAt, unseen, doomed, since>>
tweetVars == <<tweetFiles, tweetRows, tweetLocal, sweepVars, spoiled, escaped, tweetFaults>>

TweetArchiveInit ==
    /\ json = [t \in Tweet |-> Absent] /\ rawFiles = {}
    /\ kept = {} /\ holds = [k \in TweetTask |-> {}]
    /\ tweetOf = [k \in TweetTask |-> [root |-> 1, thread |-> FALSE]]
    /\ tweetOn = [k \in TweetTask |-> k]
    /\ tweetAt = [k \in TweetTask |-> "idle"] /\ fromCli = {}
    /\ staged = [k \in TweetTask |-> Absent] /\ nameless = {}
    /\ toMove = [k \in TweetTask |-> {}] /\ toRead = [k \in TweetTask |-> {}]
    /\ gathered = [k \in TweetTask |-> {}] /\ spoiled = [k \in TweetTask |-> {}]
    /\ sweepAt = [s \in Sweeper |-> "idle"] /\ since = [s \in Sweeper |-> {}]
    /\ unseen = [s \in Sweeper |-> {}] /\ doomed = [s \in Sweeper |-> {}]
    /\ escaped = {} /\ tweetFaults = 0

TweetGo(k, p) == tweetAt' = [tweetAt EXCEPT ![k] = p]
TweetFails == tweetFaults < MaxTweetFaults /\ tweetFaults' = tweetFaults + 1
Root(k) == tweetOf[k].root
Touched(k) == IF tweetOf[k].thread THEN 1..Root(k) ELSE {Root(k)}
Working == {k \in TweetTask : tweetAt[k] \notin {"idle", "end"}}

(* A task begins, and a cleanup behind its second guard misses it.           *)
NoteEscape(k) ==
    escaped' = IF \E s \in Sweeper : sweepAt[s] = "unlink" THEN escaped \cup {k} ELSE escaped
(* Somebody opens or writes the JSON of tweet t. *)
Spoil(t) ==
    spoiled' = [j \in TweetTask |->
                 IF t \in gathered[j] \cup holds[j] THEN spoiled[j] \cup {t} ELSE spoiled[j]]

(* The tasks in K end, without a transaction that went through.              *)
Leave(K) ==
    /\ tweetAt' = [k \in TweetTask |-> IF k \in K THEN "end" ELSE tweetAt[k]]
    /\ staged' = [k \in TweetTask |-> IF k \in K THEN Absent ELSE staged[k]]
    /\ toMove' = [k \in TweetTask |-> IF k \in K THEN {} ELSE toMove[k]]
    /\ toRead' = [k \in TweetTask |-> IF k \in K THEN {} ELSE toRead[k]]
    /\ gathered' = [k \in TweetTask |-> IF k \in K THEN {} ELSE gathered[k]]
    /\ nameless' = nameless \ K /\ fromCli' = fromCli \ K
Abandon(K) ==
    /\ Leave(K) /\ escaped' = escaped \ K
    /\ spoiled' = [k \in TweetTask |-> IF k \in K THEN {} ELSE spoiled[k]]

----------------------------------------------------------------------------
(* archive: a single tweet that has a file is not scraped again.             *)
BeginTweetCapture(k) ==
    /\ tweetAt[k] = "idle" /\ NoteEscape(k)
    /\ fromCli' \in {fromCli, fromCli \cup {k}}
    /\ \E root \in Tweet, thread \in BOOLEAN :
        /\ tweetOf' = [tweetOf EXCEPT ![k] = [root |-> root, thread |-> thread]]
        /\ IF ~thread /\ json[root] # Absent
           THEN TweetGo(k, "read") /\ toRead' = [toRead EXCEPT ![k] = {root}]
           ELSE TweetGo(k, "scrape") /\ UNCHANGED toRead
    /\ UNCHANGED <<tweetFiles, tweetRows, tweetOn, tweetMoves, gathered, sweepVars, spoiled, tweetFaults>>

(* perform_rearchive: what the entry's source metadata says. *)
BeginRearchive(k) ==
    /\ tweetAt[k] = "idle" /\ NoteEscape(k)
    /\ \E e \in kept :
        /\ tweetOn' = [tweetOn EXCEPT ![k] = e]
        /\ tweetOf' = [tweetOf EXCEPT ![k] = tweetOf[e]]
    /\ TweetGo(k, "scrape")
    /\ UNCHANGED <<tweetFiles, tweetRows, fromCli, tweetMoves, tweetReads, sweepVars, spoiled, tweetFaults>>

HasRoot(k, S) == Root(k) \in S

(* The scraper leaves some of the tweets above the one asked for and that    *)
(* one; it fails, or has not written that one after all.                     *)
Scrape(k) ==
    /\ tweetAt[k] = "scrape"
    /\ \E S \in SUBSET Touched(k), m \in TweetMedia :
        /\ HasRoot(k, S)
        /\ staged' = [staged EXCEPT ![k] = m]
        /\ toMove' = [toMove EXCEPT ![k] = S]
        /\ toRead' = [toRead EXCEPT ![k] = S]
    /\ TweetGo(k, "write")
    /\ UNCHANGED <<tweetFiles, tweetRows, tweetOf, tweetOn, fromCli, nameless, gathered, sweepVars,
                   spoiled, escaped, tweetFaults>>
ScraperFails(k) ==
    /\ tweetAt[k] = "scrape" /\ Abandon({k})
    /\ UNCHANGED <<tweetFiles, tweetRows, tweetOf, tweetOn, sweepVars, tweetFaults>>

Next1(S) == CHOOSE t \in S : \A u \in S : t <= u

(* The media are moved with the first JSON that refers to them. *)
MediaMoved(k) == IF toMove[k] = toRead[k] THEN rawFiles \cup {staged[k]} ELSE rawFiles

(* The JSONs go in the order of their names; each is truncated, and written. *)
(* (One that refers to no media is renamed over the old one: not modelled.)  *)
OpenJson(k) ==
    /\ tweetAt[k] = "write" /\ TweetGo(k, "flush")
    /\ rawFiles' = MediaMoved(k)
    /\ json' = [json EXCEPT ![Next1(toMove[k])] = Torn] /\ Spoil(Next1(toMove[k]))
    /\ UNCHANGED <<tweetRows, tweetOf, tweetOn, fromCli, tweetMoves, tweetReads, sweepVars, escaped,
                   tweetFaults>>

(* Whoever else wrote into the file since it was truncated may have written  *)
(* more.                                                                     *)
JsonAfter(k, t) == {staged[k]} \cup (IF json[t] = Torn THEN {} ELSE {Torn})

(* A file that was removed in between is written to in vain. *)
FlushJson(k) ==
    /\ tweetAt[k] = "flush"
    /\ LET t == Next1(toMove[k])
       IN  /\ \/ k \in nameless /\ UNCHANGED <<json, spoiled>>
              \/ /\ k \notin nameless /\ Spoil(t)
                 /\ \E j \in JsonAfter(k, t) : json' = [json EXCEPT ![t] = j]
           /\ toMove' = [toMove EXCEPT ![k] = @ \ {t}]
           /\ TweetGo(k, IF toMove[k] # {t} THEN "write"
                         ELSE IF tweetOn[k] = k THEN "read" ELSE "drop")
    /\ nameless' = nameless \ {k}
    /\ UNCHANGED <<rawFiles, tweetRows, tweetOf, tweetOn, fromCli, staged, tweetReads, sweepVars, escaped,
                   tweetFaults>>

(* An asset is missing, a write or a statement fails: everything behind a    *)
(* `?` from the first asset to the commit.                                   *)
FailTweet(k) ==
    /\ tweetAt[k] \in {"write", "flush", "drop", "read", "commit"}
    /\ TweetFails /\ Abandon({k})
    /\ rawFiles' \in {rawFiles} \cup (IF tweetAt[k] = "write" THEN {MediaMoved(k)} ELSE {})
    /\ UNCHANGED <<json, tweetRows, tweetOf, tweetOn, sweepVars>>

----------------------------------------------------------------------------
(* Slip: the old rows go in a statement of their own. *)
DroppedNow(k) == [holds EXCEPT ![tweetOn[k]] = {}]
DroppedAtCommit(k) == holds

(* delete_entry_artifacts, inside the transaction. *)
DropRows(k) ==
    /\ tweetAt[k] = "drop" /\ TweetGo(k, "read")
    /\ holds' = DroppedAtCommit(k)
    /\ UNCHANGED <<tweetFiles, kept, tweetOf, tweetOn, fromCli, tweetMoves, tweetReads, sweepVars,
                   spoiled, escaped, tweetFaults>>

(* What may be found in a JSON: a torn one names what was left of it.        *)
(* Slip: what the task itself has scraped.                                   *)
StagedMedia(k, t) == {{staged[k]} \cap TweetMedia}
MediaNamed(k, t) == IF json[t] \in TweetMedia THEN {{json[t]}} ELSE SUBSET TweetMedia

(* A capture has read the JSON of the tweet asked for before it registers.   *)
NextRead(k) == IF tweetOn[k] = k /\ Root(k) \in toRead[k] THEN Root(k) ELSE Next1(toRead[k])

(* register_tweet_artifacts reads each JSON as it is by now, whole or not;   *)
(* it and the files of its blobs must exist.                                 *)
Register(k) ==
    /\ tweetAt[k] = "read"
    /\ LET t == NextRead(k)
       IN  \E M \in MediaNamed(k, t) :
            IF json[t] # Absent /\ M \subseteq rawFiles
            THEN /\ gathered' = [gathered EXCEPT ![k] = @ \cup {t} \cup M]
                 /\ spoiled' = [spoiled EXCEPT ![k] = IF json[t] = Torn THEN @ \cup {t} ELSE @]
                 /\ toRead' = [toRead EXCEPT ![k] = @ \ {t}]
                 /\ TweetGo(k, IF toRead[k] = {t} THEN "commit" ELSE "read")
                 /\ UNCHANGED <<fromCli, tweetMoves, escaped>>
            ELSE Abandon({k})
    /\ UNCHANGED <<tweetFiles, tweetRows, tweetOf, tweetOn, sweepVars, tweetFaults>>

(* The ghosts of the task become the entry's. *)
HandOver(k, e) ==
    /\ spoiled' = [j \in TweetTask |-> IF j = e THEN spoiled[k] ELSE IF j = k THEN {} ELSE spoiled[j]]
    /\ escaped' = (escaped \ {k, e}) \cup (IF k \in escaped THEN {e} ELSE {})
    /\ since' = [s \in Sweeper |-> IF sweepAt[s] = "walk" THEN since[s] \cup {e} ELSE since[s]]

CommitTweet(k) ==
    /\ tweetAt[k] = "commit" /\ Leave({k})
    /\ tweetOn[k] = k \/ tweetOn[k] \in kept
    /\ kept' = kept \cup {tweetOn[k]}
    /\ holds' = [holds EXCEPT ![tweetOn[k]] = gathered[k]]
    /\ HandOver(k, tweetOn[k])
    /\ UNCHANGED <<tweetFiles, tweetOf, tweetOn, sweepAt, unseen, doomed, tweetFaults>>

(* The entry of a re-archive is gone: its rows are refused. *)
RowsRefused(k) ==
    /\ tweetAt[k] \in {"read", "commit"} /\ tweetOn[k] # k /\ tweetOn[k] \notin kept
    /\ Abandon({k})
    /\ UNCHANGED <<tweetFiles, tweetRows, tweetOf, tweetOn, sweepVars, tweetFaults>>

DeleteTweetEntry(e) ==
    /\ e \in kept /\ kept' = kept \ {e} /\ holds' = [holds EXCEPT ![e] = {}]
    /\ spoiled' = [spoiled EXCEPT ![e] = {}] /\ escaped' = escaped \ {e}
    /\ UNCHANGED <<tweetFiles, tweetLocal, sweepVars, tweetFaults>>

----------------------------------------------------------------------------
(* blob_cleanup_delete_handler. *)

(* has_active_capture_jobs.  Slip: a job whose scraper still runs is passed  *)
(* over.                                                                     *)
QuietButScrapers == \A k \in Working \ fromCli : tweetAt[k] = "scrape"
Quiet == Working \subseteq fromCli

FirstTweetGuard(s) ==
    /\ sweepAt[s] = "idle" /\ Quiet
    /\ sweepAt' = [sweepAt EXCEPT ![s] = "rows"]
    /\ UNCHANGED <<tweetFiles, tweetRows, tweetLocal, unseen, doomed, since, spoiled, escaped, tweetFaults>>

(* all_referenced_file_relpaths; the path of a blob row is its artifacts'.   *)
ReadTweetRows(s) ==
    /\ sweepAt[s] = "rows" /\ sweepAt' = [sweepAt EXCEPT ![s] = "walk"]
    /\ unseen' = [unseen EXCEPT ![s] = TweetFile \ UNION {holds[e] : e \in kept}]
    /\ UNCHANGED <<tweetFiles, tweetRows, tweetLocal, doomed, since, spoiled, escaped, tweetFaults>>

TweetFilesThere == {t \in Tweet : json[t] # Absent} \cup rawFiles

(* collect_orphaned_disk_files: raw/ first, one directory entry at a time.   *)
LookUp(s, f) ==
    /\ sweepAt[s] = "walk" /\ f \in unseen[s] /\ (f \in Tweet => unseen[s] \subseteq Tweet)
    /\ unseen' = [unseen EXCEPT ![s] = @ \ {f}]
    /\ doomed' = [doomed EXCEPT ![s] = @ \cup ({f} \cap TweetFilesThere)]
    /\ UNCHANGED <<tweetFiles, tweetRows, tweetLocal, sweepAt, since, spoiled, escaped, tweetFaults>>

(* A capture that began since ends the request; one that began and ended     *)
(* since, or that no job announces, goes unnoticed.                          *)
SecondTweetGuard(s) ==
    /\ sweepAt[s] = "walk" /\ unseen[s] = {}
    /\ sweepAt' = [sweepAt EXCEPT ![s] = IF Quiet /\ doomed[s] # {} THEN "unlink" ELSE "idle"]
    /\ doomed' = [doomed EXCEPT ![s] = IF Quiet THEN @ ELSE {}]
    /\ escaped' = IF Quiet /\ doomed[s] # {}
                  THEN escaped \cup (since[s] \cap kept) \cup (Working \cap fromCli) ELSE escaped
    /\ since' = [since EXCEPT ![s] = {}]
    /\ UNCHANGED <<tweetFiles, tweetRows, tweetLocal, unseen, spoiled, tweetFaults>>

RemoveTweetFile(s, f) ==
    /\ sweepAt[s] = "unlink" /\ f \in doomed[s]
    /\ json' = [t \in Tweet |-> IF t = f THEN Absent ELSE json[t]] /\ rawFiles' = rawFiles \ {f}
    /\ nameless' = nameless \cup {k \in TweetTask : tweetAt[k] = "flush" /\ Next1(toMove[k]) = f}
    /\ doomed' = [doomed EXCEPT ![s] = @ \ {f}]
    /\ sweepAt' = [sweepAt EXCEPT ![s] = IF doomed[s] = {f} THEN "idle" ELSE "unlink"]
    /\ UNCHANGED <<tweetRows, tweetOf, tweetOn, tweetAt, fromCli, staged, toMove, tweetReads, unseen,
                   since, spoiled, escaped, tweetFaults>>

----------------------------------------------------------------------------
(* The server dies with its tasks and cleanups, or one run of the command    *)
(* line is killed.                                                           *)
CrashTweets ==
    /\ TweetFails /\ Abandon(Working \ fromCli)
    /\ sweepAt' = [s \in Sweeper |-> "idle"] /\ since' = [s \in Sweeper |-> {}]
    /\ unseen' = [s \in Sweeper |-> {}] /\ doomed' = [s \in Sweeper |-> {}]
    /\ UNCHANGED <<tweetFiles, tweetRows, tweetOf, tweetOn>>
KillTweetTask(k) ==
    /\ k \in Working \cap fromCli /\ TweetFails /\ Abandon({k})
    /\ UNCHANGED <<tweetFiles, tweetRows, tweetOf, tweetOn, sweepVars>>

SweepStep(s) ==
    \/ FirstTweetGuard(s) \/ ReadTweetRows(s) \/ SecondTweetGuard(s)
    \/ \E f \in TweetFile : LookUp(s, f) \/ RemoveTweetFile(s, f)
TweetArchiveNext ==
    \/ \E k \in TweetTask :
        \/ BeginTweetCapture(k) \/ BeginRearchive(k) \/ Scrape(k) \/ ScraperFails(k)
        \/ OpenJson(k) \/ FlushJson(k) \/ FailTweet(k) \/ KillTweetTask(k)
        \/ DropRows(k) \/ Register(k) \/ CommitTweet(k) \/ RowsRefused(k) \/ DeleteTweetEntry(k)
    \/ \E s \in Sweeper : SweepStep(s)
    \/ CrashTweets
TweetArchiveSpec == TweetArchiveInit /\ [][TweetArchiveNext]_tweetVars

----------------------------------------------------------------------------
(* Properties. *)

(* Every variable keeps its type. *)
TweetArchiveTypeOK ==
    /\ json \in [Tweet -> JsonState] /\ rawFiles \subseteq TweetMedia
    /\ kept \subseteq TweetTask /\ escaped \subseteq TweetTask
    /\ \A k \in TweetTask : holds[k] \subseteq TweetFile
    /\ tweetAt \in [TweetTask -> TweetPlace] /\ sweepAt \in [Sweeper -> SweepPlace]
    /\ \A k \in TweetTask : tweetAt[k] \in {"write", "flush"} => toMove[k] # {}
    /\ \A s \in Sweeper : sweepAt[s] = "unlink" => doomed[s] # {}

(* What an entry has registered stays: whatever re-archive of it fails half  *)
(* way and whoever rewrites or tears a JSON that it shares, its rows are     *)
(* those of a task that went through, the tweet it was made from among them, *)
(* and each names a file that is there, unless that task escaped both guards *)
(* of a cleanup (perform_rearchive, blob_cleanup_delete_handler).            *)
RegisteredFilesStay ==
    \A e \in kept :
        /\ Root(e) \in holds[e]
        /\ e \notin escaped => holds[e] \subseteq TweetFilesThere

(* And its JSONs are whole and name nothing but media of its own rows, hence *)
(* media that are there, until somebody opens one for writing: no entry is   *)
(* hurt by a capture or a re-archive that failed before it opened a file the *)
(* entry holds, and a re-archive that goes through mends what others did     *)
(* before.  It is not so for a JSON that was torn when it was registered, or *)
(* that another task has opened since, which a failed re-archive may have    *)
(* done, to other entries' and to its own (run_scraper_staged).              *)
UntouchedJsonsAreWhole ==
    \A e \in kept : \A t \in (holds[e] \cap Tweet) \ spoiled[e] :
        json[t] \in (holds[e] \cap TweetMedia) \cup {Absent}

(* Both: of what a re-archive of a shared tweet may do to other entries and, *)
(* if it fails, to its own, nothing more than the rewriting itself happens,  *)
(* and no cleanup makes it worse (run_scraper_staged).                       *)
TweetsStayWhole == RegisteredFilesStay /\ UntouchedJsonsAreWhole
=============================================================================
