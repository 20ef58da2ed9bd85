------------------------------- MODULE Fetches -------------------------------
(***************************************************************************)
(* Fetching what a capture, a summary or a probe wants: yt-dlp for media,  *)
(* subtitles, audio and metadata, single-file for pages, HTTP for files,   *)
(* cp for local files, a write for pasted text.  A fetch stages its files  *)
(* in a directory of its own under store/temp, the metadata probes their   *)
(* cookies in a file of the system's temp directory; what was staged is    *)
(* moved into raw/ and the rest is swept away, or left.                    *)
(*                                                                         *)
(* The programs that are run may leave anything behind, ending well or not.*)
(***************************************************************************)
EXTENDS Naturals

CONSTANTS
    Fetch,          \* fetches, each with a directory of its own
    MaxFetchFaults  \* bound: failing writes and moves, and crashes

ASSUME FetchesAssumption == MaxFetchFaults \in Nat

VARIABLES
    legOf,      \* [Fetch -> Leg]
    fetchAt,    \* [Fetch -> FetchPlace]
    temp,       \* [Fetch -> SUBSET Staged]: the files of its directory
    secret,     \* [Fetch -> SUBSET Secret]: its files with cookies and storage
    asked,      \* [Fetch -> BOOLEAN]: subtitles are asked for
    exit,       \* [Fetch -> Exit]: how the last program ended
    stored,     \* [Fetch -> SUBSET Staged]: what went into raw/
    result,     \* [Fetch -> Result]
    gets,       \* [Fetch -> Nat]: GET requests of its own
    fetchFaults

fetchVars == <<legOf, fetchAt, temp, secret, asked, exit, stored, result, gets, fetchFaults>>

Ytdlp == {"media", "subtitles", "audio"}
Lists == {"playlist", "qualities"}
Probes == {"metadata"} \cup Lists
Leg == Ytdlp \cup Probes \cup {"url", "page", "file", "local", "text"}
Staged == {"dir", "media", "subs", "profile"}
Secret == {"cookies", "storage"}
Exit == {"none", "ok", "bad", "badsubs"}
Result == {"none", "kept", "nothing", "failed"}
FetchPlace == {"idle", "probe", "secrets", "run", "again", "clean", "judge", "keep", "sweep", "end", "cut"}

FetchesInit ==
    /\ legOf \in [Fetch -> Ytdlp \cup Probes \cup {"url", "local", "text"}]
    /\ fetchAt = [f \in Fetch |-> "idle"]
    /\ temp = [f \in Fetch |-> {}] /\ secret = [f \in Fetch |-> {}]
    /\ asked \in [Fetch -> BOOLEAN] /\ \A f \in Fetch : legOf[f] # "media" => ~asked[f]
    /\ exit = [f \in Fetch |-> "none"] /\ stored = [f \in Fetch |-> {}]
    /\ result = [f \in Fetch |-> "none"] /\ gets = [f \in Fetch |-> 0]
    /\ fetchFaults = 0

FetchMoves(f, s, t) == fetchAt[f] = s /\ fetchAt' = [fetchAt EXCEPT ![f] = t]
Faulty == fetchFaults < MaxFetchFaults /\ fetchFaults' = fetchFaults + 1
Ends(f, r) == result' = [result EXCEPT ![f] = r]
Adds(f, S) == temp' = [temp EXCEPT ![f] = @ \cup S]

----------------------------------------------------------------------------
(* perform_capture asks a URL of no known kind what it is.  A HEAD answered  *)
(* with a type is enough; one that is refused or has no type is followed by  *)
(* a GET, whose body is kept if it is a file; any error means a page.        *)
ProbeUrl(f) ==
    /\ legOf[f] = "url" /\ FetchMoves(f, "idle", "probe")
    /\ \E leg \in {"page", "file"}, n \in {0, 1} :
        legOf' = [legOf EXCEPT ![f] = leg] /\ gets' = [gets EXCEPT ![f] = n]
    /\ UNCHANGED <<temp, secret, asked, exit, stored, result, fetchFaults>>

(* A slip: the body of the probe is thrown away. *)
AlwaysDownloads(f) == 1
GetsToDownload(f) == IF gets[f] = 0 THEN 1 ELSE 0

(* The answer may have a bad status or be a page after all.  The directory   *)
(* is made once the header is read; the body may then break off, or its      *)
(* write.                                                                    *)
DownloadFile(f) ==
    /\ legOf[f] = "file" /\ gets' = [gets EXCEPT ![f] = @ + GetsToDownload(f)]
    /\ \/ FetchMoves(f, "probe", "sweep") /\ Ends(f, "failed") /\ UNCHANGED <<temp, fetchFaults>>
       \/ FetchMoves(f, "probe", "keep") /\ Adds(f, {"dir", "media"}) /\ UNCHANGED <<result, fetchFaults>>
       \/ FetchMoves(f, "probe", "sweep") /\ Adds(f, {"dir"}) /\ Ends(f, "failed") /\ Faulty
    /\ UNCHANGED <<legOf, secret, asked, exit, stored>>

(* cp and text::save. *)
CopyOrWrite(f) ==
    /\ legOf[f] \in {"local", "text"}
    /\ \/ FetchMoves(f, "idle", "keep") /\ Adds(f, {"dir", "media"}) /\ UNCHANGED <<result, fetchFaults>>
       \/ /\ FetchMoves(f, "idle", "sweep") /\ Faulty /\ Ends(f, "failed")
          /\ Adds(f, {"dir"}) \/ UNCHANGED temp
    /\ UNCHANGED <<legOf, secret, asked, exit, stored, gets>>

----------------------------------------------------------------------------
(* A program is run: its directory first, and for a page its scripts. *)
MakeDir(f) ==
    /\ \/ legOf[f] \in Ytdlp /\ fetchAt[f] = "idle"
       \/ legOf[f] = "page" /\ fetchAt[f] = "probe"
    /\ \/ Adds(f, {"dir"}) /\ UNCHANGED <<result, fetchFaults>>
          /\ fetchAt' = [fetchAt EXCEPT ![f] = "secrets"]
       \/ /\ Faulty /\ Ends(f, "failed") /\ (Adds(f, {"dir"}) \/ UNCHANGED temp)
          /\ fetchAt' = [fetchAt EXCEPT ![f] = "sweep"]
    /\ UNCHANGED <<legOf, secret, asked, exit, stored, gets>>
BeginProbe(f) ==
    /\ legOf[f] \in Probes /\ FetchMoves(f, "idle", "secrets")
    /\ UNCHANGED <<legOf, temp, secret, asked, exit, stored, result, gets, fetchFaults>>

(* The files with secrets are written if there are any.  A write that fails  *)
(* leaves what it wrote: save_with cleans up after itself, the other callers *)
(* return.                                                                   *)
SecretsOf(f) == IF legOf[f] = "page" THEN Secret ELSE {"cookies"}
AfterTornSecret(f) == IF legOf[f] = "page" THEN "clean" ELSE "sweep"
WriteSecrets(f) ==
    /\ \E S \in SUBSET SecretsOf(f) :
        /\ secret' = [secret EXCEPT ![f] = S]
        /\ \/ FetchMoves(f, "secrets", "run") /\ UNCHANGED <<result, fetchFaults>>
           \/ /\ S # {} /\ FetchMoves(f, "secrets", AfterTornSecret(f))
              /\ Faulty /\ Ends(f, "failed")
    /\ UNCHANGED <<legOf, temp, asked, exit, stored, gets>>

(* What it may write: subtitles only if asked to, a browser profile. *)
Outputs(f, again) ==
    {s \in Staged :
        \/ s = "media" /\ legOf[f] \in {"media", "audio", "page"}
        \/ s = "subs" /\ (legOf[f] = "subtitles" \/ (legOf[f] = "media" /\ asked[f] /\ ~again))
        \/ s = "profile" /\ legOf[f] = "page"}

(* Once more without subtitles, if they are what failed. *)
RetryMediaOnly(f, x, S) == asked[f] /\ x = "badsubs" /\ "media" \notin S

(* The program ends, or cannot be run; a message about subtitles matters     *)
(* only to a run that asked for them.                                        *)
RunProgram(f) ==
    /\ \E x \in Exit \ {"none"}, S \in SUBSET Outputs(f, FALSE) :
        /\ x = "badsubs" => asked[f]
        /\ exit' = [exit EXCEPT ![f] = x] /\ Adds(f, S)
        /\ FetchMoves(f, "run", IF RetryMediaOnly(f, x, S) THEN "again" ELSE "clean")
    /\ UNCHANGED <<legOf, secret, asked, stored, result, gets, fetchFaults>>
RunAgain(f) ==
    /\ \E x \in {"ok", "bad"}, S \in SUBSET Outputs(f, TRUE) :
        exit' = [exit EXCEPT ![f] = x] /\ Adds(f, S)
    /\ FetchMoves(f, "again", "clean")
    /\ UNCHANGED <<legOf, secret, asked, stored, result, gets, fetchFaults>>

(* A slip: the files are removed once the program has done well. *)
CleansAfterSuccess(f) == IF exit[f] = "ok" THEN {} ELSE secret[f]
SecretsLeft(f) == {}
RemoveSecrets(f) ==
    /\ FetchMoves(f, "clean", IF result[f] = "none" THEN "judge" ELSE "sweep")
    /\ secret' = [secret EXCEPT ![f] = SecretsLeft(f)]
    /\ UNCHANGED <<legOf, temp, asked, exit, stored, result, gets, fetchFaults>>

(* download_subtitles takes what was written, however the run ended. *)
HasOutput(f) ==
    IF legOf[f] = "subtitles" THEN "subs" \in temp[f] \/ exit[f] = "ok"
                              ELSE exit[f] = "ok" /\ "media" \in temp[f]
JudgeOutput(f) ==
    /\ legOf[f] \notin Probes
    /\ IF HasOutput(f)
       THEN FetchMoves(f, "judge", "keep") /\ UNCHANGED result
       ELSE FetchMoves(f, "judge", "sweep") /\ Ends(f, "failed")
    /\ UNCHANGED <<legOf, temp, secret, asked, exit, stored, gets, fetchFaults>>

(* What a probe printed is kept if the program ended well and printed some   *)
(* text; a listing must be the JSON of a playlist, and of its members only   *)
(* those with an id and an absolute link are kept, which may be none.        *)
ReadMetadata(f) ==
    /\ legOf[f] = "metadata" /\ FetchMoves(f, "judge", "end")
    /\ \/ exit[f] = "ok" /\ Ends(f, "kept")
       \/ Ends(f, "failed")
    /\ UNCHANGED <<legOf, temp, secret, asked, exit, stored, gets, fetchFaults>>
ReadListing(f) ==
    /\ legOf[f] \in Lists /\ FetchMoves(f, "judge", "end")
    /\ \/ exit[f] = "ok" /\ \E r \in {"kept", "nothing"} : Ends(f, r)
       \/ Ends(f, "failed")
    /\ UNCHANGED <<legOf, temp, secret, asked, exit, stored, gets, fetchFaults>>

----------------------------------------------------------------------------
(* The subtitles are archived first, each by itself, then the media is moved *)
(* into raw/ unless it is there; the audio is only listened to.              *)
KeepOutput(f) ==
    /\ \E S \in SUBSET ({"subs"} \cap temp[f]) :
        LET T == S \cup IF legOf[f] = "audio" THEN {} ELSE {"media"} \cap temp[f]
        IN  \/ stored' = [stored EXCEPT ![f] = T] /\ UNCHANGED fetchFaults
               /\ Ends(f, IF T = {} THEN "nothing" ELSE "kept")
            \/ stored' = [stored EXCEPT ![f] = S] /\ Faulty /\ Ends(f, "failed")
               /\ "media" \in T
    /\ FetchMoves(f, "keep", "sweep")
    /\ UNCHANGED <<legOf, temp, secret, asked, exit, gets>>

(* The callers that remove the directory whatever happened, and those that   *)
(* do so only when it went well; a capture that cannot move its media, or a  *)
(* file that cannot be stored, returns before.                               *)
Sweeps(f) ==
    \/ result[f] # "failed"
    \/ legOf[f] \in {"subtitles", "audio"}
    \/ legOf[f] = "media" /\ stored[f] = {} /\ ~HasOutput(f)
SweepTemp(f) ==
    /\ FetchMoves(f, "sweep", "end")
    /\ IF Sweeps(f) THEN /\ temp' = [temp EXCEPT ![f] = {}]
                         /\ secret' = [secret EXCEPT ![f] = IF legOf[f] \in Probes THEN @ ELSE {}]
                    ELSE UNCHANGED <<temp, secret>>
    /\ UNCHANGED <<legOf, asked, exit, stored, result, gets, fetchFaults>>

(* The process ends: nothing looks at what is left again. *)
CutOff(f) ==
    /\ fetchAt[f] \notin {"idle", "end", "cut"} /\ Faulty
    /\ fetchAt' = [fetchAt EXCEPT ![f] = "cut"]
    /\ UNCHANGED <<legOf, temp, secret, asked, exit, stored, result, gets>>

FetchesNext ==
    \E f \in Fetch :
        \/ ProbeUrl(f) \/ DownloadFile(f) \/ CopyOrWrite(f) \/ MakeDir(f) \/ BeginProbe(f)
        \/ WriteSecrets(f) \/ RunProgram(f) \/ RunAgain(f) \/ RemoveSecrets(f) \/ JudgeOutput(f)
        \/ ReadMetadata(f) \/ ReadListing(f)
        \/ KeepOutput(f) \/ SweepTemp(f) \/ CutOff(f)
FetchesSpec == FetchesInit /\ [][FetchesNext]_fetchVars

----------------------------------------------------------------------------
(* Properties. *)

FetchesTypeOK ==
    /\ legOf \in [Fetch -> Leg] /\ fetchAt \in [Fetch -> FetchPlace]
    /\ temp \in [Fetch -> SUBSET Staged] /\ secret \in [Fetch -> SUBSET Secret]
    /\ exit \in [Fetch -> Exit] /\ result \in [Fetch -> Result] /\ stored \in [Fetch -> SUBSET Staged]

(* Files with cookies or storage do not outlive the fetch they were written  *)
(* for, however it ends, the process itself aside: but for a probe whose     *)
(* write of them failed (fetch_metadata_with_timeout, fetch_playlist_info).  *)
SecretsEndWithTheFetch ==
    \A f \in Fetch : fetchAt[f] = "end" /\ secret[f] # {} =>
        legOf[f] \in Probes /\ exit[f] = "none" /\ result[f] = "failed"

(* A fetch that went well left nothing in store/temp; a second run was one   *)
(* without subtitles after a first that got no media; media is kept only of  *)
(* a run that ended well, and the body of a file is asked for once.          *)
FetchedAsWanted ==
    \A f \in Fetch :
        /\ fetchAt[f] = "end" /\ result[f] # "failed" => temp[f] = {}
        /\ "media" \in stored[f] /\ legOf[f] \in {"media", "page"} => exit[f] = "ok"
        /\ fetchAt[f] = "again" => asked[f] /\ "media" \notin temp[f]
        /\ gets[f] <= 1

(* A fetch ends with what was wanted of it in the store, and nothing else    *)
(* anywhere (save, fetch_metadata_with_timeout, download).                   *)
FetchesEndAsAsked == SecretsEndWithTheFetch /\ FetchedAsWanted
=============================================================================
