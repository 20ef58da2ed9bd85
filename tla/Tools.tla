-------------------------------- MODULE Tools --------------------------------
(***************************************************************************)
(* yt-dlp and Deno as archivr installs them into its state directory, and  *)
(* the choice between them and the pinned ones that a server process keeps *)
(* in a cache.  An update writes a staging file of one fixed name and      *)
(* renames it over the tool.  The server admits one update at a time; the  *)
(* command line updates the same directory without asking.                 *)
(*                                                                         *)
(* Files are inodes: opening the staging file truncates the one that has   *)
(* the name, also under a writer that is not done, and a writer goes on    *)
(* writing to what it opened, whatever its name has become.                *)
(***************************************************************************)
EXTENDS Integers, FiniteSets

CONSTANTS
    ServerUpdate,  \* updates asked of the server
    CliUpdate,     \* runs of `archivr yt-dlp update`
    PinnedVersion, \* [Tool -> version]: ARCHIVR_YT_DLP, ARCHIVR_DENO; 0 where there is none
    MaxVersion,    \* bound: releases
    MaxToolFaults  \* bound: failing steps, crashes

Tool == {"ytdlp", "deno"}
Update == ServerUpdate \cup CliUpdate
Version == 1..MaxVersion
Garbage == 0
Inode == 1..(Cardinality(Update) + 2)
NoFile == 0
Choice == {"unset", "pinned", "state", "path"}
UpdatePlace == {"idle", "check", "open", "write", "verify", "rename", "record",
                "remove", "probe", "refresh", "swap", "end"}

ASSUME ToolsAssumption ==
    /\ ServerUpdate \cap CliUpdate = {} /\ IsFiniteSet(Update)
    /\ PinnedVersion \in [Tool -> 0..MaxVersion]
    /\ MaxVersion \in Nat \ {0} /\ MaxToolFaults \in Nat

VARIABLES
    latest,      \* the newest release, of either tool
    staging,     \* [Tool -> Inode \cup {NoFile}]: what has the name yt-dlp.new, deno.new
    installed,   \* [Tool -> Inode \cup {NoFile}]: what has the tool's name
    data,        \* [Tool -> [Inode -> Version \cup {Garbage}]]
    mixed,       \* [Tool -> [Inode -> SUBSET Version]]: written since it was last truncated alone
    recorded,    \* the .version file of yt-dlp; 0 if there is none
    updating,    \* YT_DLP_UPDATE_RUNNING: the update that has the guard
    place,       \* [Update -> [at, tool, version, file, ok, found]]
    chosen,      \* [Tool -> Choice]: RESOLVED_YT_DLP, RESOLVED_JS_RUNTIME
    resolving,   \* [Tool -> Choice]: a first use that has the write lock and has probed
    overlapped,  \* ghost: a command line update ran next to another one
    cutOff,      \* ghost: an update ended between the rename of yt-dlp and .version
    unannounced, \* ghost: tools installed without a refresh of the server's cache
    toolFaults

toolFiles == <<staging, installed, data, mixed, recorded>>
toolCache == <<chosen, resolving>>
toolGhosts == <<overlapped, cutOff, unannounced>>
toolVars == <<latest, toolFiles, updating, place, toolCache, toolGhosts, toolFaults>>

Unplaced == [at |-> "idle", tool |-> "ytdlp", version |-> 1, file |-> NoFile,
             ok |-> TRUE, found |-> "unset"]

ToolsInit ==
    /\ latest = 1
    /\ staging = [t \in Tool |-> NoFile] /\ installed = [t \in Tool |-> NoFile]
    /\ data = [t \in Tool |-> [i \in Inode |-> Garbage]]
    /\ mixed = [t \in Tool |-> [i \in Inode |-> {}]]
    /\ recorded = 0 /\ updating = {}
    /\ place = [u \in Update |-> Unplaced]
    /\ chosen = [t \in Tool |-> "unset"] /\ resolving = [t \in Tool |-> "unset"]
    /\ overlapped = FALSE /\ cutOff = FALSE /\ unannounced = {}
    /\ toolFaults = 0

Active == {u \in Update : place[u].at \notin {"idle", "end"}}
Writers(t, i) == {u \in Active : place[u].at = "write" /\ place[u].tool = t /\ place[u].file = i}
ToolFault == toolFaults < MaxToolFaults /\ toolFaults' = toolFaults + 1

(* What `--version` of the installed tool reports: Linux runs no file that   *)
(* somebody is writing to.                                                   *)
Runs(t, i) == i # NoFile /\ data[t][i] # Garbage /\ Writers(t, i) = {}
StateVersion(t) == IF Runs(t, installed[t]) THEN data[t][installed[t]] ELSE 0

(* resolve_yt_dlp_uncached, resolve_js_runtime_with_path: the newest of the  *)
(* two, the installed one if they are equal.                                 *)
Best(t) ==
    IF StateVersion(t) = 0 /\ PinnedVersion[t] = 0 THEN "path"
    ELSE IF StateVersion(t) >= PinnedVersion[t] THEN "state" ELSE "pinned"

NewRelease ==
    /\ latest < MaxVersion /\ latest' = latest + 1
    /\ UNCHANGED <<toolFiles, updating, place, toolCache, toolGhosts, toolFaults>>

----------------------------------------------------------------------------
(* The guard moves into the task.  A slip: a client that goes away frees it. *)
EitherGuard(u) == TRUE
GuardFree(u) == u \in ServerUpdate => updating = {}

BeginUpdate(u) ==
    /\ place[u].at = "idle" /\ GuardFree(u)
    /\ updating' = IF u \in ServerUpdate THEN updating \cup {u} ELSE updating
    /\ place' = [place EXCEPT ![u].at = "check"]
    /\ overlapped' = (overlapped \/ (Active # {} /\ (Active \cup {u}) \cap CliUpdate # {}))
    /\ UNCHANGED <<latest, toolFiles, toolCache, cutOff, unannounced, toolFaults>>

(* An update is over with the tool it is at: yt-dlp is followed by Deno,     *)
(* whether it failed or not.                                                 *)
NextTool(u) ==
    IF place[u].tool = "ytdlp" THEN [Unplaced EXCEPT !.at = "check", !.tool = "deno"]
    ELSE [Unplaced EXCEPT !.at = "end"]
(* A slip: it is dropped at the end of the task only if Deno went well.      *)
FreedOnSuccess(u, p) == IF p.at = "end" /\ place[u].at = "swap" THEN updating \ {u} ELSE updating
Freed(u, p) == IF p.at = "end" THEN updating \ {u} ELSE updating
GoesOn(u, p) == place' = [place EXCEPT ![u] = p] /\ updating' = Freed(u, p)
FailsAt(u) == GoesOn(u, NextTool(u))

(* A command line update leaves the server's cache to itself.                *)
Succeeds(u) ==
    IF u \in ServerUpdate
    THEN GoesOn(u, [place[u] EXCEPT !.at = IF place[u].tool = "ytdlp" THEN "probe" ELSE "refresh",
                                    !.file = NoFile])
    ELSE GoesOn(u, NextTool(u))

(* The release asked for: the newest, or, of yt-dlp and from the command     *)
(* line, any.                                                                *)
Asked(u) == IF u \in CliUpdate /\ place[u].tool = "ytdlp" THEN 1..latest ELSE {latest}

UpToDate(t, v) ==
    IF t = "ytdlp" THEN installed[t] # NoFile /\ recorded = v ELSE StateVersion(t) >= v

(* The release is looked up and downloaded, unless it is there already. *)
CheckVersion(u) ==
    /\ place[u].at = "check"
    /\ \/ \E v \in Asked(u) :
            \/ UpToDate(place[u].tool, v) /\ Succeeds(u)
            \/ /\ ~UpToDate(place[u].tool, v)
               /\ GoesOn(u, [place[u] EXCEPT !.at = "open", !.version = v])
          /\ UNCHANGED toolFaults
       \/ ToolFault /\ FailsAt(u)
    /\ UNCHANGED <<latest, toolFiles, toolCache, toolGhosts>>

FreeInodes(t) ==
    Inode \ ({staging[t], installed[t]} \cup {place[u].file : u \in {v \in Active : place[v].tool = t}})

(* fs::write and File::create truncate the file that has the name. *)
OpenStaging(u) ==
    LET t == place[u].tool
        i == IF staging[t] # NoFile THEN staging[t]
             ELSE CHOOSE j \in FreeInodes(t) : TRUE
    IN  /\ place[u].at = "open"
        /\ staging' = [staging EXCEPT ![t] = i]
        /\ data' = [data EXCEPT ![t][i] = Garbage]
        /\ mixed' = [mixed EXCEPT ![t][i] =
                        (IF Writers(t, i) = {} THEN {} ELSE @) \cup {place[u].version}]
        /\ GoesOn(u, [place[u] EXCEPT !.at = "write", !.file = i])
        /\ UNCHANGED <<latest, installed, recorded, toolCache, toolGhosts, toolFaults>>

(* Whole once the last writer is done, if all wrote the same. *)
Written(u) ==
    LET t == place[u].tool
        i == place[u].file
    IN  IF Writers(t, i) = {u} /\ mixed[t][i] = {place[u].version} THEN place[u].version ELSE Garbage

FinishStaging(u) ==
    LET t == place[u].tool
    IN  /\ place[u].at = "write"
        /\ \/ /\ data' = [data EXCEPT ![t][place[u].file] = Written(u)]
              /\ GoesOn(u, [place[u] EXCEPT !.at = IF t = "deno" THEN "verify" ELSE "rename",
                                            !.file = NoFile])
              /\ UNCHANGED toolFaults
           \/ /\ ToolFault /\ UNCHANGED data
              /\ IF t = "deno" THEN GoesOn(u, [place[u] EXCEPT !.at = "remove", !.file = NoFile])
                 ELSE FailsAt(u)
    /\ UNCHANGED <<latest, staging, installed, mixed, recorded, toolCache, toolGhosts>>

(* verify_staged: the staged Deno must run and report the release. *)
Verified(u) == Runs("deno", staging["deno"]) /\ data["deno"][staging["deno"]] = place[u].version

VerifyStaged(u) ==
    /\ place[u].at = "verify"
    /\ GoesOn(u, [place[u] EXCEPT !.at = IF Verified(u) THEN "rename" ELSE "remove"])
    /\ UNCHANGED <<latest, toolFiles, toolCache, toolGhosts, toolFaults>>

(* The swap of the names; the file the tool had is gone. *)
RenameStaging(u) ==
    LET t == place[u].tool
    IN  /\ place[u].at = "rename"
        /\ \/ /\ staging[t] # NoFile
              /\ installed' = [installed EXCEPT ![t] = staging[t]]
              /\ staging' = [staging EXCEPT ![t] = NoFile]
              /\ unannounced' = unannounced \cup {t}
              /\ IF t = "ytdlp" THEN GoesOn(u, [place[u] EXCEPT !.at = "record"]) ELSE Succeeds(u)
              /\ UNCHANGED toolFaults
           \/ /\ (staging[t] = NoFile /\ UNCHANGED toolFaults) \/ ToolFault
              /\ UNCHANGED <<installed, staging, unannounced>>
              /\ IF t = "deno" THEN GoesOn(u, [place[u] EXCEPT !.at = "remove"]) ELSE FailsAt(u)
        /\ UNCHANGED <<latest, data, mixed, recorded, toolCache, overlapped, cutOff>>

Noted(u) == place[u].version

RecordVersion(u) ==
    /\ place[u].at = "record"
    /\ \/ recorded' = Noted(u) /\ Succeeds(u) /\ UNCHANGED <<cutOff, toolFaults>>
       \/ ToolFault /\ FailsAt(u) /\ cutOff' = TRUE /\ UNCHANGED recorded
    /\ UNCHANGED <<latest, staging, installed, data, mixed, toolCache, overlapped, unannounced>>

RemoveStaging(u) ==
    /\ place[u].at = "remove"
    /\ staging' = [staging EXCEPT !["deno"] = NoFile]
    /\ FailsAt(u)
    /\ UNCHANGED <<latest, installed, data, mixed, recorded, toolCache, toolGhosts, toolFaults>>

----------------------------------------------------------------------------
(* update_tools on the server: an install that does not run is reported as a *)
(* failure, and the cache is refreshed in either case.                       *)
ProbeInstalled(u) ==
    /\ place[u].at = "probe"
    /\ GoesOn(u, [place[u] EXCEPT !.at = "refresh", !.ok = StateVersion("ytdlp") # 0])
    /\ UNCHANGED <<latest, toolFiles, toolCache, toolGhosts, toolFaults>>

(* refresh_yt_dlp, refresh_js_runtime: resolved outside the lock, ... *)
ResolveAgain(u) ==
    /\ place[u].at = "refresh"
    /\ GoesOn(u, [place[u] EXCEPT !.at = "swap", !.found = Best(place[u].tool)])
    /\ UNCHANGED <<latest, toolFiles, toolCache, toolGhosts, toolFaults>>

(* ... then swapped in. *)
Refreshed(u) == place[u].found

SwapChoice(u) ==
    LET t == place[u].tool
    IN  /\ place[u].at = "swap" /\ resolving[t] = "unset"
        /\ chosen' = [chosen EXCEPT ![t] = Refreshed(u)]
        /\ unannounced' = IF overlapped THEN unannounced ELSE unannounced \ {t}
        /\ GoesOn(u, NextTool(u))
        /\ UNCHANGED <<latest, toolFiles, resolving, overlapped, cutOff, toolFaults>>

(* The first download of the process probes while it has the write lock. *)
FirstUse(t) ==
    /\ chosen[t] = "unset" /\ resolving[t] = "unset"
    /\ resolving' = [resolving EXCEPT ![t] = Best(t)]
    /\ UNCHANGED <<latest, toolFiles, updating, place, chosen, toolGhosts, toolFaults>>
EndFirstUse(t) ==
    /\ resolving[t] # "unset"
    /\ chosen' = [chosen EXCEPT ![t] = resolving[t]]
    /\ resolving' = [resolving EXCEPT ![t] = "unset"]
    /\ UNCHANGED <<latest, toolFiles, updating, place, toolGhosts, toolFaults>>

(* The server dies with its updates and its caches, and starts again; or a   *)
(* command line is killed.                                                   *)
Die(us) ==
    /\ ToolFault
    /\ place' = [u \in Update |-> IF u \in us \cap Active THEN [Unplaced EXCEPT !.at = "end"] ELSE place[u]]
    /\ cutOff' = (cutOff \/ \E u \in us : place[u].at = "record")
    /\ UNCHANGED <<latest, toolFiles, overlapped>>
RestartTools ==
    /\ Die(ServerUpdate) /\ updating' = {}
    /\ chosen' = [t \in Tool |-> "unset"] /\ resolving' = [t \in Tool |-> "unset"]
    /\ unannounced' = {}
KillUpdate(u) == u \in CliUpdate \cap Active /\ Die({u}) /\ UNCHANGED <<updating, toolCache, unannounced>>

ToolsNext ==
    \/ \E u \in Update :
        \/ BeginUpdate(u) \/ CheckVersion(u) \/ OpenStaging(u) \/ FinishStaging(u)
        \/ VerifyStaged(u) \/ RenameStaging(u) \/ RecordVersion(u) \/ RemoveStaging(u)
        \/ ProbeInstalled(u) \/ ResolveAgain(u) \/ SwapChoice(u) \/ KillUpdate(u)
    \/ \E t \in Tool : FirstUse(t) \/ EndFirstUse(t)
    \/ NewRelease \/ RestartTools

ToolsSpec == ToolsInit /\ [][ToolsNext]_toolVars

----------------------------------------------------------------------------
(* Properties. *)

(* Every variable keeps its type, and the guard is held by whoever updates:  *)
(* each way an update of the server ends drops it.                           *)
ToolsTypeOK ==
    /\ latest \in Version /\ recorded \in 0..MaxVersion
    /\ staging \in [Tool -> Inode \cup {NoFile}] /\ installed \in [Tool -> Inode \cup {NoFile}]
    /\ data \in [Tool -> [Inode -> Version \cup {Garbage}]]
    /\ mixed \in [Tool -> [Inode -> SUBSET Version]]
    /\ \A u \in Update : place[u].at \in UpdatePlace /\ place[u].tool \in Tool
    /\ chosen \in [Tool -> Choice] /\ resolving \in [Tool -> Choice]
    /\ updating = ServerUpdate \cap Active

(* The installed tool is a whole release at any time, also while an update   *)
(* is cut off anywhere and the next one begins over what it left, unless the *)
(* command line updates at the same time as somebody else.                   *)
ToolStaysWhole ==
    ~overlapped => \A t \in Tool : installed[t] # NoFile => Runs(t, installed[t])

(* What .version says is what is installed, except between the rename and    *)
(* the write of .version, and after an update that ended there.              *)
RecordedIsInstalled ==
    ~overlapped /\ ~cutOff /\ recorded # 0 /\ (\A u \in Update : place[u].at # "record")
        => StateVersion("ytdlp") = recorded

(* Once the server has announced an install, every new download uses the     *)
(* newest tool there is: no first use that probed before the rename brings   *)
(* an old choice back (resolve_yt_dlp, refresh_yt_dlp).                      *)
ChosenIsNewest ==
    ~overlapped => \A t \in Tool \ unannounced : chosen[t] # "unset" => chosen[t] = Best(t)

(* All three: what an update leaves behind, however it ends, is a whole tool *)
(* under the version it has, and the next download runs the newest           *)
(* (install_yt_dlp, install_deno, refresh_js_runtime).                       *)
ToolsAreSound == ToolStaysWhole /\ RecordedIsInstalled /\ ChosenIsNewest
=============================================================================
