------------------------------- MODULE MCFiles -------------------------------
(***************************************************************************)
(* Small instances of the components that are about files and processes    *)
(* rather than rows: TweetArchive, Staging, Tools, TranscriptionSlot and   *)
(* Fetches. They share no file, so that a behaviour moves one of them, the *)
(* focus, and the others rest where they began.                            *)
(***************************************************************************)
EXTENDS TweetArchive, Staging, Tools, TranscriptionSlot, Fetches, TLC

CONSTANTS g1, g2, c1, Foci

VARIABLE focus

(* yt-dlp is pinned at the first release, Deno is not pinned. *)
Pins == ("ytdlp" :> 1) @@ ("deno" :> 0)

(* Two updates of the server, or one and the command line. *)
TwoUpdates == \E u \in {g2, c1} : place[u].at = "idle"

FilesVars == <<tweetVars, stagingVars, toolVars, slotVars, fetchVars, focus>>
Rests(components, variables) == IF focus \in components THEN TRUE ELSE UNCHANGED variables

(* One task may be of the command line.  Media are alike: one is scraped     *)
(* before the others are.                                                    *)
CliTask == CHOOSE k \in TweetTask : TRUE
FirstMedia == CHOOSE m \in TweetMedia : TRUE
InOrder ==
    /\ fromCli \subseteq {CliTask}
    /\ (\E k \in TweetTask : staged[k] \in TweetMedia \ {FirstMedia})
       => FirstMedia \in rawFiles \cup {staged[k] : k \in TweetTask}

(* A cleanup among captures and re-archives of one tweet. *)
OneTweet == \A k \in TweetTask : tweetOf[k] = [root |-> 1, thread |-> FALSE]
FilesNext ==
    /\ UNCHANGED focus
    /\ Rests({"tweets", "cleanup"}, tweetVars) /\ Rests({"staging"}, stagingVars)
    /\ Rests({"tools"}, toolVars) /\ Rests({"slot"}, slotVars) /\ Rests({"fetches"}, fetchVars)
    /\ \/ focus = "tweets" /\ TweetArchiveNext /\ InOrder' /\ UNCHANGED sweepVars
       \/ focus = "cleanup" /\ TweetArchiveNext /\ InOrder' /\ OneTweet'
       \/ focus = "staging" /\ StagingNext
       \/ focus = "tools" /\ ToolsNext /\ TwoUpdates'
       \/ focus = "slot" /\ SlotNext
       \/ focus = "fetches" /\ FetchesNext

(* A component at rest enables no step that the fairness is about. *)
FilesInit ==
    /\ focus \in Foci /\ TweetArchiveInit /\ StagingInit /\ ToolsInit /\ SlotInit
    /\ FetchesInit /\ (focus = "fetches" \/ \A f \in Fetch : legOf[f] = "text" /\ ~asked[f])
FilesSpec == FilesInit /\ [][FilesNext]_FilesVars /\ StagingFairness

(* Every variable of every component keeps its type. *)
FilesTypeOK == TweetArchiveTypeOK /\ StagingTypeOK /\ ToolsTypeOK /\ SlotTypeOK /\ FetchesTypeOK
=============================================================================
