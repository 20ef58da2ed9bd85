---------------------------- MODULE MCCaptureRuns ----------------------------
(***************************************************************************)
(* Small instances of what the threads of captures and summaries do:       *)
(* CaptureRuns, and Processes for the programs they wait for.  One of them *)
(* moves in a behaviour, the focus, and the other rests.  The captures of  *)
(* a behaviour are those of one mix: the others are never submitted.       *)
(***************************************************************************)
EXTENDS CaptureRuns, Processes, TLC

CONSTANTS p1, m1, t1, x1, o1, k1, k2,
    Foci,   \* the components that move
    Mixes   \* the sets of captures that are submitted together

VARIABLES focus, mix

(* A playlist, a media capture, a tweet, a pasted text and a source nobody   *)
(* supports; m1 and o1 may be started from the command line.                 *)
Kinds == (p1 :> "playlist") @@ (m1 :> "media") @@ (t1 :> "tweet")
         @@ (x1 :> "text") @@ (o1 :> "other")

(* A playlist next to a media capture; a tweet next to either other kind.    *)
AllKinds == {{p1, m1}, {t1, x1}, {t1, o1}}
TweetAndText == {{t1, x1}}

(* Two crashes let a recovery be cut off and repeated; with the playlist     *)
(* there is one crash or one fault.                                          *)
WithinMix ==
    /\ \A c \in Capture \ mix : task[c] = "idle"
    /\ p1 \in mix => crashes + faults <= 1
MixVars == <<vars, processVars, focus, mix>>
MixInit == Init /\ ProcessesInit /\ focus \in Foci
           /\ mix \in (IF focus = "captures" THEN Mixes ELSE {{}})
MixNext ==
    /\ UNCHANGED <<focus, mix>>
    /\ \/ focus = "captures" /\ UNCHANGED processVars /\ Next /\ WithinMix'
       \/ focus = "processes" /\ UNCHANGED vars /\ ProcessesNext

(* The server starts if the captures have the focus: at rest it stays down,  *)
(* and its recovery must not be asked for.                                   *)
MixSpec ==
    /\ MixInit /\ [][MixNext]_MixVars
    /\ WF_vars(focus = "captures" /\ boot # "up" /\ Recover)
    /\ TasksRun /\ ProcessesFairness
=============================================================================
