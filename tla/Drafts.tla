-------------------------------- MODULE Drafts --------------------------------
(***************************************************************************)
(* The rows of the capture dialog before they are submitted (CaptureTab):  *)
(* a locator whose qualities are probed for after a pause in typing, a     *)
(* text whose title may be generated, and a file that is uploaded.         *)
(* Answers come late: to another locator, to an edited text, to a row that *)
(* was removed, to a dialog that was closed.                               *)
(***************************************************************************)
EXTENDS Naturals

CONSTANTS
    Video, List,    \* locators with one item, and playlists
    Offers,         \* [Video \cup List -> [items -> qualities it has]]
    MaxProbes,      \* bound: probes under way
    MaxEdits        \* bound: edits of the text, and half the revisions

ASSUME DraftsAssumption ==
    /\ Video \cap List = {} /\ "none" \notin Video \cup List /\ DOMAIN Offers = Video \cup List
    /\ \A v \in Video : DOMAIN Offers[v] = {v}
    /\ MaxProbes \in Nat /\ MaxEdits \in Nat

VARIABLES
    locator,    \* of the row, or "none"
    due,        \* BOOLEAN: a probe waits for the typing to stop
    probe,      \* probeState or playlistProbeState
    choices,    \* quality, or the qualities of playlistItems; "none" is a conflict
    probes,     \* [1..MaxProbes -> locator a probe is under way for, or "none"]
    edits,      \* edits of title and body so far
    revision,   \* draftRevision
    title,      \* who wrote it, "user" or "model"
    asked,      \* the request for a title: edits and revision then, and whether its row is still the row
    overwritten, \* ghost: a generated title replaced an edit
    upload,     \* uploadStatus, "none" without the row
    stored,     \* the file at the server: "none", "staged", "sent" with a job, "deleted"
    orphaned,   \* ghost: an upload was aborted, or its answer lost, when the file was staged or became so
    lastSent    \* the last submission: its locator and choices

locatorVars == <<locator, due, probe, choices, probes>>
textVars == <<edits, revision, title, asked, overwritten>>
fileVars == <<upload, stored, orphaned>>
draftVars == <<locatorVars, textVars, fileVars, lastSent>>

NoAsk == [edits |-> 0, revision |-> 0, live |-> FALSE, busy |-> FALSE]
NoChoices(l) == IF l \in Video THEN [i \in {l} |-> "best"] ELSE [i \in {} |-> "none"]

DraftsInit ==
    /\ locator = "none" /\ due = FALSE /\ probe = "idle" /\ choices = NoChoices("none") /\ probes = [k \in 1..MaxProbes |-> "none"]
    /\ edits = 0 /\ revision = 0 /\ title = "user" /\ asked = NoAsk /\ overwritten = FALSE
    /\ upload = "none" /\ stored = "none" /\ orphaned = FALSE
    /\ lastSent = [locator |-> "none", choices |-> NoChoices("none"), file |-> FALSE]

----------------------------------------------------------------------------
(* The locator: updateLocator forgets what the last probe found. *)
TypeLocator(l) ==
    /\ l # locator /\ locator' = l /\ due' = (l # "none") /\ probe' = "idle" /\ choices' = NoChoices(l)
    /\ UNCHANGED <<probes, textVars, fileVars, lastSent>>
AskProbe(k) ==
    /\ due /\ probes[k] = "none" /\ due' = FALSE /\ probe' = "probing" /\ probes' = [probes EXCEPT ![k] = locator]
    /\ UNCHANGED <<locator, choices, textVars, fileVars, lastSent>>

(* An answer to another locator is stale. *)
StillFor(of) == locator = of
(* A video without heights is taken as sound; a playlist needs a choice. *)
FirstChoices(of) ==
    IF of \in List THEN [i \in DOMAIN Offers[of] |-> "none"]
    ELSE [i \in {of} |-> IF Offers[of][of] = {"audio"} THEN "audio" ELSE "best"]
ProbeAnswers(k) ==
    /\ probes[k] # "none" /\ probes' = [probes EXCEPT ![k] = "none"]
    /\ IF StillFor(probes[k]) THEN probe' = "done" /\ choices' = FirstChoices(probes[k]) ELSE UNCHANGED <<probe, choices>>
    /\ UNCHANGED <<locator, due, textVars, fileVars, lastSent>>
(* A failure is never stale: it ends a later probe of its kind too. *)
ProbeFails(k) ==
    /\ probes[k] # "none" /\ probes' = [probes EXCEPT ![k] = "none"]
    /\ probe' = (CASE probes[k] \in Video /\ locator \in Video -> "idle"
                   [] probes[k] \in List /\ locator \in List -> "error"
                   [] OTHER -> probe)
    /\ UNCHANGED <<locator, due, choices, textVars, fileVars, lastSent>>

Offered(i) == Offers[locator][i] \cup {"best"}
Choose(i, q) ==
    /\ probe = "done" /\ i \in DOMAIN choices /\ q \in Offered(i) /\ choices' = [choices EXCEPT ![i] = q]
    /\ UNCHANGED <<locator, due, probe, probes, textVars, fileVars, lastSent>>
(* A quality for the playlist is that of the videos that have exactly it;    *)
(* the others keep their own.                                                *)
ChooseForAll(q) ==
    /\ probe = "done" /\ locator \in List /\ \E i \in DOMAIN choices : q \in Offered(i)
    /\ q = "audio" => \A i \in DOMAIN choices : q \in Offered(i)
    /\ choices' = [i \in DOMAIN choices |-> IF q \in Offered(i) THEN q ELSE choices[i]]
    /\ UNCHANGED <<locator, due, probe, probes, textVars, fileVars, lastSent>>
DropVideo(i) ==
    /\ probe = "done" /\ locator \in List /\ i \in DOMAIN choices
    /\ choices' = [j \in DOMAIN choices \ {i} |-> choices[j]]
    /\ UNCHANGED <<locator, due, probe, probes, textVars, fileVars, lastSent>>

----------------------------------------------------------------------------
(* The text: every edit makes a revision, and so does a generated title. *)
EditText(field) ==
    /\ edits < MaxEdits /\ edits' = edits + 1 /\ revision' = revision + 1
    /\ title' = (IF field = "title" THEN "user" ELSE title)
    /\ UNCHANGED <<locatorVars, asked, overwritten, fileVars, lastSent>>
AskTitle ==
    /\ ~asked.busy /\ ~asked.live /\ edits > 0 /\ revision < 2 * MaxEdits
    /\ asked' = [edits |-> edits, revision |-> revision, live |-> TRUE, busy |-> TRUE]
    /\ UNCHANGED <<locatorVars, edits, revision, title, overwritten, fileVars, lastSent>>
(* A title is for the draft it was asked for. *)
Unchanged == asked.revision = revision
TitleAnswers ==
    /\ asked.live
    /\ \/ asked.busy /\ Unchanged /\ title' = "model" /\ revision' = revision + 1 /\ overwritten' = (overwritten \/ asked.edits # edits)
       \/ UNCHANGED <<title, revision, overwritten>>       \* it failed, or counts no more
    /\ asked' = NoAsk
    /\ UNCHANGED <<locatorVars, edits, fileVars, lastSent>>

----------------------------------------------------------------------------
(* The file. *)
Attach ==
    /\ upload = "none" /\ stored = "none" /\ upload' = "uploading"
    /\ UNCHANGED <<locatorVars, textVars, stored, orphaned, lastSent>>
(* The server has the file: the row may be gone. *)
StageFile ==
    /\ stored = "none" /\ (upload = "uploading" \/ orphaned) /\ stored' = "staged"
    /\ UNCHANGED <<locatorVars, textVars, upload, orphaned, lastSent>>
UploadAnswers ==
    /\ upload = "uploading" /\ stored = "staged" /\ upload' = "done"
    /\ UNCHANGED <<locatorVars, textVars, stored, orphaned, lastSent>>
UploadFails ==
    /\ upload = "uploading" /\ upload' = "error" /\ orphaned' = TRUE
    /\ UNCHANGED <<locatorVars, textVars, stored, lastSent>>

(* A row that goes aborts its upload or deletes what it staged. *)
Dropped == IF upload = "done" THEN "deleted" ELSE stored
DropFile == stored' = Dropped /\ orphaned' = (orphaned \/ upload = "uploading")
RemoveFile ==
    /\ upload # "none" /\ DropFile /\ upload' = "none" /\ UNCHANGED <<locatorVars, textVars, lastSent>>

----------------------------------------------------------------------------
(* handleArchive and the close of the dialog, which empty all rows; a file   *)
(* that is submitted is left to its job.  Answers to the rows are ignored.   *)
Emptied ==
    /\ locator' = "none" /\ due' = FALSE /\ probe' = "idle" /\ choices' = NoChoices("none") /\ UNCHANGED probes
    /\ edits' = 0 /\ revision' = 0 /\ title' = "user" /\ overwritten' = overwritten
    /\ asked' = [asked EXCEPT !.busy = FALSE]
    /\ upload' = "none"
Ready ==
    /\ upload # "uploading" /\ (upload = "done" \/ locator # "none" \/ edits > 0)
    /\ locator \in Video => probe # "probing"
    /\ locator \in List => probe = "done" /\ DOMAIN choices # {}
    /\ \A i \in DOMAIN choices : choices[i] # "none"
(* The close that follows does not clean up. *)
KeptForJob == IF upload = "done" THEN "sent" ELSE stored
ArchiveRows ==
    /\ Ready /\ Emptied /\ lastSent' = [locator |-> locator, choices |-> choices, file |-> upload = "done"]
    /\ stored' = KeptForJob /\ UNCHANGED orphaned
CloseDialog == Emptied /\ DropFile /\ UNCHANGED lastSent

DraftsNext ==
    \/ ArchiveRows \/ CloseDialog \/ RemoveFile \/ Attach \/ StageFile \/ UploadAnswers \/ UploadFails
    \/ AskTitle \/ TitleAnswers \/ \E f \in {"title", "body"} : EditText(f)
    \/ \E l \in Video \cup List \cup {"none"} : TypeLocator(l)
    \/ \E k \in 1..MaxProbes : AskProbe(k) \/ ProbeAnswers(k) \/ ProbeFails(k)
    \/ \E i \in DOMAIN choices : DropVideo(i) \/ \E q \in Offered(i) : Choose(i, q) \/ ChooseForAll(q)
DraftsSpec == DraftsInit /\ [][DraftsNext]_draftVars

----------------------------------------------------------------------------
(* Properties. *)

DraftsTypeOK ==
    /\ locator \in Video \cup List \cup {"none"} /\ due \in BOOLEAN /\ probe \in {"idle", "probing", "done", "error"}
    /\ probes \in [1..MaxProbes -> Video \cup List \cup {"none"}]
    /\ edits \in 0..MaxEdits /\ title \in {"user", "model"} /\ asked.edits \in 0..MaxEdits
    /\ upload \in {"none", "uploading", "done", "error"} /\ stored \in {"none", "staged", "sent", "deleted"}

(* What is submitted asks every video for a quality that its own probe, and  *)
(* no late answer to another locator, offered (updateLocator,                *)
(* applyPlaylistQuality, handleArchive); no generated title replaces what    *)
(* was typed since it was asked for (applyGeneratedTitle); a submitted file  *)
(* is still staged; and a staged file without a row or a job is one whose    *)
(* upload was cut off (the close handler, removeRow).                        *)
DraftsFit ==
    /\ \A i \in DOMAIN lastSent.choices :
        i \in DOMAIN Offers[lastSent.locator] /\ lastSent.choices[i] \in Offers[lastSent.locator][i] \cup {"best"}
    /\ ~overwritten
    /\ lastSent.file => stored = "sent"
    /\ stored = "staged" => upload \in {"uploading", "done"} \/ orphaned
=============================================================================
