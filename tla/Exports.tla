------------------------------- MODULE Exports -------------------------------
(***************************************************************************)
(* Exports of entries to a ZIP.  The request is checked against what the   *)
(* caller may see, then a blocking thread reads the entries again, one     *)
(* query after the other, renders one document or one per entry, and packs *)
(* the files the documents link to.  Nothing announces an export: entries  *)
(* are deleted, hidden and cleaned up under it.                            *)
(*                                                                         *)
(* The tree has two levels, containers and their members.  The posts of a  *)
(* thread are in Threads, the life of the work directory in Staging.       *)
(***************************************************************************)
EXTENDS Naturals, Sequences, SequencesExt, Ranking

CONSTANTS
    Item,           \* entries
    ContainerOf,    \* [member -> its container]
    Owns,           \* [Item -> record]: what an entry is, and its files
    MaxUpsets       \* bound: deletions, changes of shelves, removed files

ASSUME ExportsAssumption ==
    /\ IsFiniteSet(Item) /\ DOMAIN ContainerOf \subseteq Item /\ MaxUpsets \in Nat
    /\ \A e \in DOMAIN ContainerOf : ContainerOf[e] \in Item \ DOMAIN ContainerOf
    /\ \A e \in Item : Owns[e].kind \in {"video", "posts", "page", "file"}

VARIABLES
    alive,      \* SUBSET Item
    shelved,    \* SUBSET Item: in a collection that shows them to the caller
    onDisk,     \* files there are
    upsets,
    sighted,    \* ghost: the entries the caller could see at some time
    disturbed,  \* ghost: the entries that were gone or hidden at some time
    export,     \* record: the request under way
    queue,      \* Seq(Item): entries still to check, look up or load
    kept,       \* Seq(Item): what the request comes down to
    counted,    \* SUBSET Item: the kept ones that had members when looked up
    loaded,     \* Seq(record): bodies, the members after their container
    posters,    \* videos with a poster
    zip         \* names in the archive: a set of <<folder, name>>

library == <<alive, shelved, onDisk, upsets, sighted, disturbed>>
exportVars == <<library, export, queue, kept, counted, loaded, posters, zip>>

FilesOf(e) == Owns[e].media \cup Owns[e].tracks \cup Owns[e].fonts
Files == UNION {FilesOf(e) : e \in Item}
ExportPlace == {"idle", "check", "lookup", "load", "localize", "posters", "pack", "done", "failed"}
Members(e) == {m \in DOMAIN ContainerOf : ContainerOf[m] = e}
SeenWith(S, e) == e \in S \/ (e \in DOMAIN ContainerOf /\ ContainerOf[e] \in S)
Seen(e) == SeenWith(shelved, e)

ExportsInit ==
    /\ alive = Item /\ shelved \in SUBSET Item /\ onDisk = Files /\ upsets = 0
    /\ sighted = {e \in Item : Seen(e)} /\ disturbed = Item \ sighted
    /\ export = [at |-> "idle", asked |-> <<>>, together |-> TRUE, html |-> TRUE]
    /\ queue = <<>> /\ kept = <<>> /\ counted = {} /\ loaded = <<>> /\ posters = {} /\ zip = {}

Goes(s) == export' = [export EXCEPT !.at = s]
Refuse == Goes("failed") /\ UNCHANGED <<queue, kept, counted, loaded, posters, zip>>

----------------------------------------------------------------------------
(* export_handler checks each entry, then export_entries looks each of them *)
(* up, once however often it was asked for.                                 *)
AskExport ==
    /\ export.at = "idle"
    /\ \E asked \in BoundedSeq(Item, 2) \ {<<>>}, together, html \in BOOLEAN :
        /\ export' = [at |-> "check", asked |-> asked, together |-> together, html |-> html]
        /\ queue' = asked
    /\ UNCHANGED <<library, kept, counted, loaded, posters, zip>>

OncePerEntry(s) == OnlyAt(s, {i \in DOMAIN s : \A j \in 1..(i - 1) : s[j] # s[i]})
CheckItem ==
    /\ export.at = "check" /\ UNCHANGED library
    /\ IF queue = <<>>
       THEN Goes("lookup") /\ queue' = OncePerEntry(export.asked) /\ UNCHANGED <<kept, counted, loaded, posters, zip>>
       ELSE IF Head(queue) \in alive /\ Seen(Head(queue))
       THEN queue' = Tail(queue) /\ UNCHANGED <<export, kept, counted, loaded, posters, zip>>
       ELSE Refuse

(* A slip: a member stays, next to the container that shows it. *)
KeepMembers(s) == s
WithoutMembersOf(s) ==
    OnlyAt(s, {i \in DOMAIN s : s[i] \notin DOMAIN ContainerOf \/ ~Contains(s, ContainerOf[s[i]])})

LookUpItem ==
    /\ export.at = "lookup" /\ UNCHANGED library
    /\ IF queue = <<>>
       THEN /\ Goes("load") /\ kept' = WithoutMembersOf(kept) /\ queue' = kept'
            /\ UNCHANGED <<counted, loaded, posters, zip>>
       ELSE IF Head(queue) \in alive
       THEN /\ kept' = Append(kept, Head(queue)) /\ queue' = Tail(queue)
            /\ counted' = counted \cup {e \in {Head(queue)} : Members(e) \cap alive # {}}
            /\ UNCHANGED <<export, loaded, posters, zip>>
       ELSE Refuse

----------------------------------------------------------------------------
(* load_entry: what is gone shows as empty, and so does an entry without its *)
(* file; other files that are missing are left out.                          *)
Body(e) ==
    LET there == IF e \in alive THEN onDisk ELSE {}
    IN  [of |-> e, files |-> FilesOf(e) \cap there, localized |-> FALSE,
         kind |-> IF e \in counted \cap alive THEN "container"
                  ELSE IF Owns[e].media \cap there = {} THEN "empty" ELSE Owns[e].kind]
ListedMembers(e) == {m \in Members(e) \cap alive : Seen(m)}
LoadItem ==
    /\ export.at = "load" /\ UNCHANGED library
    /\ IF queue = <<>>
       THEN Goes("localize") /\ UNCHANGED <<queue, loaded>>
       ELSE LET b == Body(Head(queue))
            IN  /\ loaded' = Append(loaded, b) /\ UNCHANGED export
                /\ queue' = (IF b.kind = "container" THEN SetToSeq(ListedMembers(b.of)) ELSE <<>>)
                                \o Tail(queue)
    /\ UNCHANGED <<kept, counted, posters, zip>>

(* localize_page_fonts: a copy of the page refers to the fonts next to it. *)
Fonts(b) == b.files \cap Owns[b.of].fonts
Medium(b) == b.files \cap Owns[b.of].media
Localizable(b) == b.kind = "page" /\ Fonts(b) # {}
LocalizeFonts ==
    /\ export.at = "localize" /\ UNCHANGED library
    /\ IF \E i \in DOMAIN loaded : Localizable(loaded[i]) /\ ~(Medium(loaded[i]) \subseteq onDisk)
       THEN Refuse
       ELSE /\ Goes("posters")
            /\ loaded' = [i \in DOMAIN loaded |-> [loaded[i] EXCEPT !.localized = Localizable(loaded[i])]]
            /\ UNCHANGED <<queue, kept, counted, posters, zip>>

(* ffmpeg makes a poster of a video, or not. *)
HasVideo(b) == b.kind \in {"video", "posts"}
GeneratePosters ==
    /\ export.at = "posters" /\ Goes("pack") /\ UNCHANGED library
    /\ posters' \in SUBSET (onDisk \cap UNION {Medium(loaded[i]) : i \in {j \in DOMAIN loaded : HasVideo(loaded[j])}})
    /\ UNCHANGED <<queue, kept, counted, loaded, zip>>

----------------------------------------------------------------------------
(* Names in a folder: files go by their hash. *)
NameOfMedium(b) == {IF b.localized THEN <<"page", m, Fonts(b)>> ELSE <<"file", m>> : m \in Medium(b)}
NamesOf(S) == {<<"file", f>> : f \in S}
PostersOf(b) == IF HasVideo(b) THEN {<<"poster", m>> : m \in Medium(b) \cap posters} ELSE {}
Tracks(b) == b.files \cap Owns[b.of].tracks

(* render_document or render_markdown, and a localized page itself. *)
Links(b) ==
    CASE b.kind \in {"container", "empty"} -> {}
      [] b.kind = "video" -> NameOfMedium(b) \cup PostersOf(b)
                                \cup (IF export.html THEN NamesOf(Tracks(b)) ELSE {})
      [] b.kind = "posts" -> NameOfMedium(b) \cup (IF export.html THEN {} ELSE PostersOf(b))
      [] b.kind = "page" -> NameOfMedium(b) \cup (IF b.localized THEN NamesOf(Fonts(b)) ELSE {})
      [] OTHER -> NameOfMedium(b)

(* A slip: the files next to the body are left out for members. *)
BodyAssets(b) ==
    IF Contains(kept, b.of) THEN NameOfMedium(b) \cup PostersOf(b) \cup NamesOf(Tracks(b) \cup Fonts(b))
    ELSE NameOfMedium(b) \cup PostersOf(b)
Assets(b) ==
    (IF b.kind \in {"container", "empty"} THEN {} ELSE NameOfMedium(b) \cup PostersOf(b))
        \cup NamesOf(Tracks(b) \cup Fonts(b))

(* One folder, or one for each kept entry. *)
Folder(b) ==
    IF export.together \/ Len(kept) = 1 THEN 1
    ELSE CHOOSE i \in DOMAIN kept : kept[i] = (IF Contains(kept, b.of) THEN b.of ELSE ContainerOf[b.of])

(* One asset after the other, in an order that is given by what they are. *)
ToPack == UNION {{Folder(loaded[i])} \X Assets(loaded[i]) : i \in DOMAIN loaded}
PackAsset ==
    /\ export.at = "pack" /\ UNCHANGED library
    /\ LET x == CHOOSE y \in ToPack \ zip : TRUE
       IN  /\ ToPack \ zip # {}
           /\ IF x[2][1] = "file" /\ x[2][2] \notin onDisk
              THEN Refuse
              ELSE zip' = zip \cup {x} /\ UNCHANGED <<export, queue, kept, counted, loaded, posters>>
FinishExport ==
    /\ export.at = "pack" /\ ToPack \subseteq zip /\ Goes("done")
    /\ UNCHANGED <<library, queue, kept, counted, loaded, posters, zip>>

----------------------------------------------------------------------------
(* Meanwhile: deletions, changes of collections, and the cleanup. *)
Upset ==
    /\ export.at # "idle" /\ upsets < MaxUpsets /\ upsets' = upsets + 1
    /\ UNCHANGED <<export, queue, kept, counted, loaded, posters, zip>>
DeleteItem(e) ==
    /\ Upset /\ alive' = alive \ ({e} \cup Members(e))
    /\ disturbed' = disturbed \cup (Item \ alive') /\ UNCHANGED <<shelved, onDisk, sighted>>
Reshelve(S) ==
    /\ Upset /\ shelved' = S
    /\ sighted' = sighted \cup {e \in Item : SeenWith(S, e)}
    /\ disturbed' = disturbed \cup {e \in Item : ~SeenWith(S, e)} /\ UNCHANGED <<alive, onDisk>>
RemoveFiles ==
    /\ Upset /\ onDisk' = onDisk \cap UNION {FilesOf(e) : e \in alive}
    /\ UNCHANGED <<alive, shelved, sighted, disturbed>>

ExportsNext ==
    \/ AskExport \/ CheckItem \/ LookUpItem \/ LoadItem \/ LocalizeFonts
    \/ GeneratePosters \/ PackAsset \/ FinishExport \/ RemoveFiles
    \/ \E e \in alive : DeleteItem(e) \/ Reshelve(shelved \ {e}) \/ Reshelve(shelved \cup {e})
ExportsSpec == ExportsInit /\ [][ExportsNext]_exportVars

----------------------------------------------------------------------------
(* Properties. *)

ExportsTypeOK ==
    /\ alive \subseteq Item /\ shelved \subseteq Item /\ onDisk \subseteq Files
    /\ export.at \in ExportPlace /\ queue \in Seq(Item) /\ kept \in Seq(Item)
    /\ counted \subseteq Item /\ posters \subseteq Files
    /\ \A i \in DOMAIN loaded : loaded[i].of \in Item /\ loaded[i].files \subseteq Files

(* What a finished export links to, from its documents or from a page in it, *)
(* is in the same folder of the ZIP: an export under which files disappear   *)
(* fails and is never short of one (assemble_html, assemble_markdown,        *)
(* write_zip_multi).                                                         *)
ZipIsClosed ==
    export.at = "done" =>
        \A i \in DOMAIN loaded : {Folder(loaded[i])} \X Links(loaded[i]) \subseteq zip

(* An entry that was asked for, and there and in sight all along, is shown   *)
(* once, whatever was asked for twice or together with its container; and    *)
(* nothing is shown that the caller could at no time see (export_entries).   *)
AskedIsShown ==
    export.at = "done" =>
        /\ \A e \in ToSet(export.asked) \ disturbed :
              \E i \in DOMAIN loaded :
                /\ loaded[i].of = e
                /\ Owns[e].media # {} /\ Members(e) = {} => loaded[i].kind = Owns[e].kind
        /\ \A i, j \in DOMAIN loaded : loaded[i].of = loaded[j].of => i = j
        /\ \A i \in DOMAIN loaded : loaded[i].of \in sighted
=============================================================================
