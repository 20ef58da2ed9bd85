----------------------------- MODULE MCBlobStore -----------------------------
(***************************************************************************)
(* Small instances of the store, and of what is put into it and taken out  *)
(* of it: pages with their fonts, exports, threads, and what is fetched    *)
(* with which cookies.  The components share no state, so that a behaviour *)
(* moves one of them, the focus, and the others rest where they began.     *)
(* The writers of a behaviour of the store are those of one mix.           *)
(***************************************************************************)
EXTENDS BlobStore, Pages, Exports, Threads, Sources, TLC

CONSTANTS w1, w2, w3, w4, w5, k1,
    f1, f2, f3, b1, b2,             \* files, and fonts; rowids, pages, and administrators' requests
    box, clip, page, lone,          \* entries to export
    m1, m2, t1, fo,                 \* their media, tracks and fonts
    Mixes,                          \* the sets of writers that run together
    Foci

VARIABLES focus, mix

Kinds == (w1 :> "capture") @@ (w2 :> "cli") @@ (w3 :> "subtitle")
         @@ (w4 :> "tweet") @@ (w5 :> "rearchive")

(* A server capture next to a command line capture; a subtitle fetch for the *)
(* entry of a capture; a re-archive of a tweet.                              *)
AllKinds == {{w1, w2}, {w1, w3}, {w4, w5}}
TwoCaptures == {{w1, w4}}

(* One content under two extensions, and another content. *)
TwoExtensions == (f1 :> 1) @@ (f2 :> 1) @@ (f3 :> 2)

(* A container of a video and of a page, and posts that stand alone. *)
Boxed == (clip :> box) @@ (page :> box)
Owned ==
    (box :> [kind |-> "file", media |-> {}, tracks |-> {}, fonts |-> {}])
        @@ (clip :> [kind |-> "video", media |-> {m1}, tracks |-> {t1}, fonts |-> {}])
        @@ (page :> [kind |-> "page", media |-> {m2}, tracks |-> {}, fonts |-> {fo}])
        @@ (lone :> [kind |-> "posts", media |-> {m1}, tracks |-> {}, fonts |-> {}])

(* The extensions and the rowids are interchangeable, and so are the fonts,  *)
(* the pages and the requests that bear their names.                         *)
Symmetry == Permutations({f1, f2}) \cup Permutations({b1, b2})

(* Two captures fetch the same file, or two of one content, or two contents. *)
(* Next to the command line they fetch the same, and the server does not     *)
(* crash: the command line may be killed.                                    *)
WithinMix ==
    /\ \A w \in Writer \ mix : pc[w] = "idle"
    /\ w2 \in mix => up /\ (None \in {file[w1], file[w2]} \/ file[w1] = file[w2])

(* The thread of a component that is not the focus, or of a tweet; otherwise *)
(* the last post is among the earliest.                                      *)
Chain ==
    /\ replyTo = [p \in Post |-> p - 1] /\ madeAt = [p \in Post |-> 0] /\ seed \in {1, Nobody}
    /\ kind = "tweet"
Known == kind = "thread" /\ madeAt \in {m \in [Post -> 0..1] : m[MaxPost] = 0}

MixVars == <<vars, pageVars, exportVars, threadVars, sourceVars, focus, mix>>
Rests(components, variables) == IF focus \in components THEN TRUE ELSE UNCHANGED variables

(* What is not the focus begins in one state. *)
Only(components, state) == IF focus \in components THEN TRUE ELSE state
MixInit ==
    /\ focus \in Foci /\ mix \in Mixes /\ Only({"store"}, mix = CHOOSE m \in Mixes : TRUE) /\ Init
    /\ Only({"pages"}, via = [p \in Page |-> "site"]) /\ PagesInit
    /\ Only({"exports"}, shelved = Item) /\ ExportsInit /\ lone \in shelved
    /\ Only({"sources"}, session = <<>> /\ requested \in {Web("medium", "page"), Web("other", "page")})
    /\ Only({"sources", "cookies"}, requested = Web("other", "page")) /\ SourcesInit
    /\ Only({"threads"}, Chain /\ seed = 1)
    /\ (IF focus = "threads" THEN Known \/ Chain ELSE TRUE) /\ ThreadsInit

(* The rules of a behaviour about sources do not change; those of one about  *)
(* cookies stop to once the capture has copied them.                         *)
MixNext ==
    /\ UNCHANGED <<focus, mix>>
    /\ Rests({"store"}, vars) /\ Rests({"pages"}, pageVars) /\ Rests({"exports"}, exportVars)
    /\ Rests({"threads"}, threadVars) /\ Rests({"sources", "cookies"}, sourceVars)
    /\ \/ focus = "store" /\ Next /\ WithinMix'
       \/ focus = "pages" /\ PagesNext
       \/ focus = "exports" /\ ExportsNext
       \/ focus = "threads" /\ ThreadsNext
       \/ focus = "sources" /\ UNCHANGED ruleVars /\ SourcesNext
       \/ focus = "cookies" /\ (IF fetchJob.at = "none" THEN TRUE ELSE UNCHANGED ruleVars) /\ SourcesNext
MixSpec == MixInit /\ [][MixNext]_MixVars

(* A component at rest is where it began, so that only the focus is asked.   *)
In(components, promise) == IF focus \in components THEN promise ELSE TRUE

(* Every variable of every component keeps its type. *)
StoreTypeOK ==
    /\ In({"store"}, TypeOK) /\ In({"pages"}, PagesTypeOK) /\ In({"exports"}, ExportsTypeOK)
    /\ In({"threads"}, ThreadsTypeOK) /\ In({"sources", "cookies"}, SourcesTypeOK)

(* What is fetched is what was asked for, with the cookies that are meant    *)
(* for it, and secrets stay with the site they are of (Pages, Sources).      *)
FetchedAsMeant ==
    /\ In({"pages"}, SecretsStayHome) /\ In({"sources", "cookies"}, SourcesAgree)

(* Pages keep the fonts they refer to, exports hold what was asked for and   *)
(* lack nothing they name, threads show every post once (Pages, Exports,     *)
(* Threads).                                                                 *)
ShownIsWhole ==
    /\ In({"pages"}, PagesKeepTheirFonts) /\ In({"exports"}, ZipIsClosed /\ AskedIsShown)
    /\ In({"threads"}, ThreadIsWhole)
=============================================================================
