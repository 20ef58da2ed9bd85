-------------------------------- MODULE Pages --------------------------------
(***************************************************************************)
(* Captures of web pages by the server: single-file saves a page, images   *)
(* it left out are fetched, the embedded fonts are taken out into raw/ and *)
(* the page refers to them by their hash, so that pages share them.  Files *)
(* of fonts are written in place, not staged and renamed, and a file that  *)
(* exists is taken to be whole.                                            *)
(*                                                                         *)
(* Freedium is a mirror that some hosts are fetched through.               *)
(***************************************************************************)
EXTENDS Naturals, Sequences, FiniteSets

CONSTANTS
    Page,           \* captures of pages, each of an entry of its own
    Font,
    MaxPageFaults   \* bound: writes and statements that fail, crashes

ASSUME PagesAssumption == MaxPageFaults \in Nat

VARIABLES
    pageAt,     \* [Page -> PagePlace]
    via,        \* [Page -> {"site", "mirror"}]: where it is fetched from
    sent,       \* [Page -> SUBSET Host]: hosts that saw cookies of the site
    seeded,     \* [Page -> BOOLEAN]: the storage of the site was handed over
    embedded,   \* [Page -> Seq(Font)]: occurrences of fonts still to look at
    refers,     \* [Page -> SUBSET Font]: fonts the page refers to in raw/
    fontFile,   \* [Font -> {"absent", "partial", "whole"}]
    fontRows,   \* SUBSET Font: fonts with a blob row
    artifacts,  \* SUBSET (Page \X Font)
    pages,      \* SUBSET Page: the entries there are
    harmed,     \* ghost, SUBSET Font: a step about it failed or was cut off
    pageFaults

pageVars == <<pageAt, via, sent, seeded, embedded, refers, fontFile, fontRows, artifacts, pages,
              harmed, pageFaults>>

Host == {"site", "mirror", "elsewhere"}
PagePlace == {"idle", "browse", "images", "fonts", "writing", "store", "register", "done", "failed", "gone"}
Active(p) == pageAt[p] \notin {"idle", "done", "failed", "gone"}

PagesInit ==
    /\ pageAt = [p \in Page |-> "idle"] /\ via \in [Page -> {"site", "mirror"}]
    /\ sent = [p \in Page |-> {}] /\ seeded = [p \in Page |-> FALSE]
    /\ embedded = [p \in Page |-> <<>>] /\ refers = [p \in Page |-> {}]
    /\ fontFile = [f \in Font |-> "absent"] /\ fontRows = {} /\ artifacts = {}
    /\ pages = {} /\ harmed = {} /\ pageFaults = 0

PageMoves(p, s, t) == pageAt[p] = s /\ pageAt' = [pageAt EXCEPT ![p] = t]
PageFault == pageFaults < MaxPageFaults /\ pageFaults' = pageFaults + 1
Harms(F) == harmed' = harmed \cup F

----------------------------------------------------------------------------
(* The mirror gets an empty cookie jar and no storage: an item of it seeds   *)
(* the page's own origin only.                                               *)
CookiesFor(p) == IF via[p] = "mirror" THEN {} ELSE {"site"}

BeginPage(p) ==
    /\ PageMoves(p, "idle", "browse")
    /\ UNCHANGED <<via, sent, seeded, embedded, refers, fontFile, fontRows, artifacts, pages, harmed, pageFaults>>

(* single-file ends with a page, with any fonts in it, or not at all. *)
SavePage(p) ==
    /\ sent' = [sent EXCEPT ![p] = @ \cup CookiesFor(p)]
    /\ seeded' = [seeded EXCEPT ![p] = via[p] = "site"]
    /\ \/ PageMoves(p, "browse", "images")
          /\ \E F \in UNION {[1..n -> Font] : n \in 0..2} :
                embedded' = [embedded EXCEPT ![p] = F]
       \/ PageMoves(p, "browse", "failed") /\ UNCHANGED embedded
    /\ UNCHANGED <<via, refers, fontFile, fontRows, artifacts, pages, harmed, pageFaults>>

(* A slip: any image gets the cookies. *)
AnyHost(p, h) == TRUE
SameHost(p, h) == h = via[p]

(* An image that cannot be fetched is left out. *)
InlineImages(p) ==
    /\ PageMoves(p, "images", "fonts")
    /\ \E H \in SUBSET Host :
        sent' = [sent EXCEPT ![p] = @ \cup
                    {h \in H : CookiesFor(p) # {} /\ SameHost(p, h)}]
    /\ UNCHANGED <<via, seeded, embedded, refers, fontFile, fontRows, artifacts, pages, harmed, pageFaults>>

----------------------------------------------------------------------------
(* extract_and_rewrite, one occurrence after the other. *)
NextFont(p) == Head(embedded[p])
Consumed(p) == embedded' = [embedded EXCEPT ![p] = Tail(@)]

(* A font that is in raw/ is only referred to. *)
FindFont(p) ==
    /\ pageAt[p] = "fonts" /\ embedded[p] # <<>> /\ fontFile[NextFont(p)] # "absent"
    /\ refers' = [refers EXCEPT ![p] = @ \cup {NextFont(p)}] /\ Consumed(p)
    /\ UNCHANGED <<pageAt, via, sent, seeded, fontFile, fontRows, artifacts, pages, harmed, pageFaults>>
OpenFont(p) ==
    /\ embedded[p] # <<>> /\ fontFile[NextFont(p)] = "absent"
    /\ PageMoves(p, "fonts", "writing")
    /\ fontFile' = [fontFile EXCEPT ![NextFont(p)] = "partial"]
    /\ UNCHANGED <<via, sent, seeded, embedded, refers, fontRows, artifacts, pages, harmed, pageFaults>>

(* If the write fails this occurrence stays in the page. *)
WriteFont(p) ==
    /\ PageMoves(p, "writing", "fonts") /\ Consumed(p)
    /\ \/ /\ fontFile' = [fontFile EXCEPT ![NextFont(p)] = "whole"]
          /\ refers' = [refers EXCEPT ![p] = @ \cup {NextFont(p)}]
          /\ UNCHANGED <<harmed, pageFaults>>
       \/ PageFault /\ Harms({NextFont(p)}) /\ UNCHANGED <<fontFile, refers>>
    /\ UNCHANGED <<via, sent, seeded, fontRows, artifacts, pages>>

(* The page is written again, hashed, moved into raw/, and recorded. *)
StorePage(p) ==
    /\ embedded[p] = <<>>
    /\ \/ /\ PageMoves(p, "fonts", "store") /\ pages' = pages \cup {p}
          /\ UNCHANGED <<harmed, pageFaults>>
       \/ /\ PageMoves(p, "fonts", "failed") /\ pages' \in {pages, pages \cup {p}}
          /\ PageFault /\ Harms(refers[p])
    /\ UNCHANGED <<via, sent, seeded, embedded, refers, fontFile, fontRows, artifacts>>

(* Each font gets its row and its artifact; an error is passed over. *)
RegisterFonts(p) ==
    /\ PageMoves(p, "store", "register")
    /\ \/ /\ fontRows' = fontRows \cup refers[p]
          /\ artifacts' = artifacts \cup (IF p \in pages THEN {p} \X refers[p] ELSE {})
          /\ UNCHANGED <<harmed, pageFaults>>
       \/ \E f \in refers[p] :
            /\ PageFault /\ Harms({f})
            /\ \/ fontRows' = fontRows \cup refers[p]
               \/ fontRows' = fontRows \cup (refers[p] \ {f})
            /\ artifacts' = artifacts \cup (IF p \in pages THEN {p} \X (refers[p] \ {f}) ELSE {})
    /\ UNCHANGED <<via, sent, seeded, embedded, refers, fontFile, pages>>
FinishPage(p) ==
    /\ \/ PageMoves(p, "register", "done") /\ UNCHANGED pageFaults
       \/ PageMoves(p, "register", "failed") /\ PageFault
    /\ UNCHANGED <<via, sent, seeded, embedded, refers, fontFile, fontRows, artifacts, pages, harmed>>

----------------------------------------------------------------------------
(* delete_entry, and the cleanup, which waits for captures to end; the     *)
(* window between its check and its work is in BlobStore.                  *)
WithoutCascade(p) == artifacts
Cascaded(p) == {a \in artifacts : a[1] # p}
DeletePage(p) ==
    /\ p \in pages /\ pages' = pages \ {p} /\ artifacts' = Cascaded(p)
    /\ UNCHANGED <<pageAt, via, sent, seeded, embedded, refers, fontFile, fontRows, harmed, pageFaults>>

(* A slip: a font goes with the first page that had it. *)
NotInEvery(f) == \E p \in Page : <<p, f>> \notin artifacts
Unreferenced(f) == \A p \in pages : <<p, f>> \notin artifacts
CleanFonts ==
    /\ \A p \in Page : ~Active(p)
    /\ LET dead == {f \in Font : Unreferenced(f)}
       IN  /\ fontRows' = fontRows \ dead
           /\ fontFile' = [f \in Font |-> IF f \in dead THEN "absent" ELSE fontFile[f]]
    /\ UNCHANGED <<pageAt, via, sent, seeded, embedded, refers, artifacts, pages, harmed, pageFaults>>

(* The server dies: what is half written stays so. *)
CrashPages ==
    /\ PageFault
    /\ pageAt' = [p \in Page |-> IF Active(p) THEN "gone" ELSE pageAt[p]]
    /\ Harms({f \in Font : fontFile[f] = "partial"} \cup UNION {refers[p] : p \in {q \in Page : Active(q)}})
    /\ UNCHANGED <<via, sent, seeded, embedded, refers, fontFile, fontRows, artifacts, pages>>

PagesNext ==
    \/ \E p \in Page :
        \/ BeginPage(p) \/ SavePage(p) \/ InlineImages(p)
        \/ FindFont(p) \/ OpenFont(p) \/ WriteFont(p)
        \/ StorePage(p) \/ RegisterFonts(p) \/ FinishPage(p) \/ DeletePage(p)
    \/ CleanFonts \/ CrashPages
PagesSpec == PagesInit /\ [][PagesNext]_pageVars

----------------------------------------------------------------------------
(* Properties. *)

PagesTypeOK ==
    /\ pageAt \in [Page -> PagePlace] /\ sent \in [Page -> SUBSET Host] /\ seeded \in [Page -> BOOLEAN]
    /\ \A p \in Page : Len(embedded[p]) <= 2
    /\ refers \in [Page -> SUBSET Font] /\ fontFile \in [Font -> {"absent", "partial", "whole"}]
    /\ fontRows \subseteq Font /\ artifacts \subseteq pages \X Font /\ pages \subseteq Page

(* A page that was captured and not deleted finds each font it refers to,    *)
(* whole and under a row of its own, whoever wrote the font, whichever pages *)
(* were deleted and cleaned up since: but for a font about which a write, a  *)
(* statement or the server failed (extract_and_rewrite, perform_capture).    *)
PagesKeepTheirFonts ==
    \A p \in Page, f \in Font :
        p \in pages /\ pageAt[p] = "done" /\ f \in refers[p] \ harmed =>
            /\ <<p, f>> \in artifacts /\ f \in fontRows
            /\ fontFile[f] = "whole" \/ \E q \in Page : pageAt[q] = "writing" /\ NextFont(q) = f

(* Cookies and storage of a site reach that site only, not the mirror it is  *)
(* read through, nor the hosts of its images (save_with,                     *)
(* same_origin_cookie_header).                                               *)
SecretsStayHome ==
    \A p \in Page :
        /\ sent[p] \subseteq {"site"}
        /\ via[p] = "mirror" => sent[p] = {} /\ ~seeded[p]
=============================================================================
