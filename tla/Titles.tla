-------------------------------- MODULE Titles --------------------------------
(***************************************************************************)
(* Who may change the title of an entry, while others do: renames, titles  *)
(* a provider makes for threads (routes.rs, thread_title.rs), of which the *)
(* codex program is the one with attempts of its own (summarizer.rs), and  *)
(* the rewrite of the titles of X articles before the server listens       *)
(* (capture.rs), while entries are captured and deleted and their rowids   *)
(* handed out again.                                                       *)
(*                                                                         *)
(* A title is what wrote it and what it was made of.                       *)
(***************************************************************************)
EXTENDS Naturals, FiniteSets, FiniteSetsExt, Sequences, SequencesExt

CONSTANTS
    Titled,         \* uids of entries
    Tweet,          \* tweets that are articles
    Asker,          \* requests for a title that may be under way at once
    MaxNames,       \* bound: renames
    MaxAsks,        \* bound: requests for a title
    MaxRestarts     \* bound: crashes of the server

ASSUME TitlesAssumption ==
    /\ IsFiniteSet(Titled) /\ MaxNames \in Nat /\ MaxAsks \in Nat /\ MaxRestarts \in Nat

VARIABLES
    shelf,      \* [Titled -> <<>> or <<[id, tweet, title]>>]: archived_entries; a thread has no tweet
    shelvedEver,\* uids ever archived
    scan,       \* the rewrite: [at, rows]; "serving" once it is over
    ask,        \* [Asker -> Ask]: requests for a title
    names, asks, restarts,
    wanted,     \* history: [Titled -> what its readers last made of its title, or "none"]
    litter      \* history: files of codex left in the temp directory

titleVars == <<shelf, shelvedEver, scan, ask, names, asks, restarts, wanted, litter>>

Serving == scan.at = "serving"
NotTweet == "thread"
EntryRow(u) == shelf[u][1]
OnShelf == {u \in Titled : shelf[u] # <<>>}
NextRowid == IF OnShelf = {} THEN 1 ELSE Max({EntryRow(u).id : u \in OnShelf}) + 1
Retitle(u, title) == [shelf EXCEPT ![u][1].title = title]

NotAsking == [at |-> "idle", uid |-> "none", id |-> 0, file |-> "none", answer |-> "none", of |-> "none"]
NotScanning == [at |-> "start", rows |-> {}]

----------------------------------------------------------------------------
(* Entries.                                                                *)

\* An article was captured before its title was known to be one, and now is given it at once.
Shelve(u) ==
    /\ u \notin shelvedEver
    /\ \E t \in Tweet \cup {NotTweet} :
         shelf' = [shelf EXCEPT ![u] = <<[id |-> NextRowid, tweet |-> t, title |-> <<"article", t>>]>>]
    /\ shelvedEver' = shelvedEver \cup {u}
    /\ UNCHANGED <<scan, ask, names, asks, restarts, wanted, litter>>
Unshelve(u) ==
    /\ u \in OnShelf /\ Serving
    /\ shelf' = [shelf EXCEPT ![u] = <<>>]
    /\ UNCHANGED <<shelvedEver, scan, ask, names, asks, restarts, wanted, litter>>

\* patch_entry_handler: an empty name takes the title away; a name may be a link, even the one it was.
Readers(u) ==
    {<<"named", "reader">>, <<"none", "reader">>, <<"link", "reader">>, <<"legacy", EntryRow(u).tweet>>}
NameEntry(u) ==
    /\ u \in OnShelf /\ names < MaxNames /\ Serving
    /\ \E title \in Readers(u) :
         /\ shelf' = Retitle(u, title)
         /\ wanted' = [wanted EXCEPT ![u] = title]
    /\ names' = names + 1
    /\ UNCHANGED <<shelvedEver, scan, ask, asks, restarts, litter>>

----------------------------------------------------------------------------
(* backfill_x_article_titles.                                              *)

ListBareLinks ==
    /\ scan.at = "start"
    /\ scan' = [at |-> "rewrite",
                rows |-> {EntryRow(u) : u \in {v \in OnShelf : EntryRow(v).title[1] \in {"legacy", "link"}}}]
    /\ UNCHANGED <<shelf, shelvedEver, ask, names, asks, restarts, wanted, litter>>

\* A slip in it: every link is taken for the one an article began with.
AnyLink(row) == {u \in OnShelf : EntryRow(u).id = row.id}
StillLegacy(row) ==
    {u \in OnShelf : EntryRow(u).id = row.id /\ EntryRow(u).title = row.title /\ row.title = <<"legacy", row.tweet>>}
RewriteTitle(row) ==
    /\ scan.at = "rewrite" /\ row \in scan.rows
    /\ shelf' = [u \in Titled |-> IF u \in StillLegacy(row)
                                  THEN <<[EntryRow(u) EXCEPT !.title = <<"article", row.tweet>>]>> ELSE shelf[u]]
    /\ scan' = [scan EXCEPT !.rows = @ \ {row}]
    /\ UNCHANGED <<shelvedEver, ask, names, asks, restarts, wanted, litter>>
\* The JSON of the tweet cannot be read: the next start tries again.
SkipTitle(row) ==
    /\ scan.at = "rewrite" /\ row \in scan.rows
    /\ scan' = [scan EXCEPT !.rows = @ \ {row}]
    /\ UNCHANGED <<shelf, shelvedEver, ask, names, asks, restarts, wanted, litter>>
StartServing ==
    /\ scan.at = "rewrite" /\ scan.rows = {}
    /\ scan' = [scan EXCEPT !.at = "serving"]
    /\ UNCHANGED <<shelf, shelvedEver, ask, names, asks, restarts, wanted, litter>>

----------------------------------------------------------------------------
(* generate_thread_title_handler, with codex.                              *)

Asking(r, at) == ask[r].at = at
AskIs(r, a) == /\ ask' = [ask EXCEPT ![r] = a]
               /\ UNCHANGED <<shelf, shelvedEver, scan, names, restarts, wanted>>

\* The rowid is looked up, and what hangs on it read afterwards.
LookUpThread(r) ==
    /\ Asking(r, "idle") /\ asks < MaxAsks /\ Serving
    /\ \E u \in OnShelf :
         /\ EntryRow(u).tweet = NotTweet
         /\ AskIs(r, [ask[r] EXCEPT !.at = "read", !.uid = u, !.id = EntryRow(u).id])
    /\ asks' = asks + 1 /\ UNCHANGED litter
\* A thread has text; without any the request is refused.
ReadThread(r) ==
    /\ Asking(r, "read")
    /\ LET found == {u \in OnShelf : EntryRow(u).id = ask[r].id}
       IN  AskIs(r, IF found = {} THEN NotAsking
                    ELSE [ask[r] EXCEPT !.at = "primary", !.of = CHOOSE u \in found : TRUE])
    /\ UNCHANGED <<asks, litter>>

\* What is in the file once an attempt that wrote, or nothing, is over.
Outcomes == {"nothing", "blank", "text"}
FileOf(r, wrote, attempt) == IF wrote = "text" THEN attempt ELSE IF wrote = "blank" THEN "blank" ELSE ask[r].file

\* A slip in it: only an attempt that succeeded takes its file with it.
KeptFile(file) == file
CleanedFile(file) == "none"

\* An attempt that fails may have written as well.
PrimaryAnswers(r) ==
    /\ Asking(r, "primary")
    /\ AskIs(r, [ask[r] EXCEPT !.at = "save", !.answer = "primary", !.file = "none"])
    /\ UNCHANGED <<asks, litter>>
PrimaryFails(r) ==
    /\ Asking(r, "primary")
    /\ \E wrote \in Outcomes :
         AskIs(r, [ask[r] EXCEPT !.at = "fallback", !.file = CleanedFile(FileOf(r, wrote, "primary"))])
    /\ UNCHANGED <<asks, litter>>
\* With nothing in the file the program's output is taken; a reply of no use is refused.
FallbackAnswers(r) ==
    /\ Asking(r, "fallback")
    /\ \E wrote \in Outcomes :
         LET file == FileOf(r, wrote, "fallback")
         IN  AskIs(r, [ask[r] EXCEPT !.at = "save", !.file = "none",
                                     !.answer = IF file \in {"none", "blank"} THEN "output" ELSE file])
    /\ UNCHANGED <<asks, litter>>
FallbackFails(r) ==
    /\ Asking(r, "fallback")
    /\ AskIs(r, NotAsking)
    /\ UNCHANGED <<asks, litter>>
RefuseReply(r) ==
    /\ Asking(r, "save") /\ AskIs(r, NotAsking)
    /\ UNCHANGED <<asks, litter>>

\* A slip in it: the title goes to the row whose id was looked up.
RowOfId(r) == {u \in OnShelf : EntryRow(u).id = ask[r].id}
RowOfUid(r) == {u \in OnShelf : u = ask[r].uid}
SaveTitle(r) ==
    /\ Asking(r, "save")
    /\ LET title == <<"made", ask[r].of>>
       IN  /\ shelf' = [u \in Titled |-> IF u \in RowOfUid(r)
                                         THEN <<[EntryRow(u) EXCEPT !.title = title]>> ELSE shelf[u]]
           /\ wanted' = [u \in Titled |-> IF u = ask[r].uid /\ u \in OnShelf THEN title ELSE wanted[u]]
    /\ ask' = [ask EXCEPT ![r] = NotAsking]
    /\ UNCHANGED <<shelvedEver, scan, names, asks, restarts, litter>>

RestartTitles ==
    /\ restarts < MaxRestarts
    /\ restarts' = restarts + 1
    /\ litter' = litter \cup {r \in Asker : ask[r].at \in {"primary", "fallback"}}
    /\ ask' = [r \in Asker |-> NotAsking]
    /\ scan' = NotScanning
    /\ UNCHANGED <<shelf, shelvedEver, names, asks, wanted>>

TitlesInit ==
    /\ shelf \in [Titled -> {<<>>, <<[id |-> 1, tweet |-> NotTweet, title |-> <<"first", NotTweet>>]>>}
                              \cup {<<[id |-> 1, tweet |-> t, title |-> <<"legacy", t>>]>> : t \in Tweet}]
    /\ Cardinality(OnShelf) <= 1
    /\ shelvedEver = OnShelf
    /\ scan = NotScanning
    /\ ask = [r \in Asker |-> NotAsking]
    /\ names = 0 /\ asks = 0 /\ restarts = 0
    /\ wanted = [u \in Titled |-> <<"unset", "reader">>] /\ litter = {}

TitlesNext ==
    \/ \E u \in Titled : Shelve(u) \/ Unshelve(u) \/ NameEntry(u)
    \/ ListBareLinks \/ StartServing \/ \E row \in scan.rows : RewriteTitle(row) \/ SkipTitle(row)
    \/ \E r \in Asker : LookUpThread(r) \/ ReadThread(r) \/ PrimaryAnswers(r) \/ PrimaryFails(r)
                        \/ FallbackAnswers(r) \/ FallbackFails(r) \/ RefuseReply(r) \/ SaveTitle(r)
    \/ RestartTitles

TitlesTypeOK ==
    /\ shelvedEver \subseteq Titled /\ OnShelf \subseteq shelvedEver
    /\ \A u \in OnShelf : EntryRow(u).tweet \in Tweet \cup {NotTweet} /\ EntryRow(u).id \in 1..Cardinality(Titled)
    /\ \A r \in Asker : ask[r].file \in {"none", "blank", "primary", "fallback"}
    /\ litter \subseteq Asker

----------------------------------------------------------------------------
(* What has to hold.                                                       *)

(* What its readers made of a title stands across the rewrites of later      *)
(* starts, even if it is a link; but for the very link an article began with *)
(* (backfill_x_article_titles).                                              *)
NamesStand == \A u \in OnShelf : wanted[u][1] \in {"unset", "legacy"} \/ EntryRow(u).title = wanted[u]

(* A title made of an article or of a thread is that of the entry's own, even *)
(* though rowids are looked up first and handed out again                    *)
(* (load_thread_title_input, backfill_x_article_titles).                     *)
TitlesAreOfTheirEntry ==
    \A u \in OnShelf : /\ EntryRow(u).title[1] = "article" => EntryRow(u).title[2] = EntryRow(u).tweet
                       /\ EntryRow(u).title[1] = "made" => EntryRow(u).title[2] = u

(* An answer of codex is that of the attempt that succeeded, and no file of  *)
(* it is left behind, except by a crash (codex::run).                        *)
AnswersAreOfTheirAttempt ==
    /\ \A r \in Asker : ask[r].at \in {"idle", "save"} => ask[r].file = "none"
    /\ \A r \in Asker : ask[r].at = "fallback" => ask[r].file = "none"
    /\ litter # {} => restarts > 0

(* Titles are those of their entries, and their readers' before any other.   *)
TitlesStand == NamesStand /\ TitlesAreOfTheirEntry /\ AnswersAreOfTheirAttempt
=============================================================================
