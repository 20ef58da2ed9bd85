------------------------------- MODULE Sources -------------------------------
(***************************************************************************)
(* What a locator is taken for, and how a capture gets from it to what is  *)
(* fetched: the classification and the expansion of locators (capture.rs), *)
(* the guess the capture dialog makes before it asks the server            *)
(* (CaptureDialog.jsx), the probes (routes.rs), the rules that say which   *)
(* cookies go where, as administrators edit them and as a capture finds    *)
(* them, and the browser session a capture may bring along                 *)
(* (browser_session.rs).                                                   *)
(*                                                                         *)
(* A locator is the scheme or host it begins with and the kind of thing    *)
(* its path names; ids, and what follows them, are left out.  Hosts with   *)
(* and without www. are one, and so are `yt:` and `youtube:`.  A rule sets *)
(* one cookie, the same for every rule, and its value is the rule.         *)
(***************************************************************************)
EXTENDS Naturals, Sequences, FiniteSets, FiniteSetsExt, SequencesExt, Ranking

CONSTANTS
    Editor,         \* administrators' requests that may be under way at once
    RuleHost,       \* hosts there are rules for
    SessionHost,    \* hosts browser sessions come from
    MaxRule,        \* bound: rules ever created
    MaxRuleEdits    \* bound: updates ever asked for

ASSUME SourcesAssumption == MaxRule \in Nat /\ MaxRuleEdits \in Nat /\ IsFiniteSet(Editor)

VARIABLES
    requested,  \* what is captured
    session,    \* the browser session sent along, or <<>>: <<[host, tls, stored]>>
    rules,      \* cookie_rules: a set of Rule
    born,       \* rules ever created
    ruleEdits,  \* updates ever asked for
    edit,       \* [Editor -> Edit]: requests about rules under way
    ruleAsked,  \* history: [1..MaxRule -> what the edits answered so far make of the rule]
    unseen,     \* history: rules with an update that another one came between
    fetchJob    \* the capture

ruleVars == <<rules, born, ruleEdits, edit, ruleAsked, unseen>>
sourceVars == <<requested, session, ruleVars, fetchJob>>

----------------------------------------------------------------------------
(* What locators are taken for.                                            *)

Tweets == [media |-> "X", badmedia |-> "Other", id |-> "Tweet", thread |-> "TweetThread", junk |-> "Other"]
ShortSources ==
    [yt |-> [video |-> "YouTubeVideo", id |-> "YouTubeVideo", playlist |-> "YouTubePlaylist",
             channel |-> "YouTubeChannel", junk |-> "Other"],
     ytm |-> [playlist |-> "YouTubeMusicPlaylist", id |-> "YouTubeMusicTrack"],
     spotify |-> [track |-> "SpotifyTrack", album |-> "SpotifyAlbum", playlist |-> "SpotifyPlaylist",
                  junk |-> "SpotifyTrack"],
     x |-> Tweets, twitter |-> Tweets, tweet |-> Tweets,
     instagram |-> [page |-> "Instagram"], facebook |-> [page |-> "Facebook"], tiktok |-> [page |-> "TikTok"],
     reddit |-> [page |-> "Reddit"], snapchat |-> [page |-> "Snapchat"]]
UrlSources ==
    [youtube |-> [video |-> "YouTubeVideo", playlist |-> "YouTubePlaylist", channel |-> "YouTubeChannel",
                  page |-> "Url"],
     music |-> [video |-> "YouTubeMusicTrack", playlist |-> "YouTubeMusicPlaylist", page |-> "Url"],
     spotify |-> [track |-> "SpotifyTrack", album |-> "SpotifyAlbum", playlist |-> "SpotifyPlaylist",
                  page |-> "Url"],
     x |-> [status |-> "Tweet", page |-> "X"], twitter |-> [status |-> "Url", page |-> "Url"],
     instagram |-> [page |-> "Instagram"], facebook |-> [page |-> "Facebook"], tiktok |-> [page |-> "TikTok"],
     reddit |-> [page |-> "Reddit"], snapchat |-> [page |-> "Snapchat"],
     medium |-> [page |-> "Url"], freedium |-> [page |-> "Url"], other |-> [page |-> "Url"]]

Short(s, p) == [form |-> "short", site |-> s, path |-> p, tls |-> TRUE]
Web(h, p) == [form |-> "url", site |-> h, path |-> p, tls |-> TRUE]
Bare(f) == [form |-> f, site |-> "none", path |-> "page", tls |-> TRUE]

Locator ==
    (UNION {{Short(s, p) : p \in DOMAIN ShortSources[s]} : s \in DOMAIN ShortSources})
        \cup (UNION {{[Web(h, p) EXCEPT !.tls = t] : p \in DOMAIN UrlSources[h], t \in BOOLEAN}
                        : h \in DOMAIN UrlSources})
        \cup {Bare("file"), Bare("path"), Bare("junk")}

\* Only https://x.com/ is looked for.
SourceOf(l) ==
    CASE l.form = "short" -> ShortSources[l.site][l.path]
      [] l.form = "url" -> IF l.site = "x" /\ ~l.tls THEN "Url" ELSE UrlSources[l.site][l.path]
      [] l.form \in {"file", "path"} -> "Local"
      [] OTHER -> "Other"

Sites == {"instagram", "facebook", "tiktok", "reddit", "snapchat"}
\* A slip in it: shorthands of single videos are left as they are.
ExpandLists(l) == IF l.path \in {"playlist", "channel", "album"} THEN Web(l.site, l.path) ELSE l

\* `twitter:media:ID` and `spotify:` with neither of the three kinds stay as they are.
Expand(l) ==
    IF l.form # "short" THEN l
    ELSE CASE l.site = "yt" /\ l.path # "junk" -> Web("youtube", IF l.path = "id" THEN "video" ELSE l.path)
           [] l.site = "ytm" -> Web("music", IF l.path = "id" THEN "video" ELSE l.path)
           [] l.site = "spotify" /\ l.path # "junk" -> Web("spotify", l.path)
           [] l.site \in {"x", "tweet"} /\ l.path = "media" -> Web("x", "status")
           [] l.site \in Sites -> Web(l.site, "page")
           [] OTHER -> l

SingleSources ==
    {"YouTubeVideo", "YouTubeMusicTrack", "X", "Instagram", "Facebook", "TikTok", "Reddit", "Snapchat"}
ListSources == {"YouTubePlaylist", "YouTubeChannel", "YouTubeMusicPlaylist", "SpotifyAlbum", "SpotifyPlaylist"}

\* locator_to_ytdlp_url, locator_to_playlist_url: what the probes hand to yt-dlp.
ProbeUrl(l) == IF SourceOf(l) \in SingleSources THEN {Expand(l)} ELSE {}
ListUrl(l) == IF SourceOf(l) \in ListSources THEN {Expand(l)} ELSE {}

\* isVideoSource, isPlaylistSource: what the dialog probes.
DialogProbes(l) ==
    \/ l.form = "short" /\ (l.site \in Sites \/ l.path \in {"video", "id", "media", "badmedia"})
       /\ ~(l.site \in {"x", "twitter", "tweet"} /\ l.path = "id")
    \/ /\ l.form = "url" /\ l.site \in Sites \cup {"youtube", "music", "x"}
       /\ l.path = "video" \/ l.site \in Sites \/ (l.site = "x" /\ l.path = "page")
DialogLists(l) ==
    /\ l.form \in {"short", "url"} /\ l.site \in {"yt", "ytm", "youtube", "music", "spotify"}
    /\ l.path \in {"playlist", "channel", "album"}

----------------------------------------------------------------------------
(* Cookie rules.                                                           *)

Rule == [id : 1..MaxRule, kind : {"global", "host"}, pattern : RuleHost \cup {"none"}, ord : 0..MaxRule]
Fields(r) == [kind |-> r.kind, pattern |-> r.pattern, ord |-> r.ord]
\* create_cookie_rule_handler takes a pattern with a global rule too.
Creatable == {f \in {"global", "host"} \X (RuleHost \cup {"none"}) : f[1] = "global" \/ f[2] # "none"}
UnsetRule == [kind |-> "global", pattern |-> "none", ord |-> 0]
NoEdit == [at |-> "idle", id |-> 0, old |-> UnsetRule, new |-> UnsetRule]

Late(r, s) == r.ord > s.ord \/ (r.ord = s.ord /\ r.id > s.id)
Ordered(rs) == SortedBy(rs, {x \in rs \X rs : Late(x[2], x[1])})

Applies(r, url) ==
    r.pattern = "none" \/ (r.kind # "global" /\ url.form = "url" /\ url.site = r.pattern)

\* A slip in it: the first rule that applies keeps its cookie.
Applying(rs, url) == {i \in DOMAIN rs : Applies(rs[i], url)}
FirstRuleWins(rs, url) == IF Applying(rs, url) = {} THEN 0 ELSE rs[Min(Applying(rs, url))].id

\* resolve_cookies_for_url: a rule takes the place of those before it.
JarFor(rs, url) == IF Applying(rs, url) = {} THEN 0 ELSE rs[Max(Applying(rs, url))].id

\* The next ordinal is looked up before the rule is inserted.
BeginCreate(e) ==
    /\ edit[e].at = "idle" /\ born < MaxRule
    /\ \E f \in Creatable :
         edit' = [edit EXCEPT ![e] =
             [NoEdit EXCEPT !.at = "insert", !.new = [kind |-> f[1], pattern |-> f[2],
                 ord |-> IF rules = {} THEN 0 ELSE Max({r.ord : r \in rules}) + 1]]]
    /\ born' = born + 1
    /\ UNCHANGED <<requested, session, rules, ruleEdits, ruleAsked, unseen, fetchJob>>
Created(f, id) == [id |-> id, kind |-> f.kind, pattern |-> f.pattern, ord |-> f.ord]
\* Rules are numbered as they are inserted.
EndCreate(e) ==
    /\ edit[e].at = "insert"
    /\ LET id == Min({i \in 1..MaxRule : ruleAsked[i] = <<>>})
       IN  /\ rules' = rules \cup {Created(edit[e].new, id)}
           /\ ruleAsked' = [ruleAsked EXCEPT ![id] = <<edit[e].new>>]
    /\ edit' = [edit EXCEPT ![e] = NoEdit]
    /\ UNCHANGED <<requested, session, born, ruleEdits, unseen, fetchJob>>

\* Fields the request leaves out keep the value that was read.
Kept(given, old) == IF given = <<>> THEN old ELSE given[1]
BeginUpdate(e) ==
    /\ edit[e].at = "idle" /\ ruleEdits < MaxRuleEdits
    /\ \E r \in rules, kind \in {<<>>, <<"global">>, <<"host">>},
          pattern \in {<<>>} \cup {<<p>> : p \in RuleHost \cup {"none"}}, ord \in {<<>>, <<0>>} :
         /\ kind # <<>> \/ pattern # <<>> \/ ord # <<>>
         /\ edit' = [edit EXCEPT ![e] =
                [at |-> "write", id |-> r.id, old |-> Fields(r),
                 new |-> [kind |-> Kept(kind, r.kind), pattern |-> Kept(pattern, r.pattern), ord |-> Kept(ord, r.ord)]]]
    /\ ruleEdits' = ruleEdits + 1
    /\ UNCHANGED <<requested, session, rules, born, ruleAsked, unseen, fetchJob>>

\* A slip in it: the fields that are kept are written back by what was sent alone.
WriteKind(e) == [edit[e].new EXCEPT !.pattern = edit[e].old.pattern]
Written(e) == edit[e].new

\* What an update asks of a rule: the fields in which it differs from what it read.
Amended(f, e) ==
    [k \in DOMAIN f |-> IF edit[e].new[k] # edit[e].old[k] THEN edit[e].new[k] ELSE f[k]]
EndUpdate(e) ==
    /\ edit[e].at = "write"
    /\ LET id == edit[e].id
           stored == {r \in rules : r.id = id}
       IN  /\ rules' = {IF r.id = id THEN Created(Written(e), id) ELSE r : r \in rules}
           /\ ruleAsked' = IF stored = {} THEN ruleAsked ELSE [ruleAsked EXCEPT ![id] = <<Amended(ruleAsked[id][1], e)>>]
           /\ unseen' = unseen \cup {r.id : r \in {s \in stored : Fields(s) # edit[e].old}}
    /\ edit' = [edit EXCEPT ![e] = NoEdit]
    /\ UNCHANGED <<requested, session, born, ruleEdits, fetchJob>>

DeleteRule(id) ==
    /\ \E r \in rules : r.id = id
    /\ rules' = {r \in rules : r.id # id}
    /\ UNCHANGED <<requested, session, born, ruleEdits, edit, ruleAsked, unseen, fetchJob>>

----------------------------------------------------------------------------
(* A capture.                                                              *)

NoFetch == [at |-> "none", rules |-> {}, source |-> "Other", jar |-> 0, url |-> Bare("junk"), tool |-> "none",
            sent |-> 0, seeded |-> FALSE]
BySession == MaxRule + 1

\* applies_to, storage_applies_to.
SessionFits ==
    \A s \in ToSet(session) :
        IF SourceOf(requested) \in {"Tweet", "TweetThread"} THEN s.host \in {"x", "twitter"}
        ELSE Expand(requested).form = "url" /\ Expand(requested).site = s.host
StorageFits ==
    \A s \in ToSet(session) : s.stored => requested.form = "url" /\ requested.site = s.host /\ requested.tls = s.tls

\* What is stored on disk is captured only as a staged upload.
SubmitCapture ==
    /\ fetchJob.at = "none" /\ requested.form # "path"
    /\ SessionFits /\ StorageFits
    /\ fetchJob' = [fetchJob EXCEPT !.at = "queued", !.rules = rules]
    /\ UNCHANGED <<requested, session, ruleVars>>

Merged(jar) == IF session = <<>> THEN jar ELSE BySession
Resolve ==
    /\ fetchJob.at = "queued"
    /\ fetchJob' = [fetchJob EXCEPT !.at = "resolved", !.source = SourceOf(requested),
                          !.jar = Merged(JarFor(Ordered(fetchJob.rules), Expand(requested)))]
    /\ UNCHANGED <<requested, session, ruleVars>>

\* A URL nothing is known of is asked for its type; when that fails it is taken for a page.
ProbeType ==
    /\ fetchJob.at = "resolved" /\ fetchJob.source = "Url"
    /\ \E source \in {"WebPage", "File"} : fetchJob' = [fetchJob EXCEPT !.source = source]
    /\ UNCHANGED <<requested, session, ruleVars>>

Fetches(tool, url, jar, seeded) ==
    /\ fetchJob' = [fetchJob EXCEPT !.at = "fetched", !.tool = tool, !.url = url, !.sent = jar, !.seeded = seeded]
    /\ UNCHANGED <<requested, session, ruleVars>>

\* YtDlp is handed whatever the locator expands to; the list of a playlist comes from it too.
FetchMedia ==
    /\ fetchJob.at = "resolved" /\ fetchJob.source \in SingleSources \cup ListSources \cup {"SpotifyTrack"}
    /\ Fetches("yt-dlp", Expand(requested), fetchJob.jar, FALSE)
FetchTweet ==
    /\ fetchJob.at = "resolved" /\ fetchJob.source \in {"Tweet", "TweetThread"}
    /\ Fetches("scraper", Web("x", "status"), Merged(JarFor(Ordered(fetchJob.rules), Web("x", "page"))), FALSE)
FetchFile ==
    /\ fetchJob.at = "resolved" /\ fetchJob.source = "File"
    /\ Fetches("http", requested, fetchJob.jar, FALSE)

\* Asked for, a page of a host the mirror supports is fetched from it, without cookies.
Mirrored(via) == via /\ requested.site = "medium"
FetchedPage(via) == IF Mirrored(via) THEN Web("freedium", "page") ELSE requested
\* A slip in it: the cookies go to the mirror.
JarSentAlong(via) == fetchJob.jar
PageJar(via) == IF Mirrored(via) THEN 0 ELSE fetchJob.jar
FetchPage(via) ==
    /\ fetchJob.at = "resolved" /\ fetchJob.source = "WebPage"
    /\ Fetches("browser", FetchedPage(via), PageJar(via),
               session # <<>> /\ session[1].stored /\ ~(FetchedPage(via).site = "freedium" /\ FetchedPage(via).tls))
RefuseSource ==
    /\ fetchJob.at = "resolved" /\ fetchJob.source = "Other"
    /\ Fetches("refused", fetchJob.url, 0, FALSE)
CopyUpload ==
    /\ fetchJob.at = "resolved" /\ fetchJob.source = "Local"
    /\ Fetches("copy", requested, 0, FALSE)

SourcesInit ==
    /\ requested \in Locator
    /\ session \in {<<>>} \cup {<<s>> : s \in [host : SessionHost, tls : BOOLEAN, stored : BOOLEAN]}
    /\ rules = {} /\ born = 0 /\ ruleEdits = 0
    /\ edit = [e \in Editor |-> NoEdit]
    /\ ruleAsked = [i \in 1..MaxRule |-> <<>>] /\ unseen = {}
    /\ fetchJob = NoFetch

SourcesNext ==
    \/ \E e \in Editor : BeginCreate(e) \/ EndCreate(e) \/ BeginUpdate(e) \/ EndUpdate(e)
    \/ \E id \in 1..MaxRule : DeleteRule(id)
    \/ SubmitCapture \/ Resolve \/ ProbeType
    \/ FetchMedia \/ FetchTweet \/ FetchFile \/ RefuseSource \/ CopyUpload
    \/ \E via \in BOOLEAN : FetchPage(via)

SourcesTypeOK ==
    /\ requested \in Locator /\ rules \subseteq Rule /\ born \in 0..MaxRule /\ ruleEdits \in 0..MaxRuleEdits
    /\ unseen \subseteq 1..MaxRule /\ fetchJob.jar \in 0..BySession
    /\ \A e \in Editor : edit[e].at \in {"idle", "insert", "write"}

----------------------------------------------------------------------------
(* What has to hold.                                                       *)

(* What yt-dlp is handed is a URL, one the server would take for the same    *)
(* source; but the media of a tweet are handed over as the tweet, and two    *)
(* shorthands as they are: `twitter:media:` and a `spotify:` of no known     *)
(* kind (expand_shorthand_to_url).                                           *)
HandedOver == ProbeUrl(requested) \cup ListUrl(requested) \cup IF fetchJob.tool = "yt-dlp" THEN {fetchJob.url} ELSE {}
YtDlpGetsUrls ==
    \A url \in HandedOver :
        \/ url.form = "url" /\ SourceOf(url) = SourceOf(requested)
        \/ SourceOf(requested) = "X" /\ url = Web("x", "status")
        \/ url = requested /\ requested \in {Short("twitter", "media"), Short("spotify", "junk")}

(* The dialog probes what the server lets be probed, as far as they look at  *)
(* the same thing: it does not read the id of `media:`, and takes http://x.com *)
(* for what https:// is (isVideoSource, isPlaylistSource, locator_to_ytdlp_url, *)
(* locator_to_playlist_url).                                                 *)
DialogAsksForWhatIsThere ==
    /\ (ProbeUrl(requested) # {}) => DialogProbes(requested)
    /\ DialogProbes(requested) => \/ ProbeUrl(requested) # {} \/ requested.path = "badmedia"
                                \/ (requested.site = "x" /\ ~requested.tls)
    /\ (ListUrl(requested) # {}) <=> DialogLists(requested)

(* A capture sends the cookie of the last rule, as the rules were when it was *)
(* submitted, that is for every page or for the host it fetches from, and of *)
(* the browser session before any rule; nothing goes to the mirror, nor to   *)
(* a copy (resolve_cookies_for_url, merge_cookies, perform_capture).         *)
Governing ==
    LET host == IF fetchJob.url.form = "url" THEN {fetchJob.url.site} ELSE {}
    IN  {r \in fetchJob.rules : r.pattern = "none" \/ (r.kind # "global" /\ r.pattern \in host)}
CookiesAreOfTheHost ==
    fetchJob.at = "fetched" /\ fetchJob.tool # "refused" =>
        \/ /\ fetchJob.sent = 0
           /\ Governing = {} \/ fetchJob.tool = "copy" \/ (fetchJob.tool = "browser" /\ fetchJob.url.site # requested.site)
        \/ /\ fetchJob.sent = BySession /\ \E s \in ToSet(session) : s.host = fetchJob.url.site \/ fetchJob.tool = "scraper"
        \/ /\ session = <<>> /\ \E r \in Governing : fetchJob.sent = r.id /\ \A s \in Governing \ {r} : Late(r, s)

(* What is stored for a page in the browser is brought only to its origin    *)
(* (storage_applies_to, perform_capture).                                    *)
SeedStaysAtItsOrigin ==
    fetchJob.seeded => \E s \in ToSet(session) : s.host = fetchJob.url.site /\ s.tls = fetchJob.url.tls

(* A rule is what the updates that were answered make of it, unless one was  *)
(* written over another it had not seen (update_cookie_rule_handler reads    *)
(* and writes in statements of their own).                                   *)
RulesAreAsEdited == \A r \in rules : r.id \in unseen \/ ruleAsked[r.id] = <<Fields(r)>>

(* The right thing is requested from the right place, with the right cookies.  *)
SourcesAgree ==
    /\ YtDlpGetsUrls /\ DialogAsksForWhatIsThere
    /\ CookiesAreOfTheHost /\ SeedStaysAtItsOrigin /\ RulesAreAsEdited
=============================================================================
