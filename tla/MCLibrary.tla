------------------------------ MODULE MCLibrary ------------------------------
(***************************************************************************)
(* Small instances of the components that show what the archive holds in  *)
(* a browser, list it, title it, let requests in, or open the databases.   *)
(* They share no state, so that a behaviour moves one of them, the focus,  *)
(* and the others rest where they began.  Some are moved in parts: the     *)
(* rows of the capture dialog; the list and its selection; and, of the     *)
(* gate, requests about passwords and sessions, those with tokens, and the *)
(* limit on sign-ins.                                                      *)
(***************************************************************************)
EXTENDS CaptureTab, Drafts, Rail, Selection, Gate, Schema, Providers, Titles, Listing, TLC

CONSTANTS
    e1, e2, f1, f2,             \* selected entries, members of a container, requests, addresses; other requests
    t1,                         \* an article
    box, clip, lone,            \* entries to list
    v1, v2, l1, i1, i2, hd, sd, \* locators, items and qualities; l1 and i1 label entries, too
    r1, r2, q1, q2,             \* rows and queries
    pa, pu, no,                 \* an administrator, a user, none
    Foci

Offers3 == (v1 :> (v1 :> {sd, "audio"})) @@ (v2 :> (v2 :> {"audio"})) @@ (l1 :> (i1 :> {sd} @@ i2 :> {hd, "audio"}))
FieldsTogether ==
    {{"base"}, {"key"}, {"model"}, {"anthropic_http"}, {"openai_compatible"}, {"base", "openai_compatible"}}
Within == (box :> no) @@ (clip :> box) @@ (lone :> no)
Above == (l1 :> no) @@ (i1 :> l1)
FoundBy == (q1 :> {r1, r2}) @@ (q2 :> {r1})

VARIABLE focus

LibraryVars == <<tabVars, draftVars, railVars, selectionVars, gateVars,
                 schemaVars, providerVars, titleVars, listingVars, focus>>
Rests(components, variables) == IF focus \in components THEN TRUE ELSE UNCHANGED variables

BareServer ==
    [anthropicKey |-> FALSE, openaiKey |-> FALSE, url |-> "default", model |-> FALSE, title |-> FALSE, cli |-> "none"]
ScopeIn(f) == IF f = "secrets" THEN {"full"} ELSE {"read"}

(* What is not the focus begins in one state.                                *)
Only(components, state) == IF focus \in components THEN TRUE ELSE state
LibraryInit ==
    /\ focus \in Foci
    /\ TabInit /\ DraftsInit
    /\ Only({"rail"}, version = [e \in Shown |-> 0]) /\ RailInit
    /\ Only({"rows", "list"}, query = q1) /\ SelectionInit
    /\ apiTokens \in SUBSET [of : {pu}, scope : ScopeIn(focus)] /\ GateInit
    /\ opened = {[id |-> 1, of |-> pu, pw |-> 0]}
    /\ Only({"schema"}, hasTables = TRUE /\ old = TRUE /\ columns = {} /\ made = [c \in OldChild |-> 0]) /\ SchemaInit
    /\ Only({"providers"}, env = BareServer) /\ ProvidersInit
    /\ Only({"titles"}, shelf = [u \in Titled |-> <<>>]) /\ TitlesInit /\ (focus = "titles" <=> OnShelf # {})
    /\ Only({"details"}, jobRows = <<>>)
    /\ Only({"labels"}, bared = IF focus \in {"lists", "details"} THEN {box} ELSE Listable) /\ ListingInit

(* The requests that are let in do one of ops. *)
Calls(ops) == \A c \in GateCall : call'[c].at = "idle" \/ call'[c].op \in ops
AboutPasswords == {"login", "logout", "password", "reset", "revokeOne", "revokeOthers", "revokeAll"}

(* No statement of a task fails, no crash ends one, and the second is under way. *)
Undisturbed ==
    faulty' = {} /\ \A j \in DOMAIN task' : task'[j] = "over" => j = 1 /\ jobRows'[j].state \in {"completed", "failed"}

(* Requests for a title differ in nothing: the first one is taken first.     *)
InTurn == ask[f1].at = "idle" /\ ask[f2].at = "idle" => ask'[f2].at = "idle"

Reads(kinds) == \A r \in Reading : reading'[r].kind \in kinds \cup {"none"}

LibraryNext ==
    /\ UNCHANGED focus
    /\ Rests({"tab"}, tabVars) /\ Rests({"locators", "texts"}, draftVars)
    /\ Rests({"rail"}, railVars) /\ Rests({"rows", "list"}, selectionVars)
    /\ Rests({"tokens", "secrets"}, <<secretVars, call, calls>>) /\ Rests({"limit"}, limitVars)
    /\ Rests({"schema"}, schemaVars)
    /\ Rests({"providers"}, providerVars) /\ Rests({"titles"}, titleVars)
    /\ Rests({"lists", "details", "labels"}, listingVars)
    /\ \/ focus = "tab" /\ TabNext
       \/ focus = "locators" /\ UNCHANGED <<textVars, fileVars>> /\ DraftsNext
       \/ focus = "texts" /\ UNCHANGED locatorVars /\ DraftsNext
       \/ focus = "rail" /\ RailNext
       \/ focus = "rows" /\ UNCHANGED <<query, loads>> /\ SelectionNext /\ Cardinality(known' \cap MemberRow) < 2
       \/ focus = "list" /\ fetches' = {} /\ SelectionNext /\ known' \subseteq {r1} /\ Cardinality(picked' \cap MemberRow) < 2
       \/ focus = "limit" /\ GateNext
       \/ focus = "schema" /\ SchemaNext
       \/ focus = "providers" /\ ProvidersNext
       \/ focus = "titles" /\ TitlesNext /\ InTurn
       \/ focus = "lists" /\ UNCHANGED labelVars /\ (JobSteps \/ \E e \in Listable : ChangeMask(e)) /\ Reads({"jobs", "runs"})
          /\ taggings' < 2 /\ \A j \in DOMAIN jobRows' : Len(jobRows'[j].items) < 2 - (j - 1) /\ Produced(jobRows'[j].items) \subseteq {clip}
          /\ Undisturbed /\ bared' \subseteq {box} /\ \E r \in Reading : reading[r].at # "done"
       \/ focus = "details" /\ UNCHANGED <<labelVars, bared>> /\ JobSteps /\ Reads({"job"}) /\ Len(jobRows') = 1
       \/ focus = "labels" /\ ListingNext /\ UNCHANGED jobVars
       \/ focus = "secrets" /\ (CallNext \/ Lapse) /\ Calls(AboutPasswords) /\ apiTokens' \subseteq apiTokens
          /\ \A c \in GateCall : call'[c].token = <<>> \/ call'[c].cookie = 0
       \/ focus = "tokens" /\ (CallNext \/ Lapse) /\ Calls({"read", "write", "logout", "newToken", "dropToken"})
LibrarySpec == LibraryInit /\ [][LibraryNext]_LibraryVars

(* Entries, members, requests and addresses are alike. *)
Alike == Permutations({e1, e2})

(* A component at rest is where it began, so that only the focus is asked.   *)
In(components, promise) == IF focus \in components THEN promise ELSE TRUE

(* Every variable of every component keeps its type. *)
LibraryTypeOK ==
    /\ In({"tab"}, TabTypeOK) /\ In({"locators", "texts"}, DraftsTypeOK) /\ In({"rail"}, RailTypeOK)
    /\ In({"rows", "list"}, SelectionTypeOK) /\ In({"limit", "secrets", "tokens"}, GateTypeOK)
    /\ In({"schema"}, SchemaTypeOK)
    /\ In({"providers"}, ProvidersTypeOK) /\ In({"titles"}, TitlesTypeOK)
    /\ In({"lists", "details", "labels"}, ListingTypeOK)

(* Requests do what they say: those that may not are not let in, what is     *)
(* told of the providers is what is used, no setting or title that was       *)
(* answered is lost, and lists of jobs, runs and tags tell the truth (Gate,  *)
(* Providers, Titles, Listing).                                              *)
RequestsHold ==
    /\ In({"limit", "secrets", "tokens"}, GateHolds) /\ In({"providers"}, ProvidersAgree)
    /\ In({"titles"}, TitlesStand) /\ In({"lists", "details"}, JobsTellTheTruth) /\ In({"labels"}, TreeTellsWhatIsSeen)

(* What the web interface shows and submits agrees with what is selected,    *)
(* searched for and typed, whatever answers are late (App, ContextRail,      *)
(* CaptureDialog).                                                           *)
ScreenAgrees ==
    /\ In({"rail"}, RailShowsTheSelection) /\ In({"rows", "list"}, SelectionAgrees /\ ListIsOfTheQuery)
    /\ In({"locators", "texts"}, DraftsFit) /\ In({"tab"}, TabKeepsTrack)
=============================================================================
