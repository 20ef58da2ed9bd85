-------------------------------- MODULE Rail --------------------------------
(***************************************************************************)
(* The context rail of the web interface: the entry selected in the list,  *)
(* its detail, and its summary, which is generated, polled for and edited  *)
(* there.  Requests are answered in any order and after other clicks.      *)
(* Sequence numbers, abort controllers and keys decide which answers       *)
(* still count; here a request is live until its number or controller is   *)
(* passed.  Effects run with the change of state that causes them.  The    *)
(* server's side of summaries is in Summaries.                             *)
(***************************************************************************)
EXTENDS Naturals, FiniteSets

CONSTANTS
    Shown,          \* entries in the list
    MaxVersion,     \* bound: completed summaries of an entry
    MaxRequests     \* bound: requests under way

ASSUME RailAssumption == 0 \notin Shown /\ MaxVersion \in Nat \ {0} /\ MaxRequests \in Nat

VARIABLES
    version,    \* [Shown -> latest completed summary at the server, 0 for none]
    working,    \* SUBSET Shown: entries with an attempt pending or running
    selected,   \* selectedEntry, or Nothing
    detail,     \* entryDetail: the entry it is of, or Nothing
    summary,    \* version shown, 0 for none
    attempt,    \* "none", "running" or "ended": the attempt shown
    requests,   \* what is under way: a set of records
    newest,     \* ghost: the newest summary shown since the selection
    crossed     \* ghost: answers that are not ordered were under way together

railVars == <<version, working, selected, detail, summary, attempt, requests, newest, crossed>>

Nothing == 0
RequestKind == {"detail", "poll", "generate", "save"}
Under(kind) == {q \in requests : q.kind = kind}
Request(kind, e) == [kind |-> kind, of |-> e, live |-> TRUE, answered |-> FALSE, version |-> 0, working |-> FALSE]
Matches == selected # Nothing /\ detail = selected

RailInit ==
    /\ version \in [Shown -> 0..1] /\ working = {} /\ selected = Nothing /\ detail = Nothing
    /\ summary = 0 /\ attempt = "none" /\ requests = {} /\ newest = 0 /\ crossed = FALSE

(* Requests of these kinds no longer count. *)
Passing(Q, kinds) == {IF q.kind \in kinds THEN [q EXCEPT !.live = FALSE] ELSE q : q \in Q}
Show(v, a) == summary' = v /\ attempt' = a /\ newest' = (IF v > newest THEN v ELSE newest)

(* Polls that stop take those under way with them.  A slip: they do not. *)
KeepsPolls(Q) == Q
StopsPolls(Q) == Passing(Q, {"poll"})
Stops(Q) == StopsPolls(Passing(Q, {"generate"}))

(* A new detail request passes the one before. *)
PassesEarlier(Q) == Passing(Q, {"detail"})
AskDetail(Q, e) == IF e = Nothing THEN PassesEarlier(Q) ELSE PassesEarlier(Q) \cup {Request("detail", e)}
MayAsk == Cardinality(requests) < MaxRequests

----------------------------------------------------------------------------
(* Clicks.  Selecting another entry blanks detail and summary and ends the   *)
(* poll and the generation, but not a save; so does renaming the selected    *)
(* entry, which replaces it by another object with the same uid.             *)
Select(e) ==
    /\ e # selected /\ MayAsk
    /\ selected' = e /\ detail' = Nothing /\ summary' = 0 /\ attempt' = "none" /\ newest' = 0
    /\ requests' = AskDetail(Stops(requests), e)
    /\ UNCHANGED <<version, working, crossed>>
Rename ==
    /\ selected # Nothing /\ MayAsk /\ detail' = Nothing
    /\ IF detail = Nothing
       THEN requests' = AskDetail(requests, selected) /\ UNCHANGED <<summary, attempt, newest>>
       ELSE requests' = AskDetail(Stops(requests), selected) /\ Show(0, "none")
    /\ UNCHANGED <<version, working, selected, crossed>>

Generate ==
    /\ Matches /\ attempt # "running" /\ MayAsk /\ ~\E q \in Under("generate") : q.live
    /\ requests' = requests \cup {Request("generate", detail)}
    /\ crossed' = (crossed \/ Under("save") # {})
    /\ UNCHANGED <<version, working, selected, detail, summary, attempt, newest>>
Save ==
    /\ Matches /\ attempt # "running" /\ MayAsk /\ Request("save", detail) \notin requests
    /\ requests' = requests \cup {Request("save", detail)}
    /\ crossed' = (crossed \/ Under("save") # {} \/ \E q \in Under("generate") : q.live)
    /\ UNCHANGED <<version, working, selected, detail, summary, attempt, newest>>
PollSummary ==
    /\ Matches /\ attempt = "running" /\ MayAsk
    /\ requests' = requests \cup {Request("poll", detail)}
    /\ crossed' = (crossed \/ \E q \in Under("poll") : q.live)
    /\ UNCHANGED <<version, working, selected, detail, summary, attempt, newest>>

----------------------------------------------------------------------------
(* The server. *)
Serve(q) ==
    /\ ~q.answered
    /\ \/ q.kind \in {"detail", "poll", "generate"} /\ UNCHANGED version
       \/ q.kind = "save" /\ version[q.of] < MaxVersion /\ version' = [version EXCEPT ![q.of] = @ + 1]
    /\ \/ q.kind # "generate" /\ UNCHANGED working
       \/ q.kind = "generate" /\ working' = working \cup {q.of}            \* 202: an attempt
       \/ q.kind = "generate" /\ version[q.of] > 0 /\ UNCHANGED working   \* 200: a cached summary
    /\ requests' = (requests \ {q}) \cup
            {[q EXCEPT !.answered = TRUE, !.version = version'[q.of], !.working = q.of \in working']}
    /\ UNCHANGED <<selected, detail, summary, attempt, newest, crossed>>
AttemptEnds(e) ==
    /\ e \in working /\ working' = working \ {e}
    /\ \/ UNCHANGED version
       \/ version[e] < MaxVersion /\ version' = [version EXCEPT ![e] = @ + 1]
    /\ UNCHANGED <<selected, detail, summary, attempt, requests, newest, crossed>>
SomebodyEdits(e) ==
    /\ version[e] < MaxVersion /\ version' = [version EXCEPT ![e] = @ + 1]
    /\ UNCHANGED <<working, selected, detail, summary, attempt, requests, newest, crossed>>

----------------------------------------------------------------------------
(* Answers.  One that no longer counts, or failed, changes nothing. *)
Counts(q) == q.live /\ (q.kind # "detail" => q.of = selected)
Ignore(q) ==
    /\ requests' = requests \ {q}
    /\ UNCHANGED <<version, working, selected, detail, summary, attempt, newest, crossed>>
Arrived(kind, q) == q.kind = kind /\ q.answered /\ Counts(q)
Discard(q) == Ignore(q) /\ (q.answered => ~Counts(q))

(* A detail seeds the summary when the entry it is of is new in the rail. *)
DetailArrives(q) ==
    /\ Arrived("detail", q) /\ detail' = q.of
    /\ IF detail = q.of
       THEN requests' = requests \ {q} /\ UNCHANGED <<summary, attempt, newest, crossed>>
       ELSE /\ requests' = Stops(requests \ {q})
            /\ IF q.of = selected THEN Show(q.version, IF q.working THEN "running" ELSE "none") ELSE Show(0, "none")
            /\ crossed' = (crossed \/ Under("save") # {})
    /\ UNCHANGED <<version, working, selected>>

(* The poll stops with the attempt; a completed one has the detail asked for *)
(* again.                                                                    *)
PollArrives(q) ==
    /\ Arrived("poll", q) /\ Show(q.version, IF q.working THEN "running" ELSE "ended")
    /\ requests' = (IF q.working THEN requests \ {q} ELSE AskDetail(StopsPolls(requests \ {q}), selected))
    /\ UNCHANGED <<version, working, selected, detail, crossed>>
GenerateArrives(q) ==
    /\ Arrived("generate", q)
    /\ IF q.working
       THEN requests' = requests \ {q} /\ attempt' = "running" /\ UNCHANGED <<summary, newest>>
       ELSE requests' = AskDetail(requests \ {q}, selected) /\ Show(q.version, "none")
    /\ UNCHANGED <<version, working, selected, detail, crossed>>
SaveArrives(q) ==
    /\ Arrived("save", q) /\ Show(q.version, "none")
    /\ requests' = AskDetail(StopsPolls(requests \ {q}), selected)
    /\ UNCHANGED <<version, working, selected, detail, crossed>>

RailNext ==
    \/ Rename \/ Generate \/ Save \/ PollSummary
    \/ \E e \in Shown \cup {Nothing} : Select(e)
    \/ \E e \in Shown : AttemptEnds(e) \/ SomebodyEdits(e)
    \/ \E q \in requests :
        Serve(q) \/ Discard(q) \/ DetailArrives(q) \/ PollArrives(q) \/ GenerateArrives(q) \/ SaveArrives(q)
RailSpec == RailInit /\ [][RailNext]_railVars

----------------------------------------------------------------------------
(* Properties. *)

RailTypeOK ==
    /\ version \in [Shown -> 0..MaxVersion] /\ working \subseteq Shown
    /\ selected \in Shown \cup {Nothing} /\ detail \in Shown \cup {Nothing}
    /\ summary \in 0..MaxVersion /\ attempt \in {"none", "running", "ended"} /\ newest \in 0..MaxVersion
    /\ \A q \in requests : q.kind \in RequestKind /\ q.of \in Shown /\ q.version \in 0..MaxVersion

(* The rail shows the entry that is selected, whatever answers are late, and *)
(* when no attempt is awaited its summary is the newest that was shown: an   *)
(* older answer never replaces it, unless two polls were under way together, *)
(* or a save with another save, a generation or a new detail: their answers  *)
(* are not ordered (handleSaveSummary, and the poll in ContextRail).         *)
RailShowsTheSelection ==
    /\ detail \in {Nothing, selected} /\ (detail = Nothing => attempt # "running")
    /\ attempt # "running" => summary = newest \/ summary = 0 \/ crossed
=============================================================================
